--------------------------- MODULE Ceremony_proofs ---------------------------
(***************************************************************************)
(* Proofs about Ceremony, for every committee, any faulty members below    *)
(* the threshold and every plan.                                           *)
(*                                                                         *)
(* Places are ordered, and an honest member only moves forward: it speaks  *)
(* once in every place, what it says and deals is honest, and it is never  *)
(* dropped from its own openings.  A restart takes away at least one       *)
(* member, and never more than the policy allows.                          *)
(***************************************************************************)
EXTENDS Ceremony, FiniteSetTheorems, TLAPS

(* A non-empty set of natural numbers has a least element.                 *)
LEMMA LeastExists ==
  ASSUME NEW S \in SUBSET Nat, S # {}
  PROVE  \E x \in S : \A y \in S : x <= y
<1>1. PICK x \in S : \A y \in S : <<y, x>> \notin OpToRel(<, Nat)
  BY NatLessThanWellFounded, WFMin
<1>2. \A y \in S : ~(y < x)
  BY <1>1 DEF OpToRel
<1> QED
  BY <1>2

(* A non-empty set of parties has a first one.                             *)
LEMMA FirstIn ==
  ASSUME NEW S \in SUBSET Node, S # {}
  PROVE  First(S) \in S /\ \A q \in S : First(S) <= q
<1>1. S \in SUBSET Nat
  BY NodeAssumption
<1>2. \E x \in S : \A y \in S : x <= y
  BY <1>1, LeastExists
<1> QED
  BY <1>2 DEF First

-----------------------------------------------------------------------------
(* The order of places *)

Rank(round) ==
  IF round \in {"complain", "request"} THEN 1
  ELSE IF round \in {"defend", "supply"} THEN 2 ELSE 0

Before(p, q) ==
  \/ p.attempt < q.attempt
  \/ p.attempt = q.attempt /\ p.stage < q.stage
  \/ p.attempt = q.attempt /\ p.stage = q.stage /\ Rank(p.round) < Rank(q.round)

UpTo(p, q) == p = q \/ Before(p, q)

LEMMA BeforeIsOrder ==
  ASSUME NEW p \in Place, NEW q \in Place
  PROVE  /\ ~ Before(p, p)
         /\ Before(p, q) => ~ UpTo(q, p)
         /\ \A r \in Place : UpTo(p, q) /\ Before(q, r) => Before(p, r)
<1>1. \A x \in Place : x.attempt \in Nat /\ x.stage \in Int /\ Rank(x.round) \in Int
  BY DEF Place, Rank
<1>2. ~ Before(p, p)
  BY <1>1 DEF Before
<1>3. \A x, y, z \in Place : Before(x, y) /\ Before(y, z) => Before(x, z)
  BY <1>1 DEF Before
<1> QED
  BY <1>2, <1>3 DEF UpTo

-----------------------------------------------------------------------------
(* The invariant *)

(* What an honest member says in a round.                                  *)
Word(round) ==
  IF round \in Dealing THEN "fine" ELSE IF round \in Opening THEN "good" ELSE "list"

Spoke(p, i) == \E m \in said : m.at = p /\ m.from = i

HeardOnce == \A x, y \in said : x.at = y.at /\ x.from = y.from => x = y

DealtOnce ==
  \A x, y \in shares : x.at = y.at /\ x.from = y.from /\ x.to = y.to => x = y

HonestSays ==
  \A m \in said : m.from \in Honest =>
    UpTo(m.at, at[m.from]) /\ m.what = Word(m.at.round)

HonestDeals ==
  \A m \in shares : m.at \in Place /\ (m.from \in Honest => m.share = "good" /\ UpTo(m.at, at[m.from]))

Present == \A n \in Honest : Spoke(at[n], n)

EnoughMembers == \A n \in Honest : Cardinality(committee[n]) >= 2 * T - 1

(* The shares that are mended are those of faulty members.                 *)
SupplyClean ==
  \A n \in Honest : at[n].round = "supply" =>
    LET p == [at[n] EXCEPT !.round = "request"] IN
    Heard(p, committee[n]) /\ Reconstructed(p, committee[n]) \subseteq committee[n] \cap Faulty

IInv ==
  /\ TypeOK /\ HeardOnce /\ DealtOnce /\ HonestSays /\ HonestDeals /\ Present
  /\ EnoughMembers /\ SupplyClean

-----------------------------------------------------------------------------
(* What is heard *)

LEMMA FromIs ==
  ASSUME NEW p, NEW i, Spoke(p, i)
  PROVE  From(p, i) \in said /\ From(p, i).at = p /\ From(p, i).from = i
BY DEF Spoke, From

LEMMA ShareIs ==
  ASSUME NEW p, NEW d, NEW i, Dealt(p, i, {d})
  PROVE  \E m \in shares : m.at = p /\ m.from = d /\ m.to = i /\ Share(p, d, i) = m.share
BY DEF Dealt, Share

LEMMA HeardIs ==
  ASSUME NEW p, NEW ids
  PROVE  Heard(p, ids) <=> \A i \in ids : Spoke(p, i)
BY DEF Heard, Spoke

(* What an honest member says, and what it deals, is honest.               *)
LEMMA HonestWord ==
  ASSUME HonestSays, NEW n \in Honest, NEW p, Spoke(p, n)
  PROVE  What(p, n) = Word(p.round) /\ UpTo(p, at[n])
BY FromIs DEF HonestSays, What

LEMMA HonestShare ==
  ASSUME HonestDeals, NEW d \in Honest, NEW p, NEW i, Dealt(p, i, {d})
  PROVE  Share(p, d, i) = "good"
BY ShareIs DEF HonestDeals

(* Who asks for a dealer's share to be mended without lying, shows that    *)
(* the dealer is faulty.                                                   *)
LEMMA OnlyFaultyMended ==
  ASSUME HonestDeals, NEW p, NEW ids \in SUBSET Node,
         \A v \in ids : ~ FalseRequest(p, v, ids)
  PROVE  Reconstructed(p, ids) \subseteq ids \cap Faulty
<1> SUFFICES ASSUME NEW v \in ids, NEW n \in Names(p, v) PROVE n \in ids \cap Faulty
  BY DEF Reconstructed
<1>1. Genuine(p, v, n, ids)
  BY DEF FalseRequest
<1>2. n \in ids
  BY <1>1 DEF Genuine
<1>3. CASE {v, n} \subseteq Faulty
  BY <1>2, <1>3
<1>4. CASE /\ Dealt(Start(p.attempt, p.stage), v, {n})
           /\ Share(Start(p.attempt, p.stage), n, v) = "bad"
  <2>1. n \notin Honest
    BY <1>4, HonestShare
  <2> QED
    BY <1>2, <2>1 DEF Honest
<1> QED
  BY <1>1, <1>3, <1>4 DEF Genuine

-----------------------------------------------------------------------------
(* What a step does *)

(* n goes to place q and speaks there, and deals to ids if it is a dealing.*)
Speaks(n, q, names, ids) ==
  /\ at' = [at EXCEPT ![n] = q]
  /\ said' = said \cup {Message(q, n, Word(q.round), names)}
  /\ shares' = shares \cup IF q.round \in Dealing
       THEN {[at |-> q, from |-> n, to |-> i, share |-> "good"] : i \in ids}
       ELSE {}

LEMMA StagesType ==
  ASSUME TypeOK
  PROVE  /\ Len(Stages) \in Nat \ {0}
         /\ \A s \in 1 .. Len(Stages) : Stages[s] \in Dealing \cup Opening
         /\ \A k \in Nat, s \in 1 .. Len(Stages) :
              Start(k, s) \in Place /\ Rank(Start(k, s).round) = 0
<1>1. Stages \in Seq({"deal", "redeal", "open", "openall", "sign", "signall"}) /\ Stages # <<>>
  BY PlansAssumption DEF TypeOK, Stages
<1>2. Len(Stages) \in Nat \ {0}
  BY <1>1
<1>3. \A s \in 1 .. Len(Stages) : Stages[s] \in Dealing \cup Opening
  BY <1>1 DEF Dealing, Opening, Signing
<1>4. ASSUME NEW k \in Nat, NEW s \in 1 .. Len(Stages)
      PROVE  Start(k, s) \in Place /\ Rank(Start(k, s).round) = 0
  BY <1>3, <1>4 DEF Start, Place, Rank, Dealing, Opening, Signing
<1> QED
  BY <1>2, <1>3, <1>4

LEMMA EnterSpeaks ==
  ASSUME TypeOK, NEW n, NEW k \in Nat, NEW s \in 1 .. Len(Stages), NEW ids, Enter(n, k, s, ids)
  PROVE  Speaks(n, Start(k, s), {}, ids)
<1>1. Start(k, s).round = Stages[s] /\ Stages[s] \in Dealing \cup Opening
  BY StagesType DEF Start
<1> QED
  BY <1>1 DEF Enter, Speaks, Word

(* The cases of a step of an honest member.                                *)
Aborts(n) == \E B \in SUBSET committee[n] : B # {} /\ Abort(n, B)
Passes(n) == \E R \in SUBSET active[n] : n \in R /\ Pass(n, R)
Continues(n) ==
  \E r \in {"complain", "defend", "request", "supply"} : \E names :
    /\ Reports(n, r, names) /\ Rank(r) > Rank(at[n].round)
    /\ r = "supply" => at[n].round = "request" /\ Heard(at[n], committee[n])
                        /\ Reconstructed(at[n], committee[n]) \subseteq committee[n] \cap Faulty
Stops(n) ==
  \E how \in {"panicked", "failed"} : Ends(n, how) /\ UNCHANGED <<committee, active, blamed>>

LEMMA MembersType ==
  ASSUME TypeOK, NEW n \in Honest
  PROVE  /\ n \in Node /\ n \notin Faulty
         /\ at[n] \in Place /\ committee[n] \in SUBSET Node /\ active[n] \in SUBSET committee[n]
         /\ n \in active[n] /\ n \in committee[n] /\ blamed[n] \in SUBSET Node
         /\ at[n].attempt \in Nat /\ at[n].stage \in 1 .. Len(Stages)
BY DEF TypeOK, Honest, Place

LEMMA CheckCases ==
  ASSUME IInv, NEW n \in Honest, Check(n)
  PROVE  Aborts(n) \/ Continues(n)
<1> DEFINE p == at[n]
           ids == committee[n]
           malformed == {d \in ids : What(p, d) = "malformed"}
           misdealt == {d \in ids : Share(p, d, n) = "malformed"}
           wrong == {d \in ids : What(p, d) = "wrong"}
           bad == {d \in ids : Share(p, d, n) = "bad"}
<1>1. ids \in SUBSET Node
  BY MembersType DEF IInv
<1>2. \A S \in SUBSET ids : S # {} => {First(S)} \in SUBSET ids /\ {First(S)} # {}
  BY <1>1, FirstIn
<1>3. \/ malformed # {} /\ Abort(n, {First(malformed)})
      \/ malformed = {} /\ misdealt # {} /\ Abort(n, {First(misdealt)})
      \/ malformed \cup misdealt = {} /\ wrong # {} /\ Abort(n, {First(wrong)})
      \/ Reports(n, IF p.round = "deal" THEN "complain" ELSE "request", bad)
  BY DEF Check
<1>4. p.round \in Dealing
  BY DEF Check, Running, Dealing
<1>5. malformed \in SUBSET ids /\ misdealt \in SUBSET ids /\ wrong \in SUBSET ids
  OBVIOUS
<1>6. CASE Reports(n, IF p.round = "deal" THEN "complain" ELSE "request", bad)
  BY <1>4, <1>6 DEF Continues, Rank, Dealing
<1> HIDE DEF malformed, misdealt, wrong, bad
<1> QED
  BY <1>2, <1>3, <1>5, <1>6 DEF Aborts

LEMMA DefendCases ==
  ASSUME IInv, NEW n \in Honest, Defend(n)
  PROVE  Aborts(n) \/ Continues(n)
<1> DEFINE p == at[n]
           ids == committee[n]
           malformed == {a \in ids : What(p, a) = "malformed"}
<1>1. ids \in SUBSET Node
  BY MembersType DEF IInv
<1>2. malformed # {} => {First(malformed)} \in SUBSET ids
  BY <1>1, FirstIn
<1>3. \/ malformed # {} /\ Abort(n, {First(malformed)})
      \/ Reports(n, "defend", {i \in ids : n \in Names(p, i)})
  BY DEF Defend
<1>4. CASE Reports(n, "defend", {i \in ids : n \in Names(p, i)})
  <2>1. Rank(at[n].round) = 1 /\ Rank("defend") = 2
    BY DEF Defend, Running, Rank
  <2> QED
    BY <1>4, <2>1 DEF Continues
<1> QED
  BY <1>2, <1>3, <1>4 DEF Aborts

LEMMA AdjudicateCases ==
  ASSUME IInv, NEW n \in Honest, Adjudicate(n)
  PROVE  Aborts(n) \/ Passes(n) \/ Stops(n)
<1> DEFINE p == at[n]
           ids == committee[n]
           accusers == Accusers(p, ids)
           a == First(accusers)
           d == First(Complaints(p, a))
<1>1. ids \in SUBSET Node /\ n \in active[n] /\ accusers \in SUBSET ids
  BY MembersType DEF IInv, Accusers
<1>2. accusers # {} => a \in ids
  BY <1>1, FirstIn
<1>3. \/ accusers = {} /\ Pass(n, active[n])
      \/ accusers # {} /\ d \in ids /\ Abort(n, Blame(p, a, d))
      \/ Ends(n, "panicked") /\ UNCHANGED <<committee, active, blamed>>
  BY DEF Adjudicate
<1>4. accusers # {} /\ d \in ids => Blame(p, a, d) \in SUBSET ids /\ Blame(p, a, d) # {}
  BY <1>2 DEF Blame
<1> HIDE DEF accusers, a, d
<1> QED
  BY <1>1, <1>3, <1>4 DEF Aborts, Passes, Stops

LEMMA JudgeCases ==
  ASSUME IInv, NEW n \in Honest, Judge(n)
  PROVE  Aborts(n) \/ Passes(n) \/ Continues(n) \/ Stops(n)
<1> DEFINE p == at[n]
           ids == committee[n]
           liars == {v \in ids : FalseRequest(p, v, ids)}
           set == Reconstructed(p, ids)
           mine == {d \in set : Share(Start(p.attempt, p.stage), d, n) = "good"}
<1>1. ids \in SUBSET Node /\ n \in active[n]
  BY MembersType DEF IInv
<1>2. liars # {} => {First(liars)} \in SUBSET ids /\ {First(liars)} # {}
  BY <1>1, FirstIn
<1>3. \/ liars # {} /\ Abort(n, {First(liars)})
      \/ Ends(n, "panicked") /\ UNCHANGED <<committee, active, blamed>>
      \/ Pass(n, active[n])
      \/ liars = {} /\ Reports(n, "supply", mine)
  BY DEF Judge
<1>4. ASSUME liars = {}, Reports(n, "supply", mine)
      PROVE  Continues(n)
  <2>1. Reconstructed(at[n], committee[n]) \subseteq committee[n] \cap Faulty
    BY <1>1, <1>4, OnlyFaultyMended DEF IInv
  <2>2. Rank(at[n].round) = 1 /\ Rank("supply") = 2 /\ at[n].round = "request"
    BY DEF Judge, Running, Rank
  <2>3. Heard(at[n], committee[n])
    BY DEF Judge
  <2> QED
    BY <1>4, <2>1, <2>2, <2>3 DEF Continues
<1> HIDE DEF liars, mine
<1> QED
  BY <1>1, <1>2, <1>3, <1>4 DEF Aborts, Passes, Stops

LEMMA RecoverCases ==
  ASSUME IInv, NEW n \in Honest, Recover(n)
  PROVE  Aborts(n) \/ Passes(n)
<1> DEFINE p == at[n]
           ids == committee[n]
           set == Reconstructed([p EXCEPT !.round = "request"], ids)
           malformed == {v \in ids : What(p, v) = "malformed"}
           lost == {d \in set : ~ Recoverable(p, d, ids)}
<1>1. ids \in SUBSET Node /\ n \in active[n] /\ n \notin Faulty
  BY MembersType DEF IInv
<1>2. \/ malformed # {} /\ Abort(n, {First(malformed)})
      \/ lost # {} /\ Abort(n, {First(lost)})
      \/ Pass(n, active[n] \ set)
  BY DEF Recover
<1>3. set \subseteq ids \cap Faulty
  BY DEF IInv, SupplyClean, Recover, Running
<1>4. lost \in SUBSET ids /\ malformed \in SUBSET ids
  BY <1>3
<1>5. \A S \in SUBSET ids : S # {} => {First(S)} \in SUBSET ids /\ {First(S)} # {}
  BY <1>1, FirstIn
<1>6. n \in active[n] \ set /\ active[n] \ set \in SUBSET active[n]
  BY <1>1, <1>3
<1> HIDE DEF lost, malformed, set
<1> QED
  BY <1>2, <1>4, <1>5, <1>6 DEF Aborts, Passes

LEMMA OpenCases ==
  ASSUME IInv, NEW n \in Honest, Open(n)
  PROVE  Aborts(n) \/ Passes(n) \/ Stops(n)
<1> DEFINE p == at[n]
           malformed == {i \in active[n] : What(p, i) = "malformed"}
           valid == {i \in active[n] : What(p, i) = "good"}
<1>1. committee[n] \in SUBSET Node /\ n \in active[n] /\ active[n] \in SUBSET committee[n]
  BY MembersType DEF IInv
<1>2. \/ malformed # {} /\ Abort(n, {First(malformed)})
      \/ Pass(n, valid)
      \/ Ends(n, "failed") /\ UNCHANGED <<committee, active, blamed>>
  BY DEF Open
<1>3. malformed \in SUBSET committee[n] /\ valid \in SUBSET active[n]
  BY <1>1
<1>4. malformed # {} => {First(malformed)} \in SUBSET committee[n] /\ {First(malformed)} # {}
  BY <1>1, <1>3, FirstIn
<1>5. n \in valid
  <2>1. p.round = "open" /\ Heard(p, active[n])
    BY DEF Open, Running
  <2>2. What(p, n) = Word(p.round)
    BY <1>1, <2>1, HeardIs, HonestWord DEF IInv
  <2> QED
    BY <1>1, <2>1, <2>2 DEF Word, Dealing, Opening
<1> HIDE DEF malformed, valid
<1> QED
  BY <1>2, <1>3, <1>4, <1>5 DEF Aborts, Passes, Stops

LEMMA OpenAllCases ==
  ASSUME IInv, NEW n \in Honest, OpenAll(n)
  PROVE  Aborts(n) \/ Passes(n)
<1> DEFINE p == at[n]
           malformed == {i \in active[n] : What(p, i) = "malformed"}
           bad == {i \in active[n] : What(p, i) = "bad"}
<1>1. committee[n] \in SUBSET Node /\ n \in active[n] /\ active[n] \in SUBSET committee[n]
  BY MembersType DEF IInv
<1>2. \/ malformed # {} /\ Abort(n, {First(malformed)})
      \/ bad # {} /\ Abort(n, bad)
      \/ Pass(n, active[n])
  BY DEF OpenAll
<1>3. malformed \in SUBSET committee[n] /\ bad \in SUBSET committee[n]
  BY <1>1
<1>4. malformed # {} => {First(malformed)} \in SUBSET committee[n] /\ {First(malformed)} # {}
  BY <1>1, <1>3, FirstIn
<1> HIDE DEF malformed, bad
<1> QED
  BY <1>1, <1>2, <1>3, <1>4 DEF Aborts, Passes

LEMMA CombineCases ==
  ASSUME IInv, NEW n \in Honest, Combine(n) \/ CombineAll(n)
  PROVE  Aborts(n) \/ Passes(n) \/ Stops(n)
<1>1. committee[n] \in SUBSET Node /\ n \in active[n] /\ active[n] \in SUBSET committee[n]
  BY MembersType DEF IInv
<1>2. PICK S \in Collected(n) :
      \/ Those(n, S, "malformed") # {} /\ Abort(n, {First(Those(n, S, "malformed"))})
      \/ Those(n, S, "bad") # {} /\ Abort(n, Those(n, S, "bad"))
      \/ at[n].round \in Signing /\ Pass(n, active[n] \ Those(n, S, "bad"))
      \/ Pass(n, active[n])
      \/ Ends(n, "failed") /\ UNCHANGED <<committee, active, blamed>>
  BY DEF Combine, CombineAll, Running, Signing
<1>3. \A what : Those(n, S, what) \in SUBSET active[n]
  BY DEF Collected, Those
<1>4. Those(n, S, "malformed") # {} =>
        /\ {First(Those(n, S, "malformed"))} \in SUBSET committee[n]
        /\ {First(Those(n, S, "malformed"))} # {}
  BY <1>1, <1>3, FirstIn
<1>5. at[n].round \in Signing => n \notin Those(n, S, "bad")
  <2> SUFFICES ASSUME at[n].round \in Signing, n \in S, What(at[n], n) = "bad" PROVE FALSE
    BY DEF Those
  <2>1. Spoke(at[n], n)
    BY DEF IInv, Present
  <2>2. What(at[n], n) = "good"
    BY <2>1, HonestWord DEF IInv, Word, Dealing, Opening, Signing
  <2> QED
    BY <2>2
<1>6. active[n] \ Those(n, S, "bad") \in SUBSET active[n]
  OBVIOUS
<1>7. Those(n, S, "bad") \in SUBSET committee[n]
  BY <1>1, <1>3
<1> QED
  BY <1>1, <1>2, <1>4, <1>5, <1>6, <1>7 DEF Aborts, Passes, Stops

(* A step of an honest member aborts its attempt, passes a stage, reports, *)
(* or stops.                                                               *)
LEMMA StepCases ==
  ASSUME IInv, NEW n \in Honest, Step(n) \/ Timeout(n)
  PROVE  Aborts(n) \/ Passes(n) \/ Continues(n) \/ Stops(n)
<1>1. CASE Timeout(n)
  BY <1>1 DEF Timeout, Stops
<1>2. CASE Step(n)
  BY <1>2, CheckCases, DefendCases, AdjudicateCases, JudgeCases, RecoverCases, OpenCases,
     OpenAllCases, CombineCases DEF Step
<1> QED
  BY <1>1, <1>2

Stands == UNCHANGED <<at, said, shares, committee>>

(* n goes to q and speaks there, in a stage of its attempt.                *)
Moves(n, q) ==
  /\ q \in Place /\ Before(at[n], q)
  /\ \E names, ids : Speaks(n, q, names, ids)

Restarts(n) ==
  \E S \in SUBSET committee[n] :
    /\ S # committee[n] /\ MayRestart(S) /\ n \in S
    /\ committee' = [committee EXCEPT ![n] = S] /\ active' = [active EXCEPT ![n] = S]
    /\ Speaks(n, Start(at[n].attempt + 1, 1), {}, S)
    /\ UNCHANGED outcome
    /\ plan.restarts /\ blamed' = [blamed EXCEPT ![n] = @ \cup (committee[n] \ S)]

LEMMA AbortEffect ==
  ASSUME TypeOK, NEW n \in Honest, NEW B \in SUBSET committee[n], B # {}, Abort(n, B)
  PROVE  /\ blamed' = [blamed EXCEPT ![n] = @ \cup B]
         /\ \/ /\ Stands /\ UNCHANGED active
               /\ \E how \in {"aborted", "refused", "expelled"} :
                    outcome' = [outcome EXCEPT ![n] = how]
            \/ Restarts(n)
<1> DEFINE S == committee[n] \ B
<1>1. blamed' = [blamed EXCEPT ![n] = @ \cup B]
  BY DEF Abort
<1>2. CASE \E how \in {"aborted", "refused", "expelled"} : Ends(n, how) /\ UNCHANGED <<committee, active>>
  BY <1>1, <1>2 DEF Ends, Stands
<1>3. CASE /\ MayRestart(S) /\ n \in S
           /\ committee' = [committee EXCEPT ![n] = S]
           /\ active' = [active EXCEPT ![n] = S]
           /\ Enter(n, Poisoned(at[n].attempt), 1, S)
           /\ UNCHANGED outcome /\ plan.restarts
  <2>0. at[n].attempt \in Nat /\ Len(Stages) \in Nat \ {0}
    BY MembersType, StagesType
  <2>1. at[n].attempt + 1 \in Nat /\ 1 \in 1 .. Len(Stages)
    BY <2>0
  <2>2. Speaks(n, Start(at[n].attempt + 1, 1), {}, S)
    BY <1>3, <2>1, EnterSpeaks DEF Poisoned
  <2>3. S \in SUBSET committee[n] /\ S # committee[n] /\ B = committee[n] \ S
    OBVIOUS
  <2> HIDE DEF S
  <2>4. blamed' = [blamed EXCEPT ![n] = @ \cup (committee[n] \ S)]
    BY <1>1, <2>3
  <2> QED
    BY <1>1, <1>3, <2>2, <2>3, <2>4 DEF Restarts
<1>4. \/ \E how \in {"aborted", "refused", "expelled"} : Ends(n, how) /\ UNCHANGED <<committee, active>>
      \/ /\ MayRestart(S) /\ n \in S
         /\ committee' = [committee EXCEPT ![n] = S]
         /\ active' = [active EXCEPT ![n] = S]
         /\ Enter(n, Poisoned(at[n].attempt), 1, S)
         /\ UNCHANGED outcome /\ plan.restarts
  BY DEF Abort
<1> QED
  BY <1>2, <1>3, <1>4

LEMMA PassEffect ==
  ASSUME TypeOK, NEW n \in Honest, NEW R \in SUBSET active[n], Pass(n, R)
  PROVE  /\ active' = [active EXCEPT ![n] = R] /\ UNCHANGED committee
         /\ \/ /\ Stands /\ at[n].stage = Len(Stages)
               /\ outcome' = [outcome EXCEPT ![n] = "output"]
               /\ blamed' = [blamed EXCEPT ![n] = @ \cup (committee[n] \ R)]
            \/ /\ at[n].stage # Len(Stages) /\ UNCHANGED <<outcome, blamed>>
               /\ Speaks(n, Start(at[n].attempt, at[n].stage + 1), {}, committee[n])
               /\ Moves(n, Start(at[n].attempt, at[n].stage + 1))
<1>1. CASE at[n].stage = Len(Stages)
  BY <1>1 DEF Pass, Ends, Stands
<1>2. CASE at[n].stage # Len(Stages)
  <2>0. at[n].attempt \in Nat /\ at[n].stage \in 1 .. Len(Stages) /\ Len(Stages) \in Nat
    BY MembersType, StagesType
  <2>1. at[n].attempt \in Nat /\ at[n].stage + 1 \in 1 .. Len(Stages)
    BY <1>2, <2>0
  <2>2. Speaks(n, Start(at[n].attempt, at[n].stage + 1), {}, committee[n])
    BY <1>2, <2>1, EnterSpeaks DEF Pass
  <2>3. Start(at[n].attempt, at[n].stage + 1) \in Place
    BY <2>1, StagesType
  <2>4. Before(at[n], Start(at[n].attempt, at[n].stage + 1))
    BY <2>0 DEF Before, Start
  <2> QED
    BY <1>2, <2>2, <2>3, <2>4 DEF Pass, Moves
<1> QED
  BY <1>1, <1>2

LEMMA RestartMoves ==
  ASSUME TypeOK, NEW n \in Honest, Restarts(n)
  PROVE  Moves(n, Start(at[n].attempt + 1, 1))
<1>0. at[n].attempt \in Nat /\ Len(Stages) \in Nat \ {0}
  BY MembersType, StagesType
<1>1. at[n].attempt \in Nat /\ at[n].attempt + 1 \in Nat /\ 1 \in 1 .. Len(Stages)
  BY <1>0
<1>2. Start(at[n].attempt + 1, 1) \in Place
  BY <1>1, StagesType
<1>3. Before(at[n], Start(at[n].attempt + 1, 1))
  BY <1>1 DEF Before, Start
<1> QED
  BY <1>2, <1>3 DEF Restarts, Moves

LEMMA ReportMoves ==
  ASSUME TypeOK, NEW n \in Honest, NEW r \in {"complain", "defend", "request", "supply"}, NEW names,
         Reports(n, r, names), Rank(r) > Rank(at[n].round)
  PROVE  /\ Moves(n, [at[n] EXCEPT !.round = r])
         /\ Speaks(n, [at[n] EXCEPT !.round = r], names, {})
         /\ UNCHANGED <<committee, active, blamed, outcome, shares>>
<1> DEFINE q == [at[n] EXCEPT !.round = r]
<1>1. at[n] \in Place
  BY MembersType
<1>2. q \in Place /\ q.round = r /\ q.attempt = at[n].attempt /\ q.stage = at[n].stage
  BY <1>1 DEF Place
<1>3. at' = [at EXCEPT ![n] = q]
  BY DEF Reports, Goes
<1>4. r \notin Dealing /\ r \notin Opening
  BY DEF Dealing, Opening, Signing
<1>5. Speaks(n, q, names, {})
  BY <1>2, <1>3, <1>4 DEF Reports, Speaks, Word
<1>6. Before(at[n], q)
  BY <1>2 DEF Before
<1> QED
  BY <1>2, <1>5, <1>6 DEF Reports, Moves

-----------------------------------------------------------------------------
(* Messages *)

MessagesInv ==
  /\ HeardOnce /\ DealtOnce /\ HonestSays /\ HonestDeals /\ Present
  /\ at \in [Honest -> Place]
  /\ \A m \in said :
       /\ m.at \in Place /\ m.from \in Node
       /\ m.from \in Faulty => <<m.what, m.names>> \in Said(m.at.round)
  /\ \A m \in shares : m.share \in {"good", "bad", "malformed"} /\ m.at.round \in Dealing

LEMMA MessagesHold ==
  ASSUME IInv
  PROVE  MessagesInv
BY DEF IInv, MessagesInv, TypeOK

LEMMA MoveKeepsMessages ==
  ASSUME IInv, NEW n \in Honest, NEW q, Moves(n, q), UNCHANGED plan
  PROVE  MessagesInv'
<1>1. PICK names, ids : Speaks(n, q, names, ids)
  BY DEF Moves
<1> DEFINE m == Message(q, n, Word(q.round), names)
           dealt == IF q.round \in Dealing
             THEN {[at |-> q, from |-> n, to |-> i, share |-> "good"] : i \in ids} ELSE {}
<1>2. at' = [at EXCEPT ![n] = q] /\ said' = said \cup {m} /\ shares' = shares \cup dealt
  BY <1>1 DEF Speaks
<1>3. m.at = q /\ m.from = n /\ m.what = Word(q.round)
  BY DEF Message
<1>4. \A x \in dealt : x.at = q /\ x.from = n /\ x.share = "good" /\ q.round \in Dealing
  OBVIOUS
<1>5. \A x, y \in dealt : x.to = y.to => x = y
  OBVIOUS
<1> HIDE DEF m, dealt
<1>6. q \in Place /\ Before(at[n], q) /\ at \in [Honest -> Place] /\ at[n] \in Place
  BY MembersType DEF IInv, Moves, TypeOK
<1>7. at' \in [Honest -> Place] /\ at'[n] = q /\ \A o \in Honest : o # n => at'[o] = at[o]
  BY <1>2, <1>6
<1>8. \A x \in Place : UpTo(x, at[n]) => Before(x, q) /\ x # q
  BY <1>6, BeforeIsOrder
<1>9. \A x \in said : x.at \in Place /\ x.from \in Node
  BY DEF IInv, TypeOK
<1>10. \A x \in said : x.from \in Honest =>
         UpTo(x.at, at[x.from]) /\ x.what = Word(x.at.round)
  BY DEF IInv, HonestSays
<1>11. \A x \in shares : x.at \in Place
                         /\ (x.from \in Honest => x.share = "good" /\ UpTo(x.at, at[x.from]))
  BY DEF IInv, HonestDeals
<1>12. HeardOnce'
  <2>1. \A x \in said : x.from = n => x.at # q
    BY <1>8, <1>9, <1>10
  <2>2. \A x, y \in said : x.at = y.at /\ x.from = y.from => x = y
    BY DEF IInv, HeardOnce
  <2> QED
    BY <1>2, <1>3, <2>1, <2>2 DEF HeardOnce
<1>13. DealtOnce'
  <2>1. \A x \in shares : x.from = n => x.at # q
    BY <1>8, <1>11
  <2>2. \A x, y \in shares : x.at = y.at /\ x.from = y.from /\ x.to = y.to => x = y
    BY DEF IInv, DealtOnce
  <2> QED
    BY <1>2, <1>4, <1>5, <2>1, <2>2 DEF DealtOnce
<1>14. HonestSays'
  <2>1. ASSUME NEW x \in said', x.from \in Honest
        PROVE  UpTo(x.at, at'[x.from]) /\ x.what = Word(x.at.round)
    <3>1. CASE x = m
      BY <3>1, <1>3, <1>7 DEF UpTo
    <3>2. CASE x \in said /\ x.from = n
      BY <3>2, <1>7, <1>8, <1>9, <1>10 DEF UpTo
    <3>3. CASE x \in said /\ x.from # n
      BY <2>1, <3>3, <1>7, <1>10
    <3> QED
      BY <1>2, <3>1, <3>2, <3>3
  <2> QED
    BY <2>1 DEF HonestSays
<1>15. Place' = Place
  BY DEF Place, Stages
<1>16. HonestDeals'
  <2>1. ASSUME NEW x \in shares'
        PROVE  x.at \in Place /\ (x.from \in Honest => x.share = "good" /\ UpTo(x.at, at'[x.from]))
    <3>1. CASE x \in dealt
      BY <3>1, <1>4, <1>6, <1>7 DEF UpTo
    <3>2. CASE x \in shares /\ x.from = n
      BY <3>2, <1>7, <1>8, <1>11 DEF UpTo
    <3>3. CASE x \in shares /\ x.from # n
      BY <3>3, <1>7, <1>11
    <3> QED
      BY <1>2, <3>1, <3>2, <3>3
  <2> QED
    BY <1>15, <2>1 DEF HonestDeals
<1>17. Present'
  <2>1. \A o \in Honest : \E x \in said : x.at = at[o] /\ x.from = o
    BY DEF IInv, Present, Spoke
  <2> QED
    BY <1>2, <1>3, <1>7, <2>1 DEF Present, Spoke
<1>18. \A x \in said' :
         /\ x.at \in Place /\ x.from \in Node
         /\ x.from \in Faulty => <<x.what, x.names>> \in Said(x.at.round)
  BY <1>2, <1>3, <1>6, MembersType DEF IInv, TypeOK
<1>19. \A x \in shares' : x.share \in {"good", "bad", "malformed"} /\ x.at.round \in Dealing
  BY <1>2, <1>4 DEF IInv, TypeOK
<1> QED
  BY <1>7, <1>12, <1>13, <1>14, <1>15, <1>16, <1>17, <1>18, <1>19 DEF MessagesInv, Said

LEMMA StandKeepsMessages ==
  ASSUME IInv, Stands, UNCHANGED plan
  PROVE  MessagesInv'
<1>1. UNCHANGED <<at, said, shares, plan>>
  BY DEF Stands
<1>2. Place' = Place
  BY DEF Place, Stages
<1> QED
  BY <1>1, <1>2, MessagesHold
     DEF MessagesInv, HeardOnce, DealtOnce, HonestSays, HonestDeals, Present, Spoke

LEMMA FaultyKeepsMessages ==
  ASSUME IInv, NEW f \in Faulty, NEW p \in Place, NEW n \in Honest, at[n] = p,
         Say(f, p) \/ Give(f, p, n), UNCHANGED plan
  PROVE  MessagesInv' /\ UNCHANGED <<at, committee, active, blamed, outcome>>
<1>1. f \in Node /\ f \notin Honest
  BY NodeAssumption DEF Honest
<1>2. Place' = Place
  BY DEF Place, Stages
<1>3. CASE Say(f, p)
  <2>1. PICK s \in Said(p.round) : said' = said \cup {Message(p, f, s[1], s[2])}
    BY <1>3 DEF Say
  <2> DEFINE m == Message(p, f, s[1], s[2])
  <2>2. m.at = p /\ m.from = f /\ m.what = s[1] /\ m.names = s[2]
    BY DEF Message
  <2>3. s = <<s[1], s[2]>>
    BY DEF Said
  <2>4. \A x \in said : ~(x.at = p /\ x.from = f)
    BY <1>3 DEF Say, Heard
  <2>5. UNCHANGED <<at, committee, active, blamed, outcome, shares>>
    BY <1>3 DEF Say
  <2> HIDE DEF m
  <2>6. HeardOnce'
    BY <2>1, <2>2, <2>4 DEF m, IInv, HeardOnce
  <2>7. HonestSays'
    BY <1>1, <2>1, <2>2, <2>5 DEF m, IInv, HonestSays
  <2>8. DealtOnce' /\ HonestDeals'
    BY <1>2, <2>5 DEF IInv, DealtOnce, HonestDeals
  <2>9. Present'
    BY <2>1, <2>5 DEF IInv, Present, Spoke
  <2>10. \A x \in said' :
           /\ x.at \in Place /\ x.from \in Node
           /\ x.from \in Faulty => <<x.what, x.names>> \in Said(x.at.round)
    BY <1>1, <2>1, <2>2, <2>3 DEF m, IInv, TypeOK
  <2>11. at' \in [Honest -> Place]
         /\ \A x \in shares' : x.share \in {"good", "bad", "malformed"} /\ x.at.round \in Dealing
    BY <2>5 DEF IInv, TypeOK
  <2> QED
    BY <1>2, <2>5, <2>6, <2>7, <2>8, <2>9, <2>10, <2>11 DEF MessagesInv
<1>4. CASE Give(f, p, n)
  <2>1. PICK s \in {"good", "bad", "malformed"} :
        shares' = shares \cup {[at |-> p, from |-> f, to |-> n, share |-> s]}
    BY <1>4 DEF Give
  <2> DEFINE m == [at |-> p, from |-> f, to |-> n, share |-> s]
  <2>2. m.at = p /\ m.from = f /\ m.to = n /\ m.share = s
    OBVIOUS
  <2>3. \A x \in shares : ~(x.at = p /\ x.from = f /\ x.to = n)
    BY <1>4 DEF Give, Dealt
  <2>4. UNCHANGED <<at, committee, active, blamed, outcome, said>> /\ p.round \in Dealing
    BY <1>4 DEF Give
  <2> HIDE DEF m
  <2>5. DealtOnce'
    BY <2>1, <2>2, <2>3 DEF m, IInv, DealtOnce
  <2>6. HonestDeals'
    BY <1>1, <1>2, <2>1, <2>2, <2>4 DEF m, IInv, HonestDeals
  <2>7. HeardOnce' /\ HonestSays' /\ Present'
    BY <2>4 DEF IInv, HeardOnce, HonestSays, Present, Spoke
  <2>8. \A x \in said' :
           /\ x.at \in Place /\ x.from \in Node
           /\ x.from \in Faulty => <<x.what, x.names>> \in Said(x.at.round)
    BY <2>4 DEF IInv, TypeOK
  <2>9. at' \in [Honest -> Place]
    BY <2>4 DEF IInv, TypeOK
  <2>10. \A x \in shares' : x.share \in {"good", "bad", "malformed"} /\ x.at.round \in Dealing
    BY <2>1, <2>2, <2>4 DEF m, IInv, TypeOK
  <2> QED
    BY <1>2, <2>4, <2>5, <2>6, <2>7, <2>8, <2>9, <2>10 DEF MessagesInv
<1> QED
  BY <1>3, <1>4

(* What was heard stays as it was heard.                                   *)
LEMMA Rigid ==
  ASSUME said \subseteq said', HeardOnce', NEW p, NEW ids, Heard(p, ids)
  PROVE  /\ Heard(p, ids)'
         /\ \A i \in ids : What(p, i)' = What(p, i) /\ Names(p, i)' = Names(p, i)
         /\ Reconstructed(p, ids)' = Reconstructed(p, ids)
<1>1. \A i \in ids : From(p, i)' = From(p, i)
  <2> SUFFICES ASSUME NEW i \in ids PROVE From(p, i)' = From(p, i)
    OBVIOUS
  <2>1. From(p, i) \in said /\ From(p, i).at = p /\ From(p, i).from = i
    BY FromIs, HeardIs
  <2>2. \A x \in said' : x.at = p /\ x.from = i => x = From(p, i)
    BY <2>1 DEF HeardOnce
  <2>3. From(p, i)' = CHOOSE m \in said' : m.at = p /\ m.from = i
    BY DEF From
  <2> QED
    BY <2>1, <2>2, <2>3
<1>2. Heard(p, ids)'
  BY DEF Heard
<1> QED
  BY <1>1, <1>2 DEF What, Names, Reconstructed

LEMMA SaidGrows ==
  ASSUME Next
  PROVE  said \subseteq said' /\ shares \subseteq shares'
<1>1. ASSUME NEW n, NEW r, NEW names, Reports(n, r, names)
      PROVE  said \subseteq said' /\ shares \subseteq shares'
  BY <1>1 DEF Reports
<1>2. ASSUME NEW n, NEW how, Ends(n, how)
      PROVE  said \subseteq said' /\ shares \subseteq shares'
  BY <1>2 DEF Ends
<1>3. ASSUME NEW n, NEW k, NEW s, NEW ids, Enter(n, k, s, ids)
      PROVE  said \subseteq said' /\ shares \subseteq shares'
  BY <1>3 DEF Enter
<1>4. ASSUME NEW n, NEW B, Abort(n, B)
      PROVE  said \subseteq said' /\ shares \subseteq shares'
  BY <1>2, <1>3, <1>4 DEF Abort
<1>5. ASSUME NEW n, NEW R, Pass(n, R)
      PROVE  said \subseteq said' /\ shares \subseteq shares'
  BY <1>2, <1>3, <1>5 DEF Pass
<1>6. ASSUME NEW n, Step(n) \/ Timeout(n)
      PROVE  said \subseteq said' /\ shares \subseteq shares'
  <2>1. CASE Check(n) \/ Defend(n) \/ Adjudicate(n)
    BY <2>1, <1>1, <1>2, <1>4, <1>5 DEF Check, Defend, Adjudicate
  <2>2. CASE Judge(n) \/ Recover(n) \/ Timeout(n)
    BY <2>2, <1>1, <1>2, <1>4, <1>5 DEF Judge, Recover, Timeout
  <2>3. CASE Open(n) \/ OpenAll(n)
    BY <2>3, <1>2, <1>4, <1>5 DEF Open, OpenAll
  <2>4. CASE Combine(n) \/ CombineAll(n)
    BY <2>4, <1>2, <1>4, <1>5 DEF Combine, CombineAll
  <2> QED
    BY <1>6, <2>1, <2>2, <2>3, <2>4 DEF Step
<1>7. ASSUME NEW f, NEW n, Say(f, at[n]) \/ Give(f, at[n], n)
      PROVE  said \subseteq said' /\ shares \subseteq shares'
  BY <1>7 DEF Say, Give
<1> QED
  BY <1>6, <1>7 DEF Next
-----------------------------------------------------------------------------
(* Members *)

MembersInv ==
  /\ committee \in [Honest -> SUBSET Node] /\ active \in [Honest -> SUBSET Node]
  /\ blamed \in [Honest -> SUBSET Node]
  /\ \A n \in Honest :
       /\ active[n] \subseteq committee[n] /\ n \in active[n]
       /\ at[n].attempt <= Cardinality(Node) - Cardinality(committee[n])
  /\ outcome \in [Honest -> {"running", "output", "expelled", "refused", "aborted", "failed", "panicked"}]
  /\ EnoughMembers

LEMMA Smaller ==
  ASSUME NEW C \in SUBSET Node, NEW S \in SUBSET C, S # C
  PROVE  /\ Cardinality(C) \in Nat /\ Cardinality(S) \in Nat
         /\ Cardinality(S) + 1 <= Cardinality(C)
<1>1. IsFiniteSet(C) /\ IsFiniteSet(S)
  BY NodeAssumption, FS_Subset
<1>2. Cardinality(S) <= Cardinality(C) /\ (Cardinality(S) = Cardinality(C) => S = C)
  BY <1>1, FS_Subset
<1>3. Cardinality(C) \in Nat /\ Cardinality(S) \in Nat
  BY <1>1, FS_CardinalityType
<1> QED
  BY <1>2, <1>3

LEMMA StepKeepsMembers ==
  ASSUME IInv, NEW n \in Honest, Step(n) \/ Timeout(n), UNCHANGED plan
  PROVE  MembersInv' /\ MessagesInv'
<1>1. /\ committee \in [Honest -> SUBSET Node] /\ active \in [Honest -> SUBSET Node]
      /\ blamed \in [Honest -> SUBSET Node] /\ at \in [Honest -> Place]
      /\ outcome \in [Honest -> {"running", "output", "expelled", "refused", "aborted", "failed", "panicked"}]
  BY DEF IInv, TypeOK
<1>2. \A o \in Honest :
       /\ active[o] \subseteq committee[o] /\ o \in active[o]
       /\ at[o].attempt <= Cardinality(Node) - Cardinality(committee[o])
       /\ Cardinality(committee[o]) >= 2 * T - 1
  BY DEF IInv, TypeOK, EnoughMembers
<1>3. CASE Stops(n)
  <2>1. PICK how \in {"panicked", "failed"} : Ends(n, how) /\ UNCHANGED <<committee, active, blamed>>
    BY <1>3 DEF Stops
  <2>2. Stands /\ outcome' = [outcome EXCEPT ![n] = how] /\ UNCHANGED <<active, blamed, committee, at>>
    BY <2>1 DEF Ends, Stands
  <2>3. MembersInv'
    BY <1>1, <1>2, <2>2 DEF MembersInv, EnoughMembers
  <2> QED
    BY <2>2, <2>3, StandKeepsMessages
<1>4. CASE Continues(n)
  <2>1. PICK r \in {"complain", "defend", "request", "supply"} : \E names :
          Reports(n, r, names) /\ Rank(r) > Rank(at[n].round)
    BY <1>4 DEF Continues
  <2>2. PICK names : Reports(n, r, names) /\ Rank(r) > Rank(at[n].round)
    BY <2>1
  <2>3. Moves(n, [at[n] EXCEPT !.round = r]) /\ UNCHANGED <<committee, active, blamed, outcome>>
    BY <2>2, ReportMoves DEF IInv
  <2>4. MessagesInv'
    BY <2>3, MoveKeepsMessages
  <2>5. \A o \in Honest : at'[o].attempt = at[o].attempt
    BY <1>1, <2>2 DEF Reports, Goes, Place
  <2> QED
    BY <1>1, <1>2, <2>3, <2>4, <2>5 DEF MembersInv, EnoughMembers
<1>5. CASE Passes(n)
  <2>1. PICK R \in SUBSET active[n] : n \in R /\ Pass(n, R)
    BY <1>5 DEF Passes
  <2>2. active' = [active EXCEPT ![n] = R] /\ UNCHANGED committee
    BY <2>1, PassEffect DEF IInv
  <2>3. CASE /\ Stands
             /\ outcome' = [outcome EXCEPT ![n] = "output"]
             /\ blamed' = [blamed EXCEPT ![n] = @ \cup (committee[n] \ R)]
    <3>1. MessagesInv'
      BY <2>3, StandKeepsMessages
    <3>2. UNCHANGED at
      BY <2>3 DEF Stands
    <3> QED
      BY <1>1, <1>2, <2>1, <2>2, <2>3, <3>1, <3>2 DEF MembersInv, EnoughMembers
  <2>4. CASE /\ UNCHANGED <<outcome, blamed>>
             /\ Speaks(n, Start(at[n].attempt, at[n].stage + 1), {}, committee[n])
             /\ Moves(n, Start(at[n].attempt, at[n].stage + 1))
    <3>1. MessagesInv'
      BY <2>4, MoveKeepsMessages
    <3>2. at' = [at EXCEPT ![n] = Start(at[n].attempt, at[n].stage + 1)]
      BY <2>4 DEF Speaks
    <3>3. \A o \in Honest : at'[o].attempt = at[o].attempt
      BY <1>1, <3>2 DEF Start
    <3> QED
      BY <1>1, <1>2, <2>1, <2>2, <2>4, <3>1, <3>3 DEF MembersInv, EnoughMembers
  <2> QED
    BY <2>1, <2>3, <2>4, PassEffect DEF IInv
<1>6. CASE Aborts(n)
  <2>1. PICK B \in SUBSET committee[n] : B # {} /\ Abort(n, B)
    BY <1>6 DEF Aborts
  <2>2. blamed' = [blamed EXCEPT ![n] = @ \cup B] /\ blamed' \in [Honest -> SUBSET Node]
    BY <1>1, <2>1, AbortEffect DEF IInv
  <2>3. CASE /\ Stands /\ UNCHANGED active
             /\ \E how \in {"aborted", "refused", "expelled"} : outcome' = [outcome EXCEPT ![n] = how]
    <3>1. MessagesInv'
      BY <2>3, StandKeepsMessages
    <3>2. UNCHANGED <<at, committee, active>>
      BY <2>3 DEF Stands
    <3>3. outcome' \in [Honest -> {"running", "output", "expelled", "refused", "aborted", "failed", "panicked"}]
      BY <1>1, <2>3
    <3> QED
      BY <1>1, <1>2, <2>2, <3>1, <3>2, <3>3 DEF MembersInv, EnoughMembers
  <2>4. CASE Restarts(n)
    <3>1. MessagesInv'
      BY <2>4, RestartMoves, MoveKeepsMessages DEF IInv
    <3>2. PICK S \in SUBSET committee[n] :
            /\ S # committee[n] /\ MayRestart(S) /\ n \in S
            /\ committee' = [committee EXCEPT ![n] = S] /\ active' = [active EXCEPT ![n] = S]
            /\ Speaks(n, Start(at[n].attempt + 1, 1), {}, S)
            /\ UNCHANGED outcome
      BY <2>4 DEF Restarts
    <3>3. at' = [at EXCEPT ![n] = Start(at[n].attempt + 1, 1)]
      BY <3>2 DEF Speaks
    <3>4. at'[n].attempt = at[n].attempt + 1 /\ \A o \in Honest : o # n => at'[o] = at[o]
      BY <1>1, <3>3 DEF Start
    <3>5. /\ Cardinality(committee[n]) \in Nat /\ Cardinality(S) \in Nat
          /\ Cardinality(S) + 1 <= Cardinality(committee[n])
      BY <1>1, <3>2, Smaller
    <3>6. Cardinality(Node) \in Nat /\ at[n].attempt \in Nat
      BY NodeAssumption, FS_CardinalityType, MembersType DEF IInv
    <3>7. at'[n].attempt <= Cardinality(Node) - Cardinality(S)
      BY <1>2, <3>4, <3>5, <3>6
    <3>8. committee'[n] = S /\ active'[n] = S
          /\ \A o \in Honest : o # n => committee'[o] = committee[o] /\ active'[o] = active[o]
      BY <1>1, <3>2
    <3>9. EnoughMembers'
      BY <1>2, <3>2, <3>8 DEF EnoughMembers, MayRestart
    <3>10. committee' \in [Honest -> SUBSET Node] /\ active' \in [Honest -> SUBSET Node]
      BY <1>1, <3>2
    <3>11. \A o \in Honest :
             /\ active'[o] \subseteq committee'[o] /\ o \in active'[o]
             /\ at'[o].attempt <= Cardinality(Node) - Cardinality(committee'[o])
      BY <1>2, <3>2, <3>4, <3>7, <3>8
    <3> QED
      BY <1>1, <2>2, <3>1, <3>2, <3>9, <3>10, <3>11 DEF MembersInv
  <2> QED
    BY <2>1, <2>3, <2>4, AbortEffect DEF IInv
<1> QED
  BY <1>3, <1>4, <1>5, <1>6, StepCases

-----------------------------------------------------------------------------
LEMMA TypesFrom ==
  ASSUME plan \in Plans, MessagesInv, MembersInv
  PROVE  TypeOK
BY DEF MessagesInv, MembersInv, TypeOK

(* Whose shares are to be mended, for a member in place q.                 *)
Mends(q, ids) ==
  LET p == [q EXCEPT !.round = "request"] IN
  Heard(p, ids) /\ Reconstructed(p, ids) \subseteq ids \cap Faulty

LEMMA SupplyCleanFrom ==
  ASSUME \A o \in Honest : at'[o].round = "supply" =>
           \E q, ids : q = at'[o] /\ ids = committee'[o] /\ Mends(q, ids)'
  PROVE  SupplyClean'
<1> SUFFICES ASSUME NEW o \in Honest, at'[o].round = "supply"
             PROVE  (LET p == [at[o] EXCEPT !.round = "request"] IN
                     Heard(p, committee[o])
                     /\ Reconstructed(p, committee[o]) \subseteq committee[o] \cap Faulty)'
  BY DEF SupplyClean
<1>1. PICK q, ids : q = at'[o] /\ ids = committee'[o] /\ Mends(q, ids)'
  OBVIOUS
<1> QED
  BY <1>1 DEF Mends, Heard, Reconstructed, Names, From

LEMMA OthersSupplyClean ==
  ASSUME SupplyClean, said \subseteq said', HeardOnce',
         NEW o \in Honest, at'[o] = at[o], committee'[o] = committee[o], at[o].round = "supply"
  PROVE  \E q, ids : q = at'[o] /\ ids = committee'[o] /\ Mends(q, ids)'
<1>1. PICK q : q = at[o]
  OBVIOUS
<1>2. PICK ids : ids = committee[o]
  OBVIOUS
<1> DEFINE p == [q EXCEPT !.round = "request"]
<1>3. Heard(p, ids) /\ Reconstructed(p, ids) \subseteq ids \cap Faulty
  BY <1>1, <1>2 DEF SupplyClean
<1>4. Heard(p, ids)' /\ Reconstructed(p, ids)' \subseteq ids \cap Faulty
  BY <1>3, Rigid
<1>5. Mends(q, ids)'
  BY <1>4 DEF Mends
<1> QED
  BY <1>1, <1>2, <1>5

LEMMA StepKeepsSupply ==
  ASSUME IInv, NEW n \in Honest, Step(n) \/ Timeout(n), UNCHANGED plan,
         HeardOnce', said \subseteq said'
  PROVE  SupplyClean'
<1> SUFFICES ASSUME NEW o \in Honest, at'[o].round = "supply"
             PROVE  \E q, ids : q = at'[o] /\ ids = committee'[o] /\ Mends(q, ids)'
  BY SupplyCleanFrom
<1>1. CASE at'[o] = at[o] /\ committee'[o] = committee[o]
  BY <1>1, OthersSupplyClean DEF IInv
<1>2. CASE ~(at'[o] = at[o] /\ committee'[o] = committee[o])
  <2>0. /\ at \in [Honest -> Place] /\ committee \in [Honest -> SUBSET Node]
        /\ \A k \in Nat, s \in 1 .. Len(Stages) : Rank(Start(k, s).round) = 0
    BY StagesType DEF IInv, TypeOK
  <2>1. PICK r \in {"complain", "defend", "request", "supply"} : \E names :
          /\ Reports(n, r, names) /\ Rank(r) > Rank(at[n].round)
          /\ r = "supply" => at[n].round = "request" /\ Heard(at[n], committee[n])
                             /\ Reconstructed(at[n], committee[n]) \subseteq committee[n] \cap Faulty
    <3>1. CASE Stops(n)
      BY <1>2, <3>1 DEF Stops, Ends
    <3>2. CASE Passes(n)
      <4>1. PICK R \in SUBSET active[n] : n \in R /\ Pass(n, R)
        BY <3>2 DEF Passes
      <4>2. UNCHANGED committee
            /\ (Stands \/ (at[n].stage # Len(Stages)
                           /\ Speaks(n, Start(at[n].attempt, at[n].stage + 1), {}, committee[n])))
        BY <4>1, PassEffect DEF IInv
      <4>3. /\ at[n].stage # Len(Stages) /\ UNCHANGED committee
            /\ at' = [at EXCEPT ![n] = Start(at[n].attempt, at[n].stage + 1)]
        BY <1>2, <4>2 DEF Stands, Speaks
      <4>4. at[n].stage \in 1 .. Len(Stages) /\ Len(Stages) \in Nat /\ at[n].attempt \in Nat
        BY MembersType, StagesType DEF IInv
      <4>5. Rank(Start(at[n].attempt, at[n].stage + 1).round) = 0
        BY <2>0, <4>3, <4>4
      <4>6. o = n /\ at'[o] = Start(at[n].attempt, at[n].stage + 1)
        BY <1>2, <2>0, <4>3
      <4> QED
        BY <4>5, <4>6 DEF Rank
    <3>3. CASE Aborts(n)
      <4>1. PICK B \in SUBSET committee[n] : B # {} /\ Abort(n, B)
        BY <3>3 DEF Aborts
      <4>2. Stands \/ Restarts(n)
        BY <4>1, AbortEffect DEF IInv
      <4>3. PICK S \in SUBSET committee[n] :
              /\ committee' = [committee EXCEPT ![n] = S]
              /\ Speaks(n, Start(at[n].attempt + 1, 1), {}, S)
        BY <1>2, <4>2 DEF Stands, Restarts
      <4>4. at' = [at EXCEPT ![n] = Start(at[n].attempt + 1, 1)]
        BY <4>3 DEF Speaks
      <4>5. o = n /\ at'[o] = Start(at[n].attempt + 1, 1)
        BY <1>2, <2>0, <4>3, <4>4
      <4>6. at[n].attempt \in Nat /\ Len(Stages) \in Nat \ {0}
        BY MembersType, StagesType DEF IInv
      <4>7. at[n].attempt + 1 \in Nat /\ 1 \in 1 .. Len(Stages)
        BY <4>6
      <4>8. Rank(Start(at[n].attempt + 1, 1).round) = 0
        BY <2>0, <4>7
      <4> QED
        BY <4>5, <4>8 DEF Rank
    <3>4. CASE Continues(n)
      BY <3>4 DEF Continues
    <3> QED
      BY <3>1, <3>2, <3>3, <3>4, StepCases
  <2>2. PICK names :
          /\ Reports(n, r, names) /\ Rank(r) > Rank(at[n].round)
          /\ r = "supply" => at[n].round = "request" /\ Heard(at[n], committee[n])
                             /\ Reconstructed(at[n], committee[n]) \subseteq committee[n] \cap Faulty
    BY <2>1
  <2>3. at' = [at EXCEPT ![n] = [at[n] EXCEPT !.round = r]] /\ UNCHANGED committee
    BY <2>2 DEF Reports, Goes
  <2>4. o = n /\ at'[n] = [at[n] EXCEPT !.round = r] /\ at[n] \in Place
    BY <1>2, <2>0, <2>3
  <2>5. at'[n].round = r
    BY <2>4 DEF Place
  <2>6. r = "supply"
    BY <2>4, <2>5
  <2>7. PICK q : q = at'[n]
    OBVIOUS
  <2>8. PICK p : p = at[n]
    OBVIOUS
  <2>9. PICK ids : ids = committee[n]
    OBVIOUS
  <2>10. [q EXCEPT !.round = "request"] = p
    BY <2>2, <2>4, <2>6, <2>7, <2>8 DEF Place
  <2>11. Heard(p, ids)' /\ Reconstructed(p, ids)' \subseteq ids \cap Faulty
    BY <2>2, <2>6, <2>8, <2>9, Rigid
  <2>12. Mends(q, ids)'
    BY <2>10, <2>11 DEF Mends
  <2> QED
    BY <2>3, <2>4, <2>7, <2>9, <2>12
<1> QED
  BY <1>1, <1>2

LEMMA NextInv ==
  ASSUME IInv, [Next]_vars
  PROVE  IInv'
<1>1. CASE UNCHANGED vars
  <2>1. UNCHANGED <<plan, at, committee, active, blamed, outcome, said, shares>>
    BY <1>1 DEF vars
  <2>2. MessagesInv'
    BY <2>1, StandKeepsMessages DEF Stands
  <2>3. TypeOK'
    BY <2>1 DEF IInv, TypeOK, Place, Stages, Said
  <2>4. EnoughMembers' /\ SupplyClean'
    BY <2>1 DEF IInv, EnoughMembers, SupplyClean, Heard, Reconstructed, Names, From
  <2> QED
    BY <2>2, <2>3, <2>4 DEF IInv, MessagesInv
<1>2. ASSUME NEW n \in Honest, Step(n) \/ Timeout(n), Next
      PROVE  IInv'
  <2>1. UNCHANGED plan /\ said \subseteq said'
    BY <1>2, SaidGrows DEF Next
  <2>2. MembersInv' /\ MessagesInv'
    BY <1>2, <2>1, StepKeepsMembers
  <2>3. SupplyClean'
    BY <1>2, <2>1, <2>2, StepKeepsSupply DEF MessagesInv
  <2>4. plan' \in Plans
    BY <2>1 DEF IInv, TypeOK
  <2>5. TypeOK'
    BY <2>2, <2>4 DEF MessagesInv, MembersInv, TypeOK
  <2> QED
    BY <2>2, <2>3, <2>5 DEF IInv, MessagesInv, MembersInv
<1>3. ASSUME NEW f \in Faulty, NEW n \in Honest, Say(f, at[n]) \/ Give(f, at[n], n), Next
      PROVE  IInv'
  <2>1. UNCHANGED plan /\ said \subseteq said'
    BY <1>3, SaidGrows DEF Next
  <2>2. PICK p \in Place : p = at[n]
    BY MembersType DEF IInv
  <2>3. MessagesInv' /\ UNCHANGED <<at, committee, active, blamed, outcome>>
    BY <1>3, <2>1, <2>2, FaultyKeepsMessages
  <2>4. TypeOK'
    BY <2>1, <2>3 DEF IInv, MessagesInv, TypeOK
  <2>5. EnoughMembers'
    BY <2>3 DEF IInv, EnoughMembers
  <2>6. SupplyClean'
    <3> SUFFICES ASSUME NEW o \in Honest, at'[o].round = "supply"
                 PROVE  \E q, ids : q = at'[o] /\ ids = committee'[o] /\ Mends(q, ids)'
      BY SupplyCleanFrom
    <3> QED
      BY <2>1, <2>3, OthersSupplyClean DEF IInv, MessagesInv
  <2> QED
    BY <2>3, <2>4, <2>5, <2>6 DEF IInv, MessagesInv
<1> QED
  BY <1>1, <1>2, <1>3 DEF Next

LEMMA InitInv == Init => IInv
<1> SUFFICES ASSUME Init PROVE IInv
  OBVIOUS
<1> DEFINE p == Start(0, 1)
<1>1. /\ plan \in Plans
      /\ at = [n \in Honest |-> p]
      /\ committee = [n \in Honest |-> Node] /\ active = [n \in Honest |-> Node]
      /\ blamed = [n \in Honest |-> {}]
      /\ outcome = [n \in Honest |-> "running"]
  BY DEF Init
<1>2. /\ Len(Stages) \in Nat \ {0}
      /\ \A s \in 1 .. Len(Stages) : Stages[s] \in Dealing \cup Opening
  <2>1. Stages \in Seq({"deal", "redeal", "open", "openall", "sign", "signall"}) /\ Stages # <<>>
    BY <1>1, PlansAssumption DEF Stages
  <2>2. Len(Stages) \in Nat \ {0}
    BY <2>1
  <2> QED
    BY <2>1, <2>2 DEF Dealing, Opening, Signing
<1>3. p.round \in Dealing \cup Opening /\ p \in Place
  <2>1. 1 \in 1 .. Len(Stages) /\ 0 \in Nat
    BY <1>2
  <2>2. Stages[1] \in Dealing \cup Opening
    BY <1>2, <2>1
  <2> QED
    BY <2>1, <2>2 DEF Start, Place
<1>4. \A m \in said : m.at = p /\ m.from \in Honest /\ m.what = Word(p.round)
  <2>1. said = {Message(p, n, IF p.round \in Dealing THEN "fine" ELSE "good", {}) : n \in Honest}
    BY DEF Init
  <2> HIDE DEF p
  <2> QED
    BY <1>3, <2>1 DEF Message, Word
<1>5. \A n \in Honest : \E m \in said : m.at = p /\ m.from = n
  <2> DEFINE w == IF p.round \in Dealing THEN "fine" ELSE "good"
  <2>1. said = {Message(p, n, w, {}) : n \in Honest}
    BY DEF Init
  <2> HIDE DEF p, w
  <2>2. \A n \in Honest : Message(p, n, w, {}).at = p /\ Message(p, n, w, {}).from = n
    BY DEF Message
  <2>3. \A n \in Honest : Message(p, n, w, {}) \in said
    BY <2>1
  <2> QED
    BY <2>2, <2>3
<1>6. \A x, y \in said : x.from = y.from => x = y
  <2> DEFINE w == IF p.round \in Dealing THEN "fine" ELSE "good"
  <2>1. said = {Message(p, n, w, {}) : n \in Honest}
    BY DEF Init
  <2> HIDE DEF p, w
  <2>2. \A n \in Honest : Message(p, n, w, {}).from = n
    BY DEF Message
  <2>3. \A x \in said : \E n \in Honest : x = Message(p, n, w, {})
    BY <2>1
  <2> QED
    BY <2>2, <2>3
<1>7. /\ \A m \in shares : m.at = p /\ m.from \in Honest /\ m.share = "good" /\ p.round \in Dealing
      /\ \A x, y \in shares : x.from = y.from /\ x.to = y.to => x = y
  <2>1. shares = IF p.round \in Dealing
         THEN {[at |-> p, from |-> n, to |-> i, share |-> "good"] : n \in Honest, i \in Node}
         ELSE {}
    BY DEF Init
  <2> HIDE DEF p
  <2> QED
    BY <2>1
<1> HIDE DEF p
<1>8. HeardOnce /\ DealtOnce /\ Present
  BY <1>1, <1>4, <1>5, <1>6, <1>7 DEF HeardOnce, DealtOnce, Present, Spoke
<1>9. HonestSays /\ HonestDeals
  BY <1>1, <1>3, <1>4, <1>7 DEF HonestSays, HonestDeals, UpTo
<1>10. EnoughMembers
  BY <1>1, ThresholdAssumption DEF EnoughMembers
<1>11. SupplyClean
  BY <1>1, <1>3 DEF SupplyClean, Dealing, Opening, Signing
<1>12. p.attempt = 0
  BY DEF p, Start
<1>13. Cardinality(Node) \in Nat
  BY NodeAssumption, FS_CardinalityType
<1>14. TypeOK
  <2>1. \A n \in Honest : n \in Node /\ n \notin Faulty
    BY DEF Honest
  <2>2. \A n \in Honest :
          /\ active[n] \subseteq committee[n] /\ n \in active[n]
          /\ at[n].attempt <= Cardinality(Node) - Cardinality(committee[n])
    BY <1>1, <1>12, <1>13, <2>1
  <2> QED
    BY <1>1, <1>3, <1>4, <1>7, <2>1, <2>2 DEF TypeOK
<1> QED
  BY <1>8, <1>9, <1>10, <1>11, <1>14 DEF IInv

LEMMA Invariance == Spec => []IInv
<1>1. Init => IInv
  BY InitInv
<1>2. IInv /\ [Next]_vars => IInv'
  BY NextInv
<1> QED
  BY <1>1, <1>2, PTL DEF Spec

(* Types: an honest member is always among those it waits for, and every    *)
(* restart of keygen_with_restart or presign_with_restart_over takes at    *)
(* least one member, so there are fewer attempts than members.             *)
THEOREM TypeCorrect == Spec => []TypeOK
<1>1. IInv => TypeOK
  BY DEF IInv
<1> QED
  BY <1>1, Invariance, PTL

(* Whoever is expelled, the committee of an attempt holds T honest members:*)
(* policy::restart_committee leaves 2T-1 members, of whom at most T-1 are  *)
(* faulty.                                                                 *)
THEOREM EnoughHonest == Spec => []HonestEnough
<1>1. ASSUME IInv, NEW n \in Honest
      PROVE  Cardinality(committee[n] \ Faulty) >= T
  <2> DEFINE C == committee[n]
             F == C \cap Faulty
  <2>1. C \in SUBSET Node /\ Cardinality(C) >= 2 * T - 1
    BY <1>1, MembersType DEF IInv, EnoughMembers
  <2>2. IsFiniteSet(C) /\ IsFiniteSet(Faulty)
    BY <2>1, NodeAssumption, FS_Subset
  <2>3. Cardinality(F) <= Cardinality(Faulty) /\ IsFiniteSet(F)
    BY <2>2, FS_Subset
  <2>4. C \ Faulty = C \ F
    OBVIOUS
  <2>5. Cardinality(C \ F) = Cardinality(C) - Cardinality(C \cap F)
    BY <2>2, <2>3, FS_Difference
  <2>6. C \cap F = F
    OBVIOUS
  <2>7. Cardinality(C) \in Nat /\ Cardinality(F) \in Nat /\ Cardinality(Faulty) \in Nat
    BY <2>2, <2>3, FS_CardinalityType
  <2>8. Cardinality(C \ Faulty) = Cardinality(C) - Cardinality(F)
    BY <2>4, <2>5, <2>6
  <2> QED
    BY <2>1, <2>3, <2>7, <2>8, ThresholdAssumption
<1>2. IInv => HonestEnough
  BY <1>1 DEF HonestEnough
<1> QED
  BY <1>2, Invariance, PTL

-----------------------------------------------------------------------------
(***************************************************************************)
(* Honest members agree.                                                   *)
(*                                                                         *)
(* What an attempt does in a place follows from what everybody heard       *)
(* there, but for the malformed share, which one member sees.  Honest      *)
(* members need each other in every round, so two of them in one attempt   *)
(* are in the same place, or one has cleared the place of the other; and   *)
(* one that has left for the next attempt has left the other where it      *)
(* stands, to the same verdict (Together, Left).                           *)
(***************************************************************************)

(* The members of o's attempt k, as o's dealing at its start shows them.   *)
Members(o, k) ==
  IF k = 0 THEN Node ELSE {m.to : m \in {x \in shares : x.from = o /\ x.at = Start(k, 1)}}

(* Where n stands: who has an output is past the last place.               *)
End(k) == [attempt |-> k, stage |-> Len(Stages) + 1, round |-> "end"]
Pos(n) == IF outcome[n] = "output" THEN End(at[n].attempt) ELSE at[n]
After(p) == IF p.stage = Len(Stages) THEN End(p.attempt) ELSE Start(p.attempt, p.stage + 1)

(* An output that includes a signing round, which is not heard by all.     *)
Signed(q) == q.round = "end" /\ Stages[Len(Stages)] \in Signing

Saying(p, S, w) == {i \in S : What(p, i) = w}
(* Everybody who is waited for in place p was heard there, and before.     *)
Ready(p, ids, act) ==
  /\ Heard(p, IF p.round \in Opening THEN act ELSE ids)
  /\ p.round = "defend" => Heard([p EXCEPT !.round = "complain"], ids)
  /\ p.round = "supply" => Heard([p EXCEPT !.round = "request"], ids)

Liars(p, ids) == {v \in ids : FalseRequest(p, v, ids)}
Mended(p, ids) == Reconstructed([p EXCEPT !.round = "request"], ids)
Lost(p, ids) == {d \in Mended(p, ids) : ~ Recoverable(p, d, ids)}

(* What everybody heard in place p blames B.                               *)
Condemns(p, ids, act, B) ==
  \/ /\ p.round \in Dealing \cup {"complain", "supply"}
     /\ Saying(p, ids, "malformed") # {} /\ B = {First(Saying(p, ids, "malformed"))}
  \/ /\ p.round \in Dealing /\ Saying(p, ids, "malformed") = {}
     /\ Saying(p, ids, "wrong") # {} /\ B = {First(Saying(p, ids, "wrong"))}
  \/ /\ p.round = "defend" /\ Accusers(p, ids) # {}
     /\ LET a == First(Accusers(p, ids))
            d == First(Complaints(p, a))
        IN d \in ids /\ B = Blame(p, a, d)
  \/ p.round = "request" /\ Liars(p, ids) # {} /\ B = {First(Liars(p, ids))}
  \/ /\ p.round = "supply" /\ Saying(p, ids, "malformed") = {}
     /\ Lost(p, ids) # {} /\ B = {First(Lost(p, ids))}
  \/ /\ p.round \in {"open", "openall"}
     /\ Saying(p, act, "malformed") # {} /\ B = {First(Saying(p, act, "malformed"))}
  \/ /\ p.round = "openall" /\ Saying(p, act, "malformed") = {}
     /\ Saying(p, act, "bad") # {} /\ B = Saying(p, act, "bad")

(* What one member got in place p blames B.                                *)
Private(p, ids, B) ==
  /\ p.round \in Dealing /\ Saying(p, ids, "malformed") = {}
  /\ \E m \in shares : m.at = p /\ m.share = "malformed" /\ B = {m.from}

Decides(p, ids, act, B) ==
  Ready(p, ids, act) /\ (Condemns(p, ids, act, B) \/ Private(p, ids, B))

(* What everybody heard in place p blames nobody: a member goes on to q,   *)
(* and waits for the openings of rest.                                     *)
Clears(p, ids, act, q, rest) ==
  /\ Ready(p, ids, act)
  /\ \/ /\ p.round \in Dealing /\ rest = act
        /\ Saying(p, ids, "malformed") \cup Saying(p, ids, "wrong") = {}
        /\ q = [p EXCEPT !.round = IF p.round = "deal" THEN "complain" ELSE "request"]
     \/ /\ p.round = "complain" /\ rest = act
        /\ Saying(p, ids, "malformed") = {} /\ q = [p EXCEPT !.round = "defend"]
     \/ p.round = "defend" /\ rest = act /\ Accusers(p, ids) = {} /\ q = After(p)
     \/ /\ p.round = "request" /\ rest = act /\ Liars(p, ids) = {}
        /\ q = IF Reconstructed(p, ids) = {} THEN After(p) ELSE [p EXCEPT !.round = "supply"]
     \/ /\ p.round = "supply" /\ rest = act \ Mended(p, ids)
        /\ Saying(p, ids, "malformed") = {} /\ Lost(p, ids) = {} /\ q = After(p)
     \/ /\ p.round = "open" /\ rest = Saying(p, act, "good")
        /\ Saying(p, act, "malformed") = {} /\ q = After(p)
     \/ /\ p.round = "openall" /\ rest = act
        /\ Saying(p, act, "malformed") \cup Saying(p, act, "bad") = {} /\ q = After(p)

-----------------------------------------------------------------------------
(* The invariant *)

CommitteeShown == \A n \in Honest : committee[n] = Members(n, at[n].attempt)

HonestActive == \A n \in Honest : Honest \cap committee[n] \subseteq active[n]

FullAtStart == \A n \in Honest : Pos(n) = Start(at[n].attempt, 1) => active[n] = committee[n]

(* Who has left the first round of an attempt heard every honest member.   *)
LeftStart(o, k) ==
  \/ at[o].attempt > k
  \/ \E m \in said : m.from = o /\ m.at.attempt = k /\ m.at # Start(k, 1)
  \/ plan.restarts /\ at[o].attempt = k /\ outcome[o] = "output"

StartHeard ==
  \A o \in Honest, k \in Nat :
    LeftStart(o, k) => \A i \in Honest \cap Members(o, k) : Spoke(Start(k, 1), i)

RoundsOf(stage) ==
  CASE stage = "deal" -> {"deal", "complain", "defend"}
    [] stage = "redeal" -> {"redeal", "request", "supply"}
    [] OTHER -> {stage}

OnCourse ==
  \A n \in Honest :
    at[n].round \in RoundsOf(Stages[at[n].stage]) /\ (at[n].attempt = 0 \/ plan.restarts)

DefendHeard ==
  \A n \in Honest : at[n].round = "defend" =>
    Heard([at[n] EXCEPT !.round = "complain"], committee[n])

(* Two honest members in one attempt, in places p and q.                   *)
TogetherAt(p, act, q, rest, ids) ==
  \/ Signed(p) \/ Signed(q)
  \/ p = q /\ act = rest
  \/ Clears(p, ids, act, q, rest)
  \/ Clears(q, ids, rest, p, act)

Together(n, o) ==
  committee[n] = committee[o] /\ TogetherAt(Pos(n), active[n], Pos(o), active[o], committee[n])

(* o has left the attempt of a member in place p: that one cannot go on    *)
(* where it stands, or, if o was there, everybody may see what o left for. *)
LeftAt(p, ids, act, o) ==
  /\ ids = Members(o, p.attempt) /\ o \in ids /\ plan.restarts
  /\ \/ ~ Spoke(p, o)
     \/ /\ \A m \in said : m.from = o /\ m.at.attempt = p.attempt => UpTo(m.at, p)
        /\ \E B \in SUBSET ids :
             Decides(p, ids, act, B) /\ Members(o, p.attempt + 1) = ids \ B

Left(n, o) == outcome[n] # "output" /\ LeftAt(at[n], committee[n], active[n], o)

Agreement ==
  LoneMisdealers => \A n, o \in Honest :
    /\ at[n].attempt = at[o].attempt => Together(n, o)
    /\ at[n].attempt < at[o].attempt => Left(n, o)

AInv ==
  /\ IInv /\ CommitteeShown /\ HonestActive /\ FullAtStart /\ StartHeard
  /\ OnCourse /\ DefendHeard /\ Agreement

-----------------------------------------------------------------------------
(* What an honest member does *)

(* n goes on from its place to q, or outputs.                              *)
Proceeds(n, q, R) ==
  /\ active' = [active EXCEPT ![n] = R] /\ UNCHANGED committee
  /\ \/ /\ q = End(at[n].attempt) /\ UNCHANGED <<at, said, shares>>
        /\ outcome' = [outcome EXCEPT ![n] = "output"]
     \/ /\ q \in Place /\ Before(at[n], q) /\ q.attempt = at[n].attempt
        /\ q.round \in RoundsOf(Stages[q.stage]) /\ UNCHANGED outcome
        /\ \E names, ids : Speaks(n, q, names, ids)

ClearsPlace(n) ==
  \E q : \E R \in SUBSET active[n] :
    /\ Clears(at[n], committee[n], active[n], q, R)
    /\ Honest \cap active[n] \subseteq R /\ Proceeds(n, q, R)

DecidesPlace(n) ==
  \E B \in SUBSET committee[n] :
    B # {} /\ Decides(at[n], committee[n], active[n], B) /\ Abort(n, B)

(* The end of a signing round, which depends on who is in time.            *)
Signs(n) ==
  /\ at[n].round \in Signing
  /\ \/ \E B \in SUBSET (committee[n] \ Honest) : B # {} /\ Abort(n, B)
     \/ \E R \in SUBSET active[n] : Honest \cap active[n] \subseteq R /\ Pass(n, R)

Acts(n) == ClearsPlace(n) \/ DecidesPlace(n) \/ Signs(n) \/ Stops(n)

LEMMA StageOfRound ==
  ASSUME TypeOK, OnCourse, NEW n \in Honest
  PROVE  /\ at[n].round \in {"deal", "complain", "defend"} => Stages[at[n].stage] = "deal"
         /\ at[n].round \in {"redeal", "request", "supply"} => Stages[at[n].stage] = "redeal"
         /\ at[n].round \in Opening => Stages[at[n].stage] = at[n].round
<1>1. Stages[at[n].stage] \in Dealing \cup Opening
  BY MembersType, StagesType
<1>2. at[n].round \in RoundsOf(Stages[at[n].stage])
  BY DEF OnCourse
<1> QED
  BY <1>1, <1>2 DEF RoundsOf, Dealing, Opening, Signing

LEMMA StartOnCourse ==
  ASSUME NEW k, NEW s
  PROVE  Start(k, s).round \in RoundsOf(Stages[s]) /\ Start(k, s).stage = s /\ Start(k, s).attempt = k
BY DEF Start, RoundsOf

LEMMA PassProceeds ==
  ASSUME TypeOK, NEW n \in Honest, NEW R \in SUBSET active[n], Pass(n, R)
  PROVE  Proceeds(n, After(at[n]), R)
<1>1. active' = [active EXCEPT ![n] = R] /\ UNCHANGED committee
  BY PassEffect
<1>2. CASE Stands /\ at[n].stage = Len(Stages) /\ outcome' = [outcome EXCEPT ![n] = "output"]
  BY <1>1, <1>2 DEF Stands, Proceeds, After
<1>3. CASE /\ at[n].stage # Len(Stages) /\ UNCHANGED outcome
           /\ Speaks(n, Start(at[n].attempt, at[n].stage + 1), {}, committee[n])
           /\ Moves(n, Start(at[n].attempt, at[n].stage + 1))
  BY <1>1, <1>3, StartOnCourse DEF Moves, Proceeds, After
<1> QED
  BY <1>2, <1>3, PassEffect

LEMMA ReportProceeds ==
  ASSUME TypeOK, OnCourse, NEW n \in Honest,
         NEW r \in {"complain", "defend", "request", "supply"}, NEW names,
         Reports(n, r, names), Rank(r) > Rank(at[n].round),
         r \in {"complain", "defend"} => Stages[at[n].stage] = "deal",
         r \in {"request", "supply"} => Stages[at[n].stage] = "redeal"
  PROVE  Proceeds(n, [at[n] EXCEPT !.round = r], active[n])
<1> DEFINE q == [at[n] EXCEPT !.round = r]
<1>1. at[n] \in Place /\ active \in [Honest -> SUBSET Node]
  BY MembersType DEF TypeOK
<1>2. q \in Place /\ Before(at[n], q) /\ Speaks(n, q, names, {})
      /\ UNCHANGED <<committee, active, blamed, outcome, shares>>
  BY ReportMoves DEF Moves
<1>3. q.attempt = at[n].attempt /\ q.stage = at[n].stage /\ q.round = r
  BY <1>1 DEF Place
<1>4. q.round \in RoundsOf(Stages[q.stage])
  BY <1>3 DEF RoundsOf
<1>5. active' = [active EXCEPT ![n] = active[n]]
  BY <1>1, <1>2
<1> HIDE DEF q
<1>6. UNCHANGED <<committee, outcome>>
  BY <1>2
<1>7. \E x, i : Speaks(n, q, x, i)
  BY <1>2
<1>8. Proceeds(n, q, active[n])
  BY <1>2, <1>3, <1>4, <1>5, <1>6, <1>7 DEF Proceeds
<1> QED
  BY <1>8 DEF q

LEMMA CheckActs ==
  ASSUME IInv, OnCourse, NEW n \in Honest, Check(n)
  PROVE  ClearsPlace(n) \/ DecidesPlace(n)
<1> DEFINE p == at[n]
           ids == committee[n]
           malformed == Saying(p, ids, "malformed")
           misdealt == {d \in ids : Share(p, d, n) = "malformed"}
           wrong == Saying(p, ids, "wrong")
           bad == {d \in ids : Share(p, d, n) = "bad"}
           r == IF p.round = "deal" THEN "complain" ELSE "request"
<1>1. ids \in SUBSET Node /\ TypeOK
  BY MembersType DEF IInv
<1>2. \A S \in SUBSET ids : S # {} => First(S) \in S /\ {First(S)} \in SUBSET ids /\ {First(S)} # {}
  BY <1>1, FirstIn
<1>3. \/ malformed # {} /\ Abort(n, {First(malformed)})
      \/ malformed = {} /\ misdealt # {} /\ Abort(n, {First(misdealt)})
      \/ malformed = {} /\ wrong # {} /\ Abort(n, {First(wrong)})
      \/ malformed \cup wrong = {} /\ Reports(n, r, bad)
  BY DEF Check, Saying
<1>4. p.round \in Dealing /\ p.round \notin Opening /\ (p.round = "deal" \/ p.round = "redeal")
  BY DEF Check, Running, Dealing, Opening, Signing
<1>5. Heard(p, ids) /\ Dealt(p, n, ids)
  BY DEF Check
<1>6. Ready(p, ids, active[n])
  BY <1>4, <1>5 DEF Ready
<1>7. malformed \in SUBSET ids /\ misdealt \in SUBSET ids /\ wrong \in SUBSET ids
  BY DEF Saying
<1>8. CASE malformed # {} /\ Abort(n, {First(malformed)})
  <2>1. Condemns(p, ids, active[n], {First(malformed)})
    BY <1>4, <1>8 DEF Condemns
  <2> HIDE DEF malformed, misdealt, wrong
  <2> QED
    BY <1>2, <1>6, <1>7, <1>8, <2>1 DEF DecidesPlace, Decides
<1>9. CASE malformed = {} /\ misdealt # {} /\ Abort(n, {First(misdealt)})
  <2>1. First(misdealt) \in ids /\ Share(p, First(misdealt), n) = "malformed"
    BY <1>2, <1>7, <1>9
  <2>2. Dealt(p, n, {First(misdealt)})
    BY <1>5, <2>1 DEF Dealt
  <2>3. \E m \in shares : m.at = p /\ m.share = "malformed" /\ {First(misdealt)} = {m.from}
    BY <2>1, <2>2, ShareIs
  <2>4. Private(p, ids, {First(misdealt)})
    BY <1>4, <1>9, <2>3 DEF Private
  <2> HIDE DEF malformed, misdealt, wrong
  <2> QED
    BY <1>2, <1>6, <1>7, <1>9, <2>4 DEF DecidesPlace, Decides
<1>10. CASE malformed = {} /\ wrong # {} /\ Abort(n, {First(wrong)})
  <2>1. Condemns(p, ids, active[n], {First(wrong)})
    BY <1>4, <1>10 DEF Condemns
  <2> HIDE DEF malformed, misdealt, wrong
  <2> QED
    BY <1>2, <1>6, <1>7, <1>10, <2>1 DEF DecidesPlace, Decides
<1>11. CASE malformed \cup wrong = {} /\ Reports(n, r, bad)
  <2>1. Clears(p, ids, active[n], [p EXCEPT !.round = r], active[n])
    BY <1>4, <1>6, <1>11 DEF Clears
  <2>2. /\ r \in {"complain", "request"} /\ Rank(r) > Rank(p.round)
        /\ r = "complain" => Stages[p.stage] = "deal"
        /\ r = "request" => Stages[p.stage] = "redeal"
    BY <1>1, <1>4, StageOfRound DEF Rank
  <2>3. Proceeds(n, [p EXCEPT !.round = r], active[n])
    BY <1>1, <1>11, <2>2, ReportProceeds
  <2> HIDE DEF r
  <2> QED
    BY <2>1, <2>3 DEF ClearsPlace
<1> QED
  BY <1>3, <1>8, <1>9, <1>10, <1>11

LEMMA DefendActs ==
  ASSUME IInv, OnCourse, NEW n \in Honest, Defend(n)
  PROVE  ClearsPlace(n) \/ DecidesPlace(n)
<1> DEFINE p == at[n]
           ids == committee[n]
           malformed == Saying(p, ids, "malformed")
<1>1. ids \in SUBSET Node /\ TypeOK
  BY MembersType DEF IInv
<1>2. malformed # {} => First(malformed) \in ids
  BY <1>1, FirstIn DEF Saying
<1>3. \/ malformed # {} /\ Abort(n, {First(malformed)})
      \/ malformed = {} /\ Reports(n, "defend", {i \in ids : n \in Names(p, i)})
  BY DEF Defend, Saying
<1>4. p.round = "complain" /\ Heard(p, ids)
  BY DEF Defend, Running
<1>5. Ready(p, ids, active[n])
  BY <1>4 DEF Ready, Opening, Signing
<1>6. CASE malformed # {} /\ Abort(n, {First(malformed)})
  <2>1. Condemns(p, ids, active[n], {First(malformed)})
    BY <1>4, <1>6 DEF Condemns
  <2> QED
    BY <1>2, <1>5, <1>6, <2>1 DEF DecidesPlace, Decides
<1>7. CASE malformed = {} /\ Reports(n, "defend", {i \in ids : n \in Names(p, i)})
  <2>1. Clears(p, ids, active[n], [p EXCEPT !.round = "defend"], active[n])
    BY <1>4, <1>5, <1>7 DEF Clears
  <2>2. Rank("defend") > Rank(p.round) /\ Stages[p.stage] = "deal"
    BY <1>1, <1>4, StageOfRound DEF Rank
  <2>3. Proceeds(n, [p EXCEPT !.round = "defend"], active[n])
    BY <1>1, <1>7, <2>2, ReportProceeds
  <2> QED
    BY <2>1, <2>3 DEF ClearsPlace
<1> QED
  BY <1>3, <1>6, <1>7

LEMMA AdjudicateActs ==
  ASSUME IInv, DefendHeard, NEW n \in Honest, Adjudicate(n)
  PROVE  ClearsPlace(n) \/ DecidesPlace(n) \/ Stops(n)
<1> DEFINE p == at[n]
           ids == committee[n]
           accusers == Accusers(p, ids)
           a == First(accusers)
           d == First(Complaints(p, a))
<1>1. ids \in SUBSET Node /\ TypeOK
  BY MembersType DEF IInv
<1>2. accusers # {} => a \in ids
  BY <1>1, FirstIn DEF Accusers
<1>3. \/ accusers = {} /\ Pass(n, active[n])
      \/ accusers # {} /\ d \in ids /\ Abort(n, Blame(p, a, d))
      \/ Ends(n, "panicked") /\ UNCHANGED <<committee, active, blamed>>
  BY DEF Adjudicate
<1>4. p.round = "defend" /\ Heard(p, ids)
  BY DEF Adjudicate, Running
<1>5. Ready(p, ids, active[n])
  BY <1>4 DEF Ready, Opening, Signing, DefendHeard
<1>6. CASE accusers = {} /\ Pass(n, active[n])
  <2>1. Clears(p, ids, active[n], After(p), active[n])
    BY <1>4, <1>5, <1>6 DEF Clears
  <2>2. Proceeds(n, After(p), active[n])
    BY <1>1, <1>6, PassProceeds
  <2> QED
    BY <2>1, <2>2 DEF ClearsPlace
<1>7. CASE accusers # {} /\ d \in ids /\ Abort(n, Blame(p, a, d))
  <2>1. Condemns(p, ids, active[n], Blame(p, a, d))
    BY <1>4, <1>7 DEF Condemns
  <2>2. Blame(p, a, d) \in SUBSET ids /\ Blame(p, a, d) # {}
    BY <1>2, <1>7 DEF Blame
  <2> HIDE DEF a, d, accusers
  <2> QED
    BY <1>5, <1>7, <2>1, <2>2 DEF DecidesPlace, Decides
<1> QED
  BY <1>3, <1>6, <1>7 DEF Stops

LEMMA JudgeActs ==
  ASSUME IInv, OnCourse, NEW n \in Honest, Judge(n)
  PROVE  ClearsPlace(n) \/ DecidesPlace(n) \/ Stops(n)
<1> DEFINE p == at[n]
           ids == committee[n]
           liars == Liars(p, ids)
           set == Reconstructed(p, ids)
           mine == {d \in set : Share(Start(p.attempt, p.stage), d, n) = "good"}
<1>1. ids \in SUBSET Node /\ TypeOK
  BY MembersType DEF IInv
<1>2. liars # {} => First(liars) \in ids
  BY <1>1, FirstIn DEF Liars
<1>3. \/ liars # {} /\ Abort(n, {First(liars)})
      \/ Ends(n, "panicked") /\ UNCHANGED <<committee, active, blamed>>
      \/ liars = {} /\ set = {} /\ Pass(n, active[n])
      \/ liars = {} /\ set # {} /\ Reports(n, "supply", mine)
  BY DEF Judge, Liars
<1>4. p.round = "request" /\ Heard(p, ids)
  BY DEF Judge, Running
<1>5. Ready(p, ids, active[n])
  BY <1>4 DEF Ready, Opening, Signing
<1>6. CASE liars # {} /\ Abort(n, {First(liars)})
  <2>1. Condemns(p, ids, active[n], {First(liars)})
    BY <1>4, <1>6 DEF Condemns
  <2> QED
    BY <1>2, <1>5, <1>6, <2>1 DEF DecidesPlace, Decides
<1>7. CASE liars = {} /\ set = {} /\ Pass(n, active[n])
  <2>1. Clears(p, ids, active[n], After(p), active[n])
    BY <1>4, <1>5, <1>7 DEF Clears
  <2>2. Proceeds(n, After(p), active[n])
    BY <1>1, <1>7, PassProceeds
  <2> QED
    BY <2>1, <2>2 DEF ClearsPlace
<1>8. CASE liars = {} /\ set # {} /\ Reports(n, "supply", mine)
  <2>1. Clears(p, ids, active[n], [p EXCEPT !.round = "supply"], active[n])
    BY <1>4, <1>5, <1>8 DEF Clears
  <2>2. Rank("supply") > Rank(p.round) /\ Stages[p.stage] = "redeal"
    BY <1>1, <1>4, StageOfRound DEF Rank
  <2> HIDE DEF mine
  <2>3. Proceeds(n, [p EXCEPT !.round = "supply"], active[n])
    BY <1>1, <1>8, <2>2, ReportProceeds
  <2> QED
    BY <2>1, <2>3 DEF ClearsPlace
<1> QED
  BY <1>3, <1>6, <1>7, <1>8 DEF Stops

LEMMA RecoverActs ==
  ASSUME IInv, NEW n \in Honest, Recover(n)
  PROVE  ClearsPlace(n) \/ DecidesPlace(n)
<1> DEFINE p == at[n]
           ids == committee[n]
           set == Mended(p, ids)
           malformed == Saying(p, ids, "malformed")
           lost == Lost(p, ids)
<1>1. ids \in SUBSET Node /\ TypeOK
  BY MembersType DEF IInv
<1>2. \/ malformed # {} /\ Abort(n, {First(malformed)})
      \/ malformed = {} /\ lost # {} /\ Abort(n, {First(lost)})
      \/ malformed = {} /\ lost = {} /\ Pass(n, active[n] \ set)
  BY DEF Recover, Saying, Lost, Mended
<1>3. p.round = "supply" /\ Heard(p, ids)
  BY DEF Recover, Running
<1>4. set \subseteq ids \cap Faulty
  BY <1>3 DEF IInv, SupplyClean, Mended
<1>5. malformed \in SUBSET ids /\ lost \in SUBSET ids
  BY <1>4 DEF Saying, Lost
<1>6. \A S \in SUBSET ids : S # {} => {First(S)} \in SUBSET ids /\ {First(S)} # {}
  BY <1>1, FirstIn
<1>7. Ready(p, ids, active[n])
  BY <1>3 DEF Ready, Opening, Signing, IInv, SupplyClean
<1>8. CASE malformed # {} /\ Abort(n, {First(malformed)})
  <2>1. Condemns(p, ids, active[n], {First(malformed)})
    BY <1>3, <1>8 DEF Condemns
  <2> HIDE DEF malformed
  <2> QED
    BY <1>5, <1>6, <1>7, <1>8, <2>1 DEF DecidesPlace, Decides
<1>9. CASE malformed = {} /\ lost # {} /\ Abort(n, {First(lost)})
  <2>1. Condemns(p, ids, active[n], {First(lost)})
    BY <1>3, <1>9 DEF Condemns
  <2> HIDE DEF lost
  <2> QED
    BY <1>5, <1>6, <1>7, <1>9, <2>1 DEF DecidesPlace, Decides
<1>10. CASE malformed = {} /\ lost = {} /\ Pass(n, active[n] \ set)
  <2>1. Clears(p, ids, active[n], After(p), active[n] \ set)
    BY <1>3, <1>7, <1>10 DEF Clears
  <2>2. Proceeds(n, After(p), active[n] \ set)
    BY <1>1, <1>10, PassProceeds
  <2>3. Honest \cap active[n] \subseteq active[n] \ set /\ active[n] \ set \in SUBSET active[n]
    BY <1>4 DEF Honest
  <2> HIDE DEF set
  <2> QED
    BY <2>1, <2>2, <2>3 DEF ClearsPlace
<1> QED
  BY <1>2, <1>8, <1>9, <1>10

LEMMA OpenActs ==
  ASSUME IInv, NEW n \in Honest, Open(n) \/ OpenAll(n)
  PROVE  ClearsPlace(n) \/ DecidesPlace(n) \/ Stops(n)
<1> DEFINE p == at[n]
           ids == committee[n]
           act == active[n]
           malformed == Saying(p, act, "malformed")
           bad == Saying(p, act, "bad")
           good == Saying(p, act, "good")
<1>1. ids \in SUBSET Node /\ TypeOK /\ act \in SUBSET ids
  BY MembersType DEF IInv
<1>2. \/ malformed # {} /\ Abort(n, {First(malformed)})
      \/ p.round = "openall" /\ malformed = {} /\ bad # {} /\ Abort(n, bad)
      \/ p.round = "open" /\ malformed = {} /\ Pass(n, good)
      \/ p.round = "openall" /\ malformed \cup bad = {} /\ Pass(n, act)
      \/ Ends(n, "failed") /\ UNCHANGED <<committee, active, blamed>>
  BY DEF Open, OpenAll, Running, Saying
<1>3. p.round \in {"open", "openall"} /\ Heard(p, act)
  BY DEF Open, OpenAll, Running
<1>4. malformed \in SUBSET act /\ bad \in SUBSET act /\ good \in SUBSET act
  BY DEF Saying
<1>5. malformed # {} => {First(malformed)} \in SUBSET ids
  BY <1>1, <1>4, FirstIn
<1>6. Ready(p, ids, act)
  BY <1>3 DEF Ready, Opening
<1>7. Honest \cap act \subseteq good
  BY <1>3, HeardIs, HonestWord DEF IInv, Saying, Word, Dealing, Opening
<1>8. CASE malformed # {} /\ Abort(n, {First(malformed)})
  <2>1. Condemns(p, ids, act, {First(malformed)})
    BY <1>3, <1>8 DEF Condemns
  <2> HIDE DEF malformed
  <2> QED
    BY <1>5, <1>6, <1>8, <2>1 DEF DecidesPlace, Decides
<1>9. CASE p.round = "openall" /\ malformed = {} /\ bad # {} /\ Abort(n, bad)
  <2>1. Condemns(p, ids, act, bad)
    BY <1>9 DEF Condemns
  <2>2. bad \in SUBSET ids
    BY <1>1, <1>4
  <2> HIDE DEF bad
  <2> QED
    BY <1>6, <1>9, <2>1, <2>2 DEF DecidesPlace, Decides
<1>10. CASE p.round = "open" /\ malformed = {} /\ Pass(n, good)
  <2>1. Clears(p, ids, act, After(p), good)
    BY <1>6, <1>10 DEF Clears
  <2>2. Proceeds(n, After(p), good)
    BY <1>1, <1>4, <1>10, PassProceeds
  <2> HIDE DEF good
  <2> QED
    BY <1>4, <1>7, <2>1, <2>2 DEF ClearsPlace
<1>11. CASE p.round = "openall" /\ malformed \cup bad = {} /\ Pass(n, act)
  <2>1. Clears(p, ids, act, After(p), act)
    BY <1>6, <1>11 DEF Clears
  <2>2. Proceeds(n, After(p), act)
    BY <1>1, <1>11, PassProceeds
  <2> QED
    BY <2>1, <2>2 DEF ClearsPlace
<1> QED
  BY <1>2, <1>8, <1>9, <1>10, <1>11 DEF Stops

LEMMA CombineActs ==
  ASSUME IInv, NEW n \in Honest, Combine(n) \/ CombineAll(n)
  PROVE  Signs(n) \/ Stops(n)
<1>1. committee[n] \in SUBSET Node /\ active[n] \in SUBSET committee[n]
  BY MembersType DEF IInv
<1>2. at[n].round \in Signing
  BY DEF Combine, CombineAll, Running, Signing
<1>3. PICK S \in Collected(n) :
      \/ Those(n, S, "malformed") # {} /\ Abort(n, {First(Those(n, S, "malformed"))})
      \/ Those(n, S, "bad") # {} /\ Abort(n, Those(n, S, "bad"))
      \/ Pass(n, active[n] \ Those(n, S, "bad"))
      \/ Pass(n, active[n])
      \/ Ends(n, "failed") /\ UNCHANGED <<committee, active, blamed>>
  BY DEF Combine, CombineAll
<1>4. S \subseteq active[n] /\ \A i \in S : Spoke(at[n], i)
  BY HeardIs DEF Collected
<1>5. \A w \in {"malformed", "bad"} : Those(n, S, w) \subseteq committee[n] \ Honest
  BY <1>1, <1>2, <1>4, HonestWord DEF IInv, Those, Word, Dealing, Opening, Signing
<1>6. Those(n, S, "malformed") # {} =>
        {First(Those(n, S, "malformed"))} \in SUBSET (committee[n] \ Honest)
  BY <1>1, <1>5, FirstIn
<1>7. Honest \cap active[n] \subseteq active[n] \ Those(n, S, "bad")
  BY <1>2, <1>4, HonestWord DEF IInv, Those, Word, Dealing, Opening, Signing
<1>8. active[n] \ Those(n, S, "bad") \in SUBSET active[n]
  OBVIOUS
<1> QED
  BY <1>2, <1>3, <1>5, <1>6, <1>7, <1>8 DEF Signs, Stops

(* A step of an honest member clears its place, decides it, ends a signing *)
(* round, or stops.                                                        *)
LEMMA StepActs ==
  ASSUME IInv, OnCourse, DefendHeard, NEW n \in Honest, Step(n) \/ Timeout(n)
  PROVE  Acts(n) /\ outcome[n] = "running"
<1>1. outcome[n] = "running"
  BY DEF Step, Timeout, Check, Defend, Adjudicate, Judge, Recover, Open, OpenAll, Combine,
         CombineAll, Running
<1>2. CASE Timeout(n)
  BY <1>1, <1>2 DEF Timeout, Stops, Acts
<1>3. CASE Step(n)
  <2>1. CASE Check(n) \/ Defend(n) \/ Adjudicate(n)
    BY <1>1, <2>1, CheckActs, DefendActs, AdjudicateActs DEF Acts
  <2>2. CASE Judge(n) \/ Recover(n)
    BY <1>1, <2>2, JudgeActs, RecoverActs DEF Acts
  <2>3. CASE Open(n) \/ OpenAll(n)
    BY <1>1, <2>3, OpenActs DEF Acts
  <2>4. CASE Combine(n) \/ CombineAll(n)
    BY <1>1, <2>4, CombineActs DEF Acts
  <2> QED
    BY <1>3, <2>1, <2>2, <2>3, <2>4 DEF Step
<1> QED
  BY <1>1, <1>2, <1>3

-----------------------------------------------------------------------------
(* What a step adds *)

LEMMA HonestMoves ==
  ASSUME IInv, NEW n \in Honest, Step(n) \/ Timeout(n)
  PROVE  Stands \/ \E q : Moves(n, q)
<1>1. CASE Stops(n)
  BY <1>1 DEF Stops, Ends, Stands
<1>2. CASE Continues(n)
  <2>1. PICK r \in {"complain", "defend", "request", "supply"} : \E names :
          Reports(n, r, names) /\ Rank(r) > Rank(at[n].round)
    BY <1>2 DEF Continues
  <2> QED
    BY <2>1, ReportMoves DEF IInv
<1>3. CASE Passes(n)
  BY <1>3, PassEffect DEF Passes, IInv
<1>4. CASE Aborts(n)
  BY <1>4, AbortEffect, RestartMoves DEF Aborts, IInv
<1> QED
  BY <1>1, <1>2, <1>3, <1>4, StepCases

(* New messages of an honest member are of a later place, new shares of a   *)
(* faulty one are for an honest member that is there.                      *)
Added ==
  /\ \A m \in said' \ said : m.from \in Honest => Before(at[m.from], m.at)
  /\ \A m \in shares' \ shares :
       /\ m.from \in Honest => Before(at[m.from], m.at)
       /\ m.from \in Faulty => m.to \in Honest /\ at[m.to] = m.at

LEMMA NextAdds ==
  ASSUME IInv, Next
  PROVE  Added
<1>1. ASSUME NEW n \in Honest, NEW q, Moves(n, q)
      PROVE  Added
  <2>1. PICK names, ids : Speaks(n, q, names, ids)
    BY <1>1 DEF Moves
  <2>2. \A m \in said' \ said : m.at = q /\ m.from = n
    BY <2>1 DEF Speaks, Message
  <2>3. \A m \in shares' \ shares : m.at = q /\ m.from = n
    BY <2>1 DEF Speaks
  <2>4. n \notin Faulty
    BY DEF Honest
  <2> QED
    BY <1>1, <2>2, <2>3, <2>4 DEF Moves, Added
<1>2. CASE Stands
  BY <1>2 DEF Stands, Added
<1>3. ASSUME NEW f \in Faulty, NEW n \in Honest, Say(f, at[n]) \/ Give(f, at[n], n)
      PROVE  Added
  <2>1. f \notin Honest
    BY DEF Honest
  <2>2. CASE Say(f, at[n])
    BY <2>1, <2>2 DEF Say, Added, Message
  <2>3. CASE Give(f, at[n], n)
    <3>1. \A m \in shares' \ shares : m.at = at[n] /\ m.from = f /\ m.to = n
      BY <2>3 DEF Give
    <3>2. said' = said
      BY <2>3 DEF Give
    <3> QED
      BY <2>1, <3>1, <3>2 DEF Added
  <2> QED
    BY <1>3, <2>2, <2>3
<1>4. ASSUME NEW n \in Honest, Step(n) \/ Timeout(n)
      PROVE  Added
  BY <1>1, <1>2, <1>4, HonestMoves
<1> QED
  BY <1>3, <1>4 DEF Next

-----------------------------------------------------------------------------
(* Verdicts do not change *)

LEMMA GenuineRigid ==
  ASSUME IInv, IInv', Next, NEW p \in Place, p.round = "request",
         NEW ids \in SUBSET Node, Heard(p, ids), NEW v \in ids, NEW d
  PROVE  Genuine(p, v, d, ids)' = Genuine(p, v, d, ids)
<1> DEFINE q == Start(p.attempt, p.stage)
<1>1. said \subseteq said' /\ shares \subseteq shares' /\ UNCHANGED plan
  BY SaidGrows DEF Next
<1>2. q' = q
  BY <1>1 DEF Start, Stages
<1>3. What(p, v)' = What(p, v)
  BY <1>1, Rigid DEF IInv
<1>4. CASE d \notin ids \/ {v, d} \subseteq Faulty
  BY <1>3, <1>4 DEF Genuine
<1>5. CASE d \in ids /\ ~({v, d} \subseteq Faulty)
  <2>0. TypeOK
    BY DEF IInv
  <2>1. p.attempt \in Nat /\ p.stage \in 1 .. Len(Stages)
    BY DEF Place
  <2>2. q \in Place /\ Rank(q.round) = 0
    BY <2>0, <2>1, StagesType
  <2>3. Before(q, p)
    BY <2>1, <2>2 DEF Before, Rank, Start
  <2>4. ASSUME NEW m \in shares' \ shares, m.at = q, m.from = d, m.to = v
        PROVE  FALSE
    <3>1. CASE d \in Honest
      <4>1. Before(at[d], q)
        BY <2>4, <3>1, NextAdds DEF Added
      <4>2. Spoke(p, d)
        BY <1>5, HeardIs
      <4>3. UpTo(p, at[d]) /\ at[d] \in Place
        BY <3>1, <4>2, HonestWord, MembersType DEF IInv
      <4>4. Before(p, q)
        BY <2>2, <4>1, <4>3, BeforeIsOrder
      <4> QED
        BY <2>2, <2>3, <4>4, BeforeIsOrder DEF UpTo
    <3>2. CASE d \notin Honest
      <4>1. d \in Faulty /\ v \notin Faulty
        BY <1>5, <3>2 DEF Honest
      <4>2. v \in Honest /\ at[v] = q
        BY <2>4, <4>1, NextAdds DEF Added
      <4>3. Spoke(p, v)
        BY HeardIs
      <4>4. UpTo(p, q)
        BY <4>2, <4>3, HonestWord DEF IInv
      <4> QED
        BY <2>2, <2>3, <4>4, BeforeIsOrder
    <3> QED
      BY <3>1, <3>2
  <2>5. Dealt(q, v, {d})' = Dealt(q, v, {d})
    <3> HIDE DEF q
    <3> QED
      BY <1>1, <1>2, <2>4 DEF Dealt
  <2>6. Dealt(q, v, {d}) => Share(q, d, v)' = Share(q, d, v)
    <3> SUFFICES ASSUME Dealt(q, v, {d}) PROVE Share(q, d, v)' = Share(q, d, v)
      OBVIOUS
    <3> HIDE DEF q
    <3>1. PICK m \in shares : m.at = q /\ m.from = d /\ m.to = v /\ Share(q, d, v) = m.share
      BY ShareIs
    <3>2. \A x \in shares' : x.at = q /\ x.from = d /\ x.to = v => x = m
      BY <1>1, <3>1 DEF IInv, DealtOnce
    <3>3. (CHOOSE x \in shares' : x.at = q /\ x.from = d /\ x.to = v) = m
      BY <1>1, <3>1, <3>2
    <3> QED
      BY <1>2, <3>1, <3>3 DEF Share
  <2> HIDE DEF q
  <2>7. Genuine(p, v, d, ids) <=>
          What(p, v) = "list" /\ Dealt(q, v, {d}) /\ Share(q, d, v) = "bad"
    BY <1>5 DEF Genuine, q
  <2>8. Genuine(p, v, d, ids)' <=>
          What(p, v)' = "list" /\ Dealt(q, v, {d})' /\ Share(q, d, v)' = "bad"
    BY <1>5 DEF Genuine, q
  <2>9. Genuine(p, v, d, ids)' <=> Genuine(p, v, d, ids)
    BY <1>3, <2>5, <2>6, <2>7, <2>8
  <2> QED
    BY <2>9 DEF Genuine
<1> QED
  BY <1>4, <1>5

LEMMA LiarsRigid ==
  ASSUME IInv, IInv', Next, NEW p \in Place, p.round = "request",
         NEW ids \in SUBSET Node, Heard(p, ids)
  PROVE  Liars(p, ids)' = Liars(p, ids) /\ Reconstructed(p, ids)' = Reconstructed(p, ids)
<1>1. said \subseteq said' /\ HeardOnce'
  BY SaidGrows DEF IInv
<1>2. \A v \in ids : What(p, v)' = What(p, v) /\ Names(p, v)' = Names(p, v)
  BY <1>1, Rigid
<1>3. \A v \in ids : \A d : Genuine(p, v, d, ids)' = Genuine(p, v, d, ids)
  BY GenuineRigid
<1>4. \A v \in ids : FalseRequest(p, v, ids)' = FalseRequest(p, v, ids)
  <2> SUFFICES ASSUME NEW v \in ids PROVE FalseRequest(p, v, ids)' = FalseRequest(p, v, ids)
    OBVIOUS
  <2>1. FalseRequest(p, v, ids) <=>
          What(p, v) = "malformed" \/ \E d \in Names(p, v) : ~ Genuine(p, v, d, ids)
    BY DEF FalseRequest
  <2>2. FalseRequest(p, v, ids)' <=>
          What(p, v)' = "malformed" \/ \E d \in Names(p, v)' : ~ Genuine(p, v, d, ids)'
    BY DEF FalseRequest
  <2>3. FalseRequest(p, v, ids)' <=> FalseRequest(p, v, ids)
    BY <1>2, <1>3, <2>1, <2>2
  <2> QED
    BY <2>3 DEF FalseRequest
<1> QED
  BY <1>1, <1>4, Rigid DEF Liars

LEMMA SayingRigid ==
  ASSUME said \subseteq said', HeardOnce', NEW p, NEW S, Heard(p, S)
  PROVE  \A w : Saying(p, S, w)' = Saying(p, S, w)
BY Rigid DEF Saying

LEMMA AccusersRigid ==
  ASSUME said \subseteq said', HeardOnce', NEW p, NEW ids, Heard(p, ids),
         Heard([p EXCEPT !.round = "complain"], ids)
  PROVE  /\ Accusers(p, ids)' = Accusers(p, ids)
         /\ \A a \in ids : /\ Complaints(p, a)' = Complaints(p, a)
                           /\ Names(p, a)' = Names(p, a)
<1>1. PICK c : c = [p EXCEPT !.round = "complain"]
  OBVIOUS
<1>2. \A a \in ids : Names(c, a)' = Names(c, a) /\ Names(p, a)' = Names(p, a)
  BY <1>1, Rigid
<1>3. \A a \in ids : Complaints(p, a)' = Complaints(p, a)
  BY <1>1, <1>2 DEF Complaints
<1> QED
  BY <1>2, <1>3 DEF Accusers

LEMMA LostRigid ==
  ASSUME said \subseteq said', HeardOnce', NEW p, NEW ids, Heard(p, ids),
         Heard([p EXCEPT !.round = "request"], ids)
  PROVE  Mended(p, ids)' = Mended(p, ids) /\ Lost(p, ids)' = Lost(p, ids)
<1>1. PICK c : c = [p EXCEPT !.round = "request"]
  OBVIOUS
<1>2. Mended(p, ids)' = Mended(p, ids)
  BY <1>1, Rigid DEF Mended
<1>3. \A v \in ids : Names(p, v)' = Names(p, v)
  BY Rigid
<1>4. \A d : {v \in ids : d \in Names(p, v)}' = {v \in ids : d \in Names(p, v)}
  BY <1>3
<1>5. \A d : Recoverable(p, d, ids)' = Recoverable(p, d, ids)
  BY <1>4 DEF Recoverable
<1> QED
  BY <1>2, <1>5 DEF Lost

(* What is decided or cleared in a place stays so.                         *)
LEMMA VerdictRigid ==
  ASSUME IInv, IInv', Next, NEW p \in Place, NEW ids \in SUBSET Node, NEW act \in SUBSET ids,
         Ready(p, ids, act)
  PROVE  /\ \A B \in SUBSET Node : Decides(p, ids, act, B) => Decides(p, ids, act, B)'
         /\ \A q, R : Clears(p, ids, act, q, R) => Clears(p, ids, act, q, R)'
<1>1. said \subseteq said' /\ shares \subseteq shares' /\ HeardOnce' /\ UNCHANGED plan
  BY SaidGrows DEF IInv, Next
<1>2. Ready(p, ids, act)'
  BY <1>1 DEF Ready, Heard
<1>3. p.round \notin Opening =>
        Heard(p, ids) /\ \A w : Saying(p, ids, w)' = Saying(p, ids, w)
  BY <1>1, SayingRigid DEF Ready
<1>4. p.round \in Opening => \A w : Saying(p, act, w)' = Saying(p, act, w)
  BY <1>1, SayingRigid DEF Ready
<1>5. p.round = "defend" =>
        /\ Accusers(p, ids)' = Accusers(p, ids)
        /\ \A a \in ids : Complaints(p, a)' = Complaints(p, a) /\ Names(p, a)' = Names(p, a)
  BY <1>1, <1>3, AccusersRigid DEF Ready, Opening, Signing
<1>6. p.round = "request" =>
        Liars(p, ids)' = Liars(p, ids) /\ Reconstructed(p, ids)' = Reconstructed(p, ids)
  BY <1>3, LiarsRigid DEF Opening, Signing
<1>7. p.round = "supply" => Mended(p, ids)' = Mended(p, ids) /\ Lost(p, ids)' = Lost(p, ids)
  BY <1>1, <1>3, LostRigid DEF Ready, Opening, Signing
<1>8. After(p)' = After(p)
  BY <1>1 DEF After, End, Start, Stages
<1>9. p.round \in Dealing \cup {"complain", "supply", "defend", "request"} => p.round \notin Opening
  BY DEF Dealing, Opening, Signing
<1>10. ASSUME NEW q, NEW R, Clears(p, ids, act, q, R)
       PROVE  Clears(p, ids, act, q, R)'
  <2>1. CASE p.round \in Dealing \cup {"complain"}
    BY <2>1, <1>2, <1>3, <1>9, <1>10 DEF Clears, Dealing
  <2>2. CASE p.round \in {"defend", "request"}
    BY <2>2, <1>2, <1>3, <1>5, <1>6, <1>8, <1>9, <1>10 DEF Clears, Dealing
  <2>3. CASE p.round = "supply"
    BY <2>3, <1>2, <1>3, <1>7, <1>8, <1>9, <1>10 DEF Clears, Dealing
  <2>4. CASE p.round \in {"open", "openall"}
    <3>1. p.round \in Opening
      BY <2>4 DEF Opening
    <3> QED
      BY <2>4, <3>1, <1>2, <1>4, <1>8, <1>10 DEF Clears, Dealing
  <2> QED
    BY <1>10, <2>1, <2>2, <2>3, <2>4 DEF Clears
<1>11. ASSUME NEW B \in SUBSET Node, Condemns(p, ids, act, B)
       PROVE  Condemns(p, ids, act, B)'
  <2>1. CASE p.round \in Dealing \cup {"complain"}
    BY <2>1, <1>3, <1>9, <1>11 DEF Condemns, Dealing
  <2>2. CASE p.round = "defend"
    <3>1. PICK a : a = First(Accusers(p, ids))
      OBVIOUS
    <3>2. PICK d : d = First(Complaints(p, a))
      OBVIOUS
    <3>3. Accusers(p, ids) # {} /\ d \in ids /\ B = Blame(p, a, d)
      BY <2>2, <3>1, <3>2, <1>11 DEF Condemns, Dealing
    <3>4. a \in ids
      BY <3>1, <3>3, FirstIn DEF Accusers
    <3>5. Blame(p, a, d)' = Blame(p, a, d)
      BY <2>2, <1>5, <3>3 DEF Blame
    <3>6. a = First(Accusers(p, ids)') /\ d = First(Complaints(p, a)')
      BY <2>2, <1>5, <3>1, <3>2, <3>4
    <3>7. First(Accusers(p, ids))' = a
      BY <3>6 DEF First
    <3>8. First(Complaints(p, First(Accusers(p, ids))))' = d
      BY <3>6, <3>7 DEF First, Complaints, Names, From
    <3>9. Blame(p, First(Accusers(p, ids)), First(Complaints(p, First(Accusers(p, ids)))))' = B
      BY <3>3, <3>5, <3>7, <3>8 DEF Blame, Names, From
    <3>10. Accusers(p, ids)' # {}
      BY <2>2, <1>5, <3>3
    <3> QED
      BY <2>2, <3>3, <3>8, <3>9, <3>10 DEF Condemns
  <2>3. CASE p.round = "request"
    BY <2>3, <1>6, <1>11 DEF Condemns, Dealing
  <2>4. CASE p.round = "supply"
    BY <2>4, <1>3, <1>7, <1>9, <1>11 DEF Condemns, Dealing
  <2>5. CASE p.round \in {"open", "openall"}
    <3>1. p.round \in Opening
      BY <2>5 DEF Opening
    <3> QED
      BY <2>5, <3>1, <1>4, <1>11 DEF Condemns, Dealing
  <2> QED
    BY <1>11, <2>1, <2>2, <2>3, <2>4, <2>5 DEF Condemns
<1>12. ASSUME NEW B, Private(p, ids, B)
       PROVE  Private(p, ids, B)'
  BY <1>1, <1>3, <1>9, <1>12 DEF Private
<1> QED
  BY <1>2, <1>10, <1>11, <1>12 DEF Decides

(* Verdicts are one-valued.                                                *)
LEMMA OneVerdict ==
  ASSUME IInv, NEW p, NEW ids \in SUBSET Node, NEW act
  PROVE  /\ \A q, R, r, S : Clears(p, ids, act, q, R) /\ Clears(p, ids, act, r, S) => q = r /\ R = S
         /\ \A q, R, B : Clears(p, ids, act, q, R) /\ Decides(p, ids, act, B)
                          => Private(p, ids, B) /\ q.round # "end"
         /\ LoneMisdealers =>
              \A B, C : Decides(p, ids, act, B) /\ Decides(p, ids, act, C) => B = C
<1>0. /\ p.round \in Dealing <=> p.round \in {"deal", "redeal"}
      /\ "complain" \notin Dealing /\ "defend" \notin Dealing /\ "request" \notin Dealing
      /\ "supply" \notin Dealing /\ "open" \notin Dealing /\ "openall" \notin Dealing
  BY DEF Dealing
<1>1. \A q, R, r, S : Clears(p, ids, act, q, R) /\ Clears(p, ids, act, r, S) => q = r /\ R = S
  BY <1>0 DEF Clears
<1>2. \A q, R, B : ~(Clears(p, ids, act, q, R) /\ Condemns(p, ids, act, B))
  BY <1>0 DEF Clears, Condemns
<1>3. \A B, C : Condemns(p, ids, act, B) /\ Condemns(p, ids, act, C) => B = C
  BY <1>0 DEF Condemns
<1>4. \A q, R : Clears(p, ids, act, q, R) /\ p.round \in Dealing => q.round # "end"
  <2> SUFFICES ASSUME NEW q, NEW R, Clears(p, ids, act, q, R), p.round \in Dealing
               PROVE  q.round # "end"
    OBVIOUS
  <2>1. q = [p EXCEPT !.round = IF p.round = "deal" THEN "complain" ELSE "request"]
    BY <1>0 DEF Clears
  <2> QED
    BY <2>1
<1>5. ASSUME LoneMisdealers, NEW B, NEW C, Private(p, ids, B), Private(p, ids, C)
      PROVE  B = C
  BY <1>5 DEF Private, LoneMisdealers
<1>6. ASSUME LoneMisdealers, NEW B, NEW C, Private(p, ids, B), Condemns(p, ids, act, C),
             Ready(p, ids, act)
      PROVE  B = C
  <2>1. PICK m \in shares : m.at = p /\ m.share = "malformed" /\ B = {m.from}
    BY <1>6 DEF Private
  <2>2. p.round \in Dealing /\ Saying(p, ids, "malformed") = {} /\ p.round \notin Opening
    BY <1>6 DEF Private, Dealing, Opening, Signing
  <2>3. Saying(p, ids, "wrong") # {} /\ C = {First(Saying(p, ids, "wrong"))}
    BY <1>0, <1>6, <2>2 DEF Condemns
  <2>4. PICK f \in Saying(p, ids, "wrong") : C = {f}
    BY <2>3, FirstIn DEF Saying
  <2>5. f \in ids /\ What(p, f) = "wrong"
    BY DEF Saying
  <2>6. From(p, f) \in said /\ From(p, f).at = p /\ From(p, f).from = f
    BY <1>6, <2>2, <2>5, FromIs, HeardIs DEF Ready
  <2>7. f = m.from
    BY <1>6, <2>1, <2>5, <2>6 DEF LoneMisdealers, What
  <2> QED
    BY <2>1, <2>4, <2>7
<1>7. LoneMisdealers => \A B, C : Decides(p, ids, act, B) /\ Decides(p, ids, act, C) => B = C
  BY <1>3, <1>5, <1>6 DEF Decides
<1>8. \A B : Private(p, ids, B) => p.round \in Dealing
  BY DEF Private
<1> QED
  BY <1>1, <1>2, <1>4, <1>7, <1>8 DEF Decides

-----------------------------------------------------------------------------
(* The shape of a step *)

(* n stays where it is, without an output.                                 *)
Stays(n) ==
  /\ UNCHANGED <<at, said, shares, committee, active>>
  /\ \E how \in {"aborted", "refused", "expelled", "failed", "panicked"} :
       outcome' = [outcome EXCEPT ![n] = how]

(* n outputs a signature.                                                  *)
SignsOff(n) ==
  /\ UNCHANGED <<at, said, shares, committee>> /\ ~ plan.restarts
  /\ at[n].stage = Len(Stages) /\ Signed(End(at[n].attempt))
  /\ outcome' = [outcome EXCEPT ![n] = "output"]
  /\ \E R \in SUBSET active[n] :
       Honest \cap active[n] \subseteq R /\ active' = [active EXCEPT ![n] = R]

(* n restarts without those whom its place blames.                         *)
RestartsAfter(n) ==
  \E B \in SUBSET committee[n] :
    LET S == committee[n] \ B IN
    /\ B # {} /\ Decides(at[n], committee[n], active[n], B)
    /\ plan.restarts /\ n \in S /\ S \in SUBSET Node
    /\ committee' = [committee EXCEPT ![n] = S] /\ active' = [active EXCEPT ![n] = S]
    /\ Speaks(n, Start(at[n].attempt + 1, 1), {}, S)
    /\ UNCHANGED outcome

LEMMA NoSignatures ==
  ASSUME TypeOK
  PROVE  /\ \A s \in 1 .. Len(Stages) : Stages[s] \in Signing => s = Len(Stages) /\ ~ plan.restarts
         /\ plan.restarts => Stages[1] \in Dealing /\ \A q : ~ Signed(q)
<1>1. \A s \in 1 .. Len(Stages) : Stages[s] \in Signing => s = Len(Stages) /\ ~ plan.restarts
  BY PlansAssumption DEF TypeOK, Stages, Signing
<1>2. Len(Stages) \in 1 .. Len(Stages)
  BY StagesType
<1> QED
  BY <1>1, <1>2, PlansAssumption DEF TypeOK, Stages, Signed, Dealing

LEMMA StepShape ==
  ASSUME IInv, OnCourse, DefendHeard, NEW n \in Honest, Step(n) \/ Timeout(n), UNCHANGED plan
  PROVE  /\ outcome[n] = "running"
         /\ ClearsPlace(n) \/ Stays(n) \/ SignsOff(n) \/ RestartsAfter(n)
<1>0. outcome[n] = "running" /\ TypeOK /\ committee[n] \in SUBSET Node
  BY StepActs, MembersType DEF IInv
<1>1. CASE Stops(n)
  <2>1. Stays(n)
    BY <1>1 DEF Stops, Ends, Stays
  <2> QED
    BY <1>0, <2>1
<1>2. CASE DecidesPlace(n)
  <2>1. PICK B \in SUBSET committee[n] :
          B # {} /\ Decides(at[n], committee[n], active[n], B) /\ Abort(n, B)
    BY <1>2 DEF DecidesPlace
  <2>2. CASE Ends(n, "aborted") \/ Ends(n, "refused") \/ Ends(n, "expelled")
    <3>1. UNCHANGED <<committee, active>>
      BY <2>1, <2>2, <1>0 DEF Abort, Ends, TypeOK
    <3>2. Stays(n)
      BY <2>2, <3>1 DEF Stays, Ends
    <3> QED
      BY <1>0, <3>2
  <2>3. CASE /\ plan.restarts /\ n \in committee[n] \ B
             /\ committee' = [committee EXCEPT ![n] = committee[n] \ B]
             /\ active' = [active EXCEPT ![n] = committee[n] \ B]
             /\ Enter(n, Poisoned(at[n].attempt), 1, committee[n] \ B)
             /\ UNCHANGED outcome
    <3>1. at[n].attempt \in Nat /\ Len(Stages) \in Nat \ {0}
      BY <1>0, MembersType, StagesType
    <3>2. at[n].attempt + 1 \in Nat /\ 1 \in 1 .. Len(Stages)
      BY <3>1
    <3>3. Speaks(n, Start(at[n].attempt + 1, 1), {}, committee[n] \ B)
      BY <1>0, <2>3, <3>2, EnterSpeaks DEF Poisoned
    <3>4. RestartsAfter(n)
      BY <1>0, <2>1, <2>3, <3>3 DEF RestartsAfter
    <3> QED
      BY <1>0, <3>4
  <2> QED
    BY <2>1, <2>2, <2>3 DEF Abort
<1>3. CASE Signs(n)
  <2>1. at[n].round \in Signing /\ at[n].round \in Opening
    BY <1>3 DEF Signs, Opening
  <2>2. Stages[at[n].stage] \in Signing /\ at[n].stage \in 1 .. Len(Stages)
    BY <1>0, <2>1, StageOfRound, MembersType
  <2>3. at[n].stage = Len(Stages) /\ ~ plan.restarts /\ Stages[Len(Stages)] \in Signing
    BY <1>0, <2>2, NoSignatures
  <2>4. CASE \E B \in SUBSET (committee[n] \ Honest) : B # {} /\ Abort(n, B)
    <3>1. Ends(n, "aborted") /\ UNCHANGED <<committee, active>>
      BY <2>3, <2>4 DEF Abort
    <3>2. Stays(n)
      BY <3>1 DEF Stays, Ends
    <3> QED
      BY <1>0, <3>2
  <2>5. CASE \E R \in SUBSET active[n] : Honest \cap active[n] \subseteq R /\ Pass(n, R)
    <3>1. PICK R \in SUBSET active[n] : Honest \cap active[n] \subseteq R /\ Pass(n, R)
      BY <2>5
    <3>2. /\ active' = [active EXCEPT ![n] = R] /\ UNCHANGED <<committee, at, said, shares>>
          /\ outcome' = [outcome EXCEPT ![n] = "output"]
      BY <2>3, <3>1 DEF Pass, Ends
    <3>3. SignsOff(n)
      BY <2>3, <3>1, <3>2 DEF SignsOff, Signed, End
    <3> QED
      BY <1>0, <3>3
  <2> QED
    BY <1>3, <2>4, <2>5 DEF Signs
<1> QED
  BY <1>0, <1>1, <1>2, <1>3, StepActs DEF Acts

(* What does not change for a member that does not act.                    *)
LEMMA OthersStay ==
  ASSUME TypeOK, NEW n \in Honest, UNCHANGED plan,
         ClearsPlace(n) \/ Stays(n) \/ SignsOff(n) \/ RestartsAfter(n),
         NEW o \in Honest, o # n
  PROVE  /\ at'[o] = at[o] /\ committee'[o] = committee[o] /\ active'[o] = active[o]
         /\ outcome'[o] = outcome[o] /\ Pos(o)' = Pos(o)
<1>1. /\ at \in [Honest -> Place] /\ committee \in [Honest -> SUBSET Node]
      /\ active \in [Honest -> SUBSET Node]
      /\ outcome \in [Honest -> {"running", "output", "expelled", "refused", "aborted", "failed", "panicked"}]
  BY DEF TypeOK
<1>2. /\ at'[o] = at[o] /\ committee'[o] = committee[o] /\ active'[o] = active[o]
      /\ outcome'[o] = outcome[o]
  <2>1. CASE ClearsPlace(n)
    BY <1>1, <2>1 DEF ClearsPlace, Proceeds, Speaks
  <2>2. CASE Stays(n)
    BY <1>1, <2>2 DEF Stays
  <2>3. CASE SignsOff(n)
    BY <1>1, <2>3 DEF SignsOff
  <2>4. CASE RestartsAfter(n)
    BY <1>1, <2>4 DEF RestartsAfter, Speaks
  <2> QED
    BY <2>1, <2>2, <2>3, <2>4
<1> QED
  BY <1>2 DEF Pos, End, Stages

(* What changes for the member that acts, by the shape of its step.        *)
LEMMA ClearsEffect ==
  ASSUME TypeOK, NEW n \in Honest, outcome[n] = "running", UNCHANGED plan, ClearsPlace(n)
  PROVE  \E q : \E R \in SUBSET active[n] :
           /\ Clears(at[n], committee[n], active[n], q, R) /\ Honest \cap active[n] \subseteq R
           /\ Pos(n)' = q /\ active'[n] = R /\ committee' = committee
           /\ q.attempt = at[n].attempt /\ at'[n].attempt = at[n].attempt
           /\ \/ q = End(at[n].attempt) /\ at'[n] = at[n] /\ outcome'[n] = "output"
                 /\ said' = said
              \/ /\ q \in Place /\ at'[n] = q /\ Before(at[n], q) /\ outcome'[n] = "running"
                 /\ q.round \in RoundsOf(Stages[q.stage])
                 /\ \E names : said' = said \cup {Message(q, n, Word(q.round), names)}
<1>1. /\ at \in [Honest -> Place] /\ active \in [Honest -> SUBSET Node]
      /\ outcome \in [Honest -> {"running", "output", "expelled", "refused", "aborted", "failed", "panicked"}]
  BY DEF TypeOK
<1>2. PICK q : \E R \in SUBSET active[n] :
        /\ Clears(at[n], committee[n], active[n], q, R)
        /\ Honest \cap active[n] \subseteq R /\ Proceeds(n, q, R)
  BY DEF ClearsPlace
<1>3. PICK R \in SUBSET active[n] :
        /\ Clears(at[n], committee[n], active[n], q, R)
        /\ Honest \cap active[n] \subseteq R /\ Proceeds(n, q, R)
  BY <1>2
<1>4. active'[n] = R /\ committee' = committee
  BY <1>1, <1>3 DEF Proceeds
<1>5. CASE /\ q = End(at[n].attempt) /\ UNCHANGED <<at, said, shares>>
           /\ outcome' = [outcome EXCEPT ![n] = "output"]
  <2>1. outcome'[n] = "output" /\ at'[n] = at[n] /\ said' = said
    BY <1>1, <1>5
  <2>2. Pos(n)' = q /\ q.attempt = at[n].attempt
    BY <1>5, <2>1 DEF Pos, End, Stages
  <2> QED
    BY <1>3, <1>4, <1>5, <2>1, <2>2
<1>6. CASE /\ q \in Place /\ Before(at[n], q) /\ q.attempt = at[n].attempt
           /\ q.round \in RoundsOf(Stages[q.stage]) /\ UNCHANGED outcome
           /\ \E names, ids : Speaks(n, q, names, ids)
  <2>1. PICK names, ids : Speaks(n, q, names, ids)
    BY <1>6
  <2>2. at'[n] = q /\ said' = said \cup {Message(q, n, Word(q.round), names)} /\ outcome'[n] = "running"
    BY <1>1, <1>6, <2>1 DEF Speaks
  <2>3. Pos(n)' = q
    BY <2>2 DEF Pos
  <2> QED
    BY <1>3, <1>4, <1>6, <2>2, <2>3
<1> QED
  BY <1>3, <1>5, <1>6 DEF Proceeds

LEMMA StaysEffect ==
  ASSUME TypeOK, NEW n \in Honest, outcome[n] = "running", UNCHANGED plan, Stays(n)
  PROVE  /\ UNCHANGED <<at, said, shares, committee, active>>
         /\ outcome'[n] # "output" /\ Pos(n)' = Pos(n) /\ Pos(n) = at[n]
<1>1. outcome \in [Honest -> {"running", "output", "expelled", "refused", "aborted", "failed", "panicked"}]
  BY DEF TypeOK
<1>2. UNCHANGED <<at, said, shares, committee, active>> /\ outcome'[n] # "output"
  BY <1>1 DEF Stays
<1>3. Pos(n)' = Pos(n) /\ Pos(n) = at[n]
  BY <1>2 DEF Pos
<1> QED
  BY <1>2, <1>3

LEMMA SignsOffEffect ==
  ASSUME TypeOK, NEW n \in Honest, outcome[n] = "running", UNCHANGED plan, SignsOff(n)
  PROVE  /\ UNCHANGED <<at, said, shares, committee>> /\ ~ plan.restarts
         /\ outcome'[n] = "output" /\ Pos(n)' = End(at[n].attempt) /\ Signed(End(at[n].attempt))
         /\ active'[n] \in SUBSET active[n] /\ Honest \cap active[n] \subseteq active'[n]
         /\ at[n].stage = Len(Stages)
<1>1. /\ active \in [Honest -> SUBSET Node]
      /\ outcome \in [Honest -> {"running", "output", "expelled", "refused", "aborted", "failed", "panicked"}]
  BY DEF TypeOK
<1>2. outcome'[n] = "output" /\ at' = at
  BY <1>1 DEF SignsOff
<1>3. Pos(n)' = End(at[n].attempt)
  BY <1>2 DEF Pos, End, Stages
<1>4. active'[n] \in SUBSET active[n] /\ Honest \cap active[n] \subseteq active'[n]
  BY <1>1 DEF SignsOff
<1> QED
  BY <1>2, <1>3, <1>4 DEF SignsOff

LEMMA MembersRigid ==
  ASSUME IInv, Next, NEW o \in Honest, NEW k \in Nat, k <= at[o].attempt
  PROVE  Members(o, k)' = Members(o, k)
<1>1. shares \subseteq shares' /\ UNCHANGED plan
  BY SaidGrows DEF Next
<1>2. Start(k, 1)' = Start(k, 1)
  BY <1>1 DEF Start, Stages
<1>3. at[o] \in Place /\ at[o].attempt \in Nat /\ at[o].stage \in 1 .. Len(Stages)
  BY MembersType DEF IInv
<1>4. Len(Stages) \in Nat \ {0}
  BY StagesType DEF IInv
<1>5. ~ Before(at[o], Start(k, 1))
  <2>1. Rank(at[o].round) \in Nat /\ Rank(Start(k, 1).round) \in Nat
    BY DEF Rank
  <2>2. Rank(Start(k, 1).round) = 0
    <3>1. TypeOK /\ 1 \in 1 .. Len(Stages)
      BY <1>4 DEF IInv
    <3> QED
      BY <3>1, StagesType
  <2>3. Start(k, 1).attempt = k /\ Start(k, 1).stage = 1
    BY DEF Start
  <2> QED
    BY <1>3, <1>4, <2>1, <2>2, <2>3 DEF Before
<1>6. \A m \in shares' : m.from = o /\ m.at = Start(k, 1) => m \in shares
  BY <1>5, NextAdds DEF Added
<1> QED
  BY <1>1, <1>2, <1>6 DEF Members

LEMMA NewMembers ==
  ASSUME IInv, NEW n \in Honest, UNCHANGED plan, plan.restarts, NEW S \in SUBSET Node,
         NEW k, k = at[n].attempt + 1, Speaks(n, Start(k, 1), {}, S)
  PROVE  Members(n, k)' = S
<1>2. at[n] \in Place /\ at[n].attempt \in Nat /\ at[n].stage \in 1 .. Len(Stages)
  BY MembersType DEF IInv
<1>3. k \in Nat /\ k # 0 /\ k > at[n].attempt
  BY <1>2
<1>4. PICK q : q = Start(k, 1)
  OBVIOUS
<1>5. q.round \in Dealing /\ q.attempt = k /\ Start(k, 1)' = q
  BY <1>4, NoSignatures DEF IInv, Start, Stages
<1>6. \A m \in shares : ~(m.from = n /\ m.at = q)
  BY <1>2, <1>3, <1>5 DEF IInv, HonestDeals, UpTo, Before
<1>7. shares' = shares \cup {[at |-> q, from |-> n, to |-> i, share |-> "good"] : i \in S}
  BY <1>4, <1>5 DEF Speaks
<1> DEFINE new(i) == [at |-> q, from |-> n, to |-> i, share |-> "good"]
           mine == {x \in shares' : x.from = n /\ x.at = q}
<1>8. \A i : new(i).at = q /\ new(i).from = n /\ new(i).to = i
  OBVIOUS
<1>9. shares' = shares \cup {new(i) : i \in S}
  BY <1>7
<1> HIDE DEF new
<1>10. \A i \in S : new(i) \in mine
  BY <1>8, <1>9
<1>11. \A x \in mine : \E i \in S : x = new(i)
  BY <1>6, <1>9
<1>12. {m.to : m \in mine} = S
  <2>1. \A i \in S : \E m \in mine : m.to = i
    BY <1>8, <1>10
  <2>2. \A m \in mine : m.to \in S
    BY <1>8, <1>11
  <2> HIDE DEF mine
  <2> QED
    BY <2>1, <2>2
<1> QED
  BY <1>3, <1>5, <1>12 DEF Members

LEMMA RestartsEffect ==
  ASSUME IInv, NEW n \in Honest, outcome[n] = "running", UNCHANGED plan, RestartsAfter(n)
  PROVE  \E B \in SUBSET committee[n], k \in Nat, S \in SUBSET Node :
           /\ k = at[n].attempt + 1 /\ S = committee[n] \ B /\ B # {} /\ n \in S
           /\ Decides(at[n], committee[n], active[n], B) /\ plan.restarts
           /\ committee'[n] = S /\ active'[n] = S /\ Members(n, k)' = S
           /\ at'[n] = Start(k, 1) /\ Pos(n)' = Start(k, 1) /\ outcome'[n] = "running"
           /\ \E w : said' = said \cup {Message(Start(k, 1), n, w, {})}
<1>1. /\ at \in [Honest -> Place] /\ active \in [Honest -> SUBSET Node]
      /\ committee \in [Honest -> SUBSET Node]
  BY DEF IInv, TypeOK
<1>2. PICK B \in SUBSET committee[n] :
        LET S == committee[n] \ B IN
        /\ B # {} /\ Decides(at[n], committee[n], active[n], B)
        /\ plan.restarts /\ n \in S /\ S \in SUBSET Node
        /\ committee' = [committee EXCEPT ![n] = S] /\ active' = [active EXCEPT ![n] = S]
        /\ Speaks(n, Start(at[n].attempt + 1, 1), {}, S)
        /\ UNCHANGED outcome
  BY DEF RestartsAfter
<1>3. PICK S : S = committee[n] \ B
  OBVIOUS
<1>4. PICK k : k = at[n].attempt + 1
  OBVIOUS
<1>5. k \in Nat /\ S \in SUBSET Node
  <2>1. at[n].attempt \in Nat /\ committee[n] \in SUBSET Node
    BY MembersType DEF IInv
  <2> QED
    BY <1>3, <1>4, <2>1
<1>6. Speaks(n, Start(k, 1), {}, S)
  BY <1>2, <1>3, <1>4
<1>7. Members(n, k)' = S
  BY <1>2, <1>4, <1>5, <1>6, NewMembers
<1>8. /\ at'[n] = Start(k, 1) /\ outcome'[n] = "running"
      /\ \E w : said' = said \cup {Message(Start(k, 1), n, w, {})}
  BY <1>1, <1>2, <1>6 DEF Speaks
<1>9. Pos(n)' = Start(k, 1)
  BY <1>8 DEF Pos
<1>10. committee'[n] = S /\ active'[n] = S
  BY <1>1, <1>2, <1>3
<1> QED
  BY <1>2, <1>3, <1>4, <1>5, <1>7, <1>8, <1>9, <1>10

(* A step is of an honest member, or of a faulty one that speaks.          *)
LEMMA NextShape ==
  ASSUME IInv, OnCourse, DefendHeard, Next
  PROVE  \/ UNCHANGED <<at, committee, active, outcome>>
         \/ \E n \in Honest : outcome[n] = "running"
              /\ (ClearsPlace(n) \/ Stays(n) \/ SignsOff(n) \/ RestartsAfter(n))
<1>1. ASSUME NEW f \in Faulty, NEW n \in Honest, Say(f, at[n]) \/ Give(f, at[n], n)
      PROVE  UNCHANGED <<at, committee, active, outcome>>
  BY <1>1 DEF Say, Give
<1>2. ASSUME NEW n \in Honest, Step(n) \/ Timeout(n)
      PROVE  outcome[n] = "running" /\ (ClearsPlace(n) \/ Stays(n) \/ SignsOff(n) \/ RestartsAfter(n))
  <2>1. UNCHANGED plan
    BY DEF Next
  <2> QED
    BY <1>2, <2>1, StepShape
<1> QED
  BY <1>1, <1>2 DEF Next

-----------------------------------------------------------------------------
(* The parts of the invariant but for agreement *)

LEMMA KeepsCommittee ==
  ASSUME IInv, Next, OnCourse, DefendHeard, CommitteeShown
  PROVE  CommitteeShown'
<1>0. UNCHANGED plan /\ TypeOK
  BY DEF Next, IInv
<1> SUFFICES ASSUME NEW o \in Honest
             PROVE  \E k : k = at'[o].attempt /\ committee'[o] = Members(o, k)'
  BY ZenonT(30) DEF CommitteeShown, Members, Start, Stages
<1>1. PICK k : k = at[o].attempt
  OBVIOUS
<1>2. k \in Nat /\ committee[o] = Members(o, k)
  BY <1>0, <1>1, MembersType DEF CommitteeShown
<1>3. Members(o, k)' = Members(o, k)
  BY <1>1, <1>2, MembersRigid
<1>4. CASE at'[o].attempt = at[o].attempt /\ committee'[o] = committee[o]
  BY <1>1, <1>2, <1>3, <1>4
<1>5. ASSUME NEW n \in Honest, outcome[n] = "running",
             ClearsPlace(n) \/ Stays(n) \/ SignsOff(n) \/ RestartsAfter(n)
      PROVE  \E x : x = at'[o].attempt /\ committee'[o] = Members(o, x)'
  <2>1. CASE o # n
    BY <1>0, <1>4, <1>5, <2>1, OthersStay
  <2>2. CASE o = n /\ ClearsPlace(n)
    BY <1>0, <1>4, <1>5, <2>2, ClearsEffect
  <2>3. CASE o = n /\ Stays(n)
    BY <1>0, <1>4, <1>5, <2>3, StaysEffect
  <2>4. CASE o = n /\ SignsOff(n)
    BY <1>0, <1>4, <1>5, <2>4, SignsOffEffect
  <2>5. CASE o = n /\ RestartsAfter(n)
    <3>1. PICK x \in Nat, S \in SUBSET Node :
            committee'[n] = S /\ Members(n, x)' = S /\ at'[n] = Start(x, 1)
      BY <1>0, <1>5, <2>5, RestartsEffect
    <3> QED
      BY <2>5, <3>1 DEF Start
  <2> QED
    BY <1>5, <2>1, <2>2, <2>3, <2>4, <2>5
<1> QED
  BY <1>4, <1>5, NextShape

LEMMA KeepsActive ==
  ASSUME IInv, Next, OnCourse, DefendHeard, HonestActive
  PROVE  HonestActive'
<1>0. UNCHANGED plan /\ TypeOK
  BY DEF Next, IInv
<1> SUFFICES ASSUME NEW o \in Honest
             PROVE  Honest \cap committee'[o] \subseteq active'[o]
  BY DEF HonestActive
<1>1. Honest \cap committee[o] \subseteq active[o]
  BY DEF HonestActive
<1>2. CASE committee'[o] = committee[o] /\ Honest \cap active[o] \subseteq active'[o]
  BY <1>1, <1>2
<1>3. ASSUME NEW n \in Honest, outcome[n] = "running",
             ClearsPlace(n) \/ Stays(n) \/ SignsOff(n) \/ RestartsAfter(n)
      PROVE  Honest \cap committee'[o] \subseteq active'[o]
  <2>1. CASE o # n
    BY <1>0, <1>2, <1>3, <2>1, OthersStay
  <2>2. CASE o = n /\ ClearsPlace(n)
    BY <1>0, <1>2, <1>3, <2>2, ClearsEffect
  <2>3. CASE o = n /\ Stays(n)
    BY <1>0, <1>2, <1>3, <2>3, StaysEffect
  <2>4. CASE o = n /\ SignsOff(n)
    BY <1>0, <1>2, <1>3, <2>4, SignsOffEffect
  <2>5. CASE o = n /\ RestartsAfter(n)
    BY <1>0, <1>3, <2>5, RestartsEffect
  <2> QED
    BY <1>3, <2>1, <2>2, <2>3, <2>4, <2>5
<1> QED
  BY <1>2, <1>3, NextShape

LEMMA KeepsFull ==
  ASSUME IInv, Next, OnCourse, DefendHeard, FullAtStart
  PROVE  FullAtStart'
<1>0. UNCHANGED plan /\ TypeOK
  BY DEF Next, IInv
<1>1. ASSUME NEW o \in Honest,
             \E p : p = Pos(o)' /\ p = Start(at'[o].attempt, 1)
      PROVE  active'[o] = committee'[o]
  <2>0. Stages[1] \in Dealing \cup Opening /\ 1 \in 1 .. Len(Stages)
    BY <1>0, StagesType
  <2>1. Start(at[o].attempt, 1).round # "end"
    BY <2>0 DEF Start, Dealing, Opening, Signing
  <2>2. CASE /\ Pos(o)' = Pos(o) /\ at'[o] = at[o]
             /\ committee'[o] = committee[o] /\ active'[o] = active[o]
    BY <1>1, <2>2 DEF FullAtStart
  <2>3. ASSUME NEW n \in Honest, outcome[n] = "running",
               ClearsPlace(n) \/ Stays(n) \/ SignsOff(n) \/ RestartsAfter(n)
        PROVE  active'[o] = committee'[o]
    <3>1. CASE o # n
      BY <1>0, <2>2, <2>3, <3>1, OthersStay
    <3>2. CASE o = n /\ ClearsPlace(n)
      <4>1. PICK q : /\ Pos(n)' = q /\ at'[n].attempt = at[n].attempt
                     /\ q = End(at[n].attempt) \/ (q \in Place /\ Before(at[n], q))
        BY <1>0, <2>3, <3>2, ClearsEffect
      <4>2. q = Start(at[n].attempt, 1)
        BY <1>1, <3>2, <4>1
      <4>3. q # End(at[n].attempt)
        BY <2>1, <3>2, <4>2 DEF End
      <4>4. ~ Before(at[n], Start(at[n].attempt, 1))
        <5>1. at[n].attempt \in Nat /\ at[n].stage \in 1 .. Len(Stages) /\ Len(Stages) \in Nat
          BY <1>0, MembersType, StagesType
        <5>2. Rank(Start(at[n].attempt, 1).round) = 0 /\ Rank(at[n].round) \in {0, 1, 2}
          BY <1>0, <2>0, <5>1, StagesType DEF Rank
        <5>3. Start(at[n].attempt, 1).attempt = at[n].attempt /\ Start(at[n].attempt, 1).stage = 1
          BY DEF Start
        <5> QED
          BY <5>1, <5>2, <5>3 DEF Before
      <4> QED
        BY <4>1, <4>2, <4>3, <4>4
    <3>3. CASE o = n /\ Stays(n)
      <4>1. Pos(n)' = Pos(n) /\ at' = at /\ committee' = committee /\ active' = active
        BY <1>0, <2>3, <3>3, StaysEffect
      <4> QED
        BY <2>2, <3>3, <4>1
    <3>4. CASE o = n /\ SignsOff(n)
      <4>1. Pos(n)' = End(at[n].attempt) /\ at' = at
        BY <1>0, <2>3, <3>4, SignsOffEffect
      <4> QED
        <5>1. End(at[o].attempt) = Start(at[o].attempt, 1)
          BY <1>1, <3>4, <4>1
        <5>2. End(at[o].attempt).round = "end"
          BY DEF End
        <5> QED
          BY <2>1, <5>1, <5>2
    <3>5. CASE o = n /\ RestartsAfter(n)
      BY <1>0, <2>3, <3>5, RestartsEffect
    <3> QED
      BY <2>3, <3>1, <3>2, <3>3, <3>4, <3>5
  <2>4. UNCHANGED <<at, committee, active, outcome>> => Pos(o)' = Pos(o)
    BY <1>0 DEF Pos, End, Stages
  <2> QED
    BY <2>2, <2>3, <2>4, NextShape
<1>2. ASSUME NEW o \in Honest, (Pos(o) = Start(at[o].attempt, 1))'
      PROVE  \E p : p = Pos(o)' /\ p = Start(at'[o].attempt, 1)
  BY <1>0, <1>2 DEF Start, Stages
<1> QED
  BY <1>1, <1>2 DEF FullAtStart

(* Who acts in a place other than the first of its attempt has left that.  *)
LEMMA LeftByActor ==
  ASSUME IInv, NEW n \in Honest, at[n] # Start(at[n].attempt, 1)
  PROVE  LeftStart(n, at[n].attempt)
<1>1. PICK m \in said : m.at = at[n] /\ m.from = n
  BY DEF IInv, Present, Spoke
<1> QED
  BY <1>1 DEF LeftStart

(* Who is ready in a place has heard its honest fellow members there.      *)
LEMMA ReadyHears ==
  ASSUME TypeOK, HonestActive, NEW n \in Honest, Ready(at[n], committee[n], active[n])
  PROVE  \A i \in Honest \cap committee[n] : Spoke(at[n], i)
BY HeardIs DEF Ready, HonestActive

LEMMA KeepsStart ==
  ASSUME IInv, Next, OnCourse, DefendHeard, CommitteeShown, HonestActive, StartHeard
  PROVE  StartHeard'
<1>0. UNCHANGED plan /\ TypeOK /\ said \subseteq said'
  BY SaidGrows DEF Next, IInv
<1> SUFFICES ASSUME NEW o \in Honest, NEW k \in Nat, LeftStart(o, k)'
             PROVE  (\A i \in Honest \cap Members(o, k) : Spoke(Start(k, 1), i))'
  BY DEF StartHeard
<1>1. at[o] \in Place /\ at[o].attempt \in Nat
  BY <1>0, MembersType
<1>2. PICK p : p = Start(k, 1)
  OBVIOUS
<1>3. p = Start(k, 1)'
  BY <1>0, <1>2 DEF Start, Stages
<1>4. ASSUME k <= at[o].attempt, \A i \in Honest \cap Members(o, k) : Spoke(Start(k, 1), i)
      PROVE  (\A i \in Honest \cap Members(o, k) : Spoke(Start(k, 1), i))'
  <2>1. Members(o, k)' = Members(o, k)
    BY <1>4, MembersRigid
  <2>2. \A i : Spoke(p, i) => Spoke(p, i)'
    BY <1>0 DEF Spoke
  <2>3. \A i \in Honest \cap Members(o, k)' : Spoke(p, i)'
    BY <1>2, <1>4, <2>1, <2>2
  <2> QED
    BY <1>3, <2>3 DEF Spoke
<1>5. CASE LeftStart(o, k)
  <2>1. k <= at[o].attempt
    <3>1. CASE \E m \in said : m.from = o /\ m.at.attempt = k /\ m.at # Start(k, 1)
      <4>1. PICK m \in said : m.from = o /\ m.at.attempt = k
        BY <3>1
      <4>2. UpTo(m.at, at[o])
        BY <4>1 DEF IInv, HonestSays
      <4> QED
        BY <1>1, <4>1, <4>2 DEF UpTo, Before
    <3> QED
      BY <1>1, <1>5, <3>1 DEF LeftStart
  <2>2. \A i \in Honest \cap Members(o, k) : Spoke(Start(k, 1), i)
    BY <1>5 DEF StartHeard
  <2> QED
    BY <1>4, <2>1, <2>2
<1>6. ASSUME ~ LeftStart(o, k), at[o].attempt = k, Ready(at[o], committee[o], active[o])
      PROVE  (\A i \in Honest \cap Members(o, k) : Spoke(Start(k, 1), i))'
  <2>1. at[o] = Start(k, 1)
    BY <1>6, LeftByActor
  <2>2. committee[o] = Members(o, k)
    BY <1>6 DEF CommitteeShown
  <2>3. \A i \in Honest \cap Members(o, k) : Spoke(Start(k, 1), i)
    BY <1>0, <1>6, <2>1, <2>2, ReadyHears
  <2> QED
    BY <1>1, <1>4, <1>6, <2>3
<1>7. CASE ~ LeftStart(o, k)
  <2>1. \A m \in said : m.from = o /\ m.at.attempt = k => m.at = p
    BY <1>2, <1>7 DEF LeftStart
  <2>2. ~(at[o].attempt > k) /\ ~(plan.restarts /\ at[o].attempt = k /\ outcome[o] = "output")
    BY <1>7 DEF LeftStart
  <2>3. \/ at'[o].attempt > k
        \/ \E m \in said' \ said : m.from = o /\ m.at.attempt = k /\ m.at # p
        \/ plan.restarts /\ at'[o].attempt = k /\ outcome'[o] = "output"
    BY <1>0, <1>3, <2>1 DEF LeftStart
  <2>4. CASE UNCHANGED <<at, committee, active, outcome>>
    <3>1. PICK m \in said' \ said : m.from = o /\ m.at.attempt = k /\ m.at # p
      BY <2>2, <2>3, <2>4
    <3>2. Before(at[o], m.at)
      BY <3>1, NextAdds DEF Added
    <3>3. MessagesInv'
      BY NextInv, MessagesHold DEF IInv, MessagesInv, TypeOK
    <3>4. UpTo(m.at, at[o])
      BY <2>4, <3>1, <3>3 DEF MessagesInv, HonestSays
    <3>5. m.at \in Place
      BY <1>0, <3>1, <3>3 DEF MessagesInv, Place, Stages
    <3> QED
      BY <1>1, <3>2, <3>4, <3>5, BeforeIsOrder
  <2>5. ASSUME NEW n \in Honest, outcome[n] = "running",
               ClearsPlace(n) \/ Stays(n) \/ SignsOff(n) \/ RestartsAfter(n)
        PROVE  at[o].attempt = k /\ Ready(at[o], committee[o], active[o])
    <3>1. CASE o # n
      <4>1. at'[o] = at[o] /\ outcome'[o] = outcome[o]
        BY <1>0, <2>5, <3>1, OthersStay
      <4>2. said' = said \/ \E m : m.from = n /\ said' = said \cup {m}
        <5>1. CASE ClearsPlace(n)
          BY <1>0, <2>5, <5>1, ClearsEffect DEF Message
        <5>2. CASE Stays(n) \/ SignsOff(n)
          BY <1>0, <2>5, <5>2, StaysEffect, SignsOffEffect
        <5>3. CASE RestartsAfter(n)
          BY <1>0, <2>5, <5>3, RestartsEffect DEF Message
        <5> QED
          BY <2>5, <5>1, <5>2, <5>3
      <4> QED
        BY <2>2, <2>3, <3>1, <4>1, <4>2
    <3>2. CASE o = n /\ ClearsPlace(n)
      <4>1. PICK q, R : /\ Clears(at[n], committee[n], active[n], q, R)
                        /\ q.attempt = at[n].attempt /\ at'[n].attempt = at[n].attempt
                        /\ \/ outcome'[n] = "output" /\ said' = said
                           \/ \E m : m.at = q /\ said' = said \cup {m}
        BY <1>0, <2>5, <3>2, ClearsEffect DEF Message
      <4>2. Ready(at[o], committee[o], active[o])
        BY <3>2, <4>1 DEF Clears
      <4>3. at[o].attempt = k
        BY <2>2, <2>3, <3>2, <4>1
      <4> QED
        BY <4>2, <4>3
    <3>3. CASE o = n /\ Stays(n)
      BY <1>0, <2>2, <2>3, <2>5, <3>3, StaysEffect
    <3>4. CASE o = n /\ SignsOff(n)
      BY <1>0, <2>2, <2>3, <2>5, <3>4, SignsOffEffect
    <3>5. CASE o = n /\ RestartsAfter(n)
      <4>1. PICK x \in Nat : /\ x = at[n].attempt + 1 /\ at'[n] = Start(x, 1)
                             /\ outcome'[n] = "running"
                             /\ \E B : Decides(at[n], committee[n], active[n], B)
                             /\ \E w : said' = said \cup {Message(Start(x, 1), n, w, {})}
        BY <1>0, <2>5, <3>5, RestartsEffect
      <4>2. at'[o].attempt = at[o].attempt + 1
        BY <3>5, <4>1 DEF Start
      <4>3. at[o].attempt = k
        <5>1. CASE at'[o].attempt > k
          BY <1>1, <2>2, <4>2, <5>1
        <5>2. CASE \E m \in said' \ said : m.at.attempt = k /\ m.at # p
          <6>1. PICK w : said' = said \cup {Message(Start(x, 1), n, w, {})}
            BY <4>1
          <6>2. Message(Start(x, 1), n, w, {}).at = Start(x, 1) /\ Start(x, 1).attempt = x
            BY DEF Message, Start
          <6>3. x = k /\ Start(x, 1) # p
            BY <5>2, <6>1, <6>2
          <6> QED
            BY <1>2, <6>3
        <5> QED
          BY <2>3, <3>5, <4>1, <5>1, <5>2
      <4> QED
        BY <3>5, <4>1, <4>3 DEF Decides
    <3> QED
      BY <2>5, <3>1, <3>2, <3>3, <3>4, <3>5
  <2> QED
    BY <1>6, <1>7, <2>4, <2>5, NextShape
<1> QED
  BY <1>5, <1>7

LEMMA KeepsCourse ==
  ASSUME IInv, Next, OnCourse, DefendHeard
  PROVE  OnCourse' /\ DefendHeard'
<1>0. UNCHANGED plan /\ TypeOK /\ said \subseteq said'
  BY SaidGrows DEF Next, IInv
<1>1. \A o \in Honest : at[o].round \in RoundsOf(Stages[at[o].stage]) /\ (at[o].attempt = 0 \/ plan.restarts)
  BY DEF OnCourse
<1>2. \A o \in Honest : at[o].round = "defend" => Heard([at[o] EXCEPT !.round = "complain"], committee[o])
  BY DEF DefendHeard
<1>3. ASSUME NEW o \in Honest
      PROVE  /\ at'[o].round \in RoundsOf(Stages[at'[o].stage])
             /\ at'[o].attempt = 0 \/ plan.restarts
             /\ \E p, ids : p = at'[o] /\ ids = committee'[o]
                  /\ (p.round = "defend" => Heard([p EXCEPT !.round = "complain"], ids)')
  <2>0. \A p, ids : Heard(p, ids) => Heard(p, ids)'
    BY <1>0 DEF Heard
  <2>1. CASE at'[o] = at[o] /\ committee'[o] = committee[o]
    <3>1. PICK p, ids : p = at[o] /\ ids = committee[o]
      OBVIOUS
    <3>2. p.round = "defend" => Heard([p EXCEPT !.round = "complain"], ids)
      BY <1>2, <3>1
    <3>3. p.round = "defend" => Heard([p EXCEPT !.round = "complain"], ids)'
      BY <2>0, <3>2
    <3> QED
      BY <1>1, <2>1, <3>1, <3>3
  <2>2. ASSUME NEW n \in Honest, outcome[n] = "running",
               ClearsPlace(n) \/ Stays(n) \/ SignsOff(n) \/ RestartsAfter(n),
               o = n
        PROVE  /\ at'[o].round \in RoundsOf(Stages[at'[o].stage])
               /\ at'[o].attempt = 0 \/ plan.restarts
               /\ \E p, ids : p = at'[o] /\ ids = committee'[o]
                    /\ (p.round = "defend" => Heard([p EXCEPT !.round = "complain"], ids)')
    <3>1. CASE Stays(n) \/ SignsOff(n)
      BY <1>0, <2>1, <2>2, <3>1, StaysEffect, SignsOffEffect
    <3>2. CASE RestartsAfter(n)
      <4>1. PICK x \in Nat : at'[n] = Start(x, 1) /\ plan.restarts
        BY <1>0, <2>2, <3>2, RestartsEffect
      <4>2. Start(x, 1).round # "defend"
        BY <1>0, <4>1, NoSignatures DEF Start, Dealing
      <4> QED
        BY <2>2, <4>1, <4>2, StartOnCourse
    <3>3. CASE ClearsPlace(n)
      <4>1. PICK q, R : /\ Clears(at[n], committee[n], active[n], q, R)
                        /\ committee' = committee /\ at'[n].attempt = at[n].attempt
                        /\ \/ at'[n] = at[n]
                           \/ q \in Place /\ at'[n] = q /\ q.round \in RoundsOf(Stages[q.stage])
        BY <1>0, <2>2, <3>3, ClearsEffect
      <4>2. CASE at'[n] = at[n]
        BY <2>1, <2>2, <4>1, <4>2
      <4>3. CASE q \in Place /\ at'[n] = q /\ q.round \in RoundsOf(Stages[q.stage])
        <5>1. PICK p, ids, act : p = at[n] /\ ids = committee[n] /\ act = active[n]
          OBVIOUS
        <5>2. p \in Place /\ Clears(p, ids, act, q, R)
          BY <1>0, <4>1, <5>1, MembersType
        <5>3. ASSUME q.round = "defend"
              PROVE  Heard([q EXCEPT !.round = "complain"], ids)
          <6>1. After(p).round # "defend"
            <7>1. CASE p.stage = Len(Stages)
              BY <7>1 DEF After, End
            <7>2. CASE p.stage # Len(Stages)
              <8>1. p.stage \in 1 .. Len(Stages) /\ Len(Stages) \in Nat
                BY <1>0, <5>2, StagesType DEF Place
              <8>2. p.stage + 1 \in 1 .. Len(Stages)
                BY <7>2, <8>1
              <8>3. Stages[p.stage + 1] # "defend"
                BY <1>0, <8>2, StagesType DEF Dealing, Opening, Signing
              <8> QED
                BY <7>2, <8>3 DEF After, Start
            <7> QED
              BY <7>1, <7>2
          <6>2. /\ [p EXCEPT !.round = "supply"].round # "defend"
                /\ [p EXCEPT !.round = "complain"].round # "defend"
                /\ [p EXCEPT !.round = "request"].round # "defend"
            BY <5>2 DEF Place
          <6>3. p.round = "complain" /\ q = [p EXCEPT !.round = "defend"] /\ Ready(p, ids, act)
            BY <5>2, <5>3, <6>1, <6>2 DEF Clears
          <6>4. [q EXCEPT !.round = "complain"] = p
            BY <5>2, <6>3 DEF Place
          <6>5. Heard(p, ids)
            BY <6>3 DEF Ready, Opening, Signing
          <6> QED
            BY <6>4, <6>5
        <5>4. q.round = "defend" => Heard([q EXCEPT !.round = "complain"], ids)'
          BY <2>0, <5>3
        <5>5. at'[o] = q /\ committee'[o] = ids
          BY <2>2, <4>1, <4>3, <5>1
        <5> QED
          BY <1>1, <2>2, <4>1, <4>3, <5>4, <5>5
      <4> QED
        BY <4>1, <4>2, <4>3
    <3> QED
      BY <2>2, <3>1, <3>2, <3>3
  <2> QED
    BY <1>0, <2>1, <2>2, NextShape, OthersStay
<1>4. \A s : Stages' = Stages
  BY <1>0 DEF Stages
<1>5. OnCourse'
  BY <1>0, <1>3, <1>4 DEF OnCourse
<1>6. DefendHeard'
  <2> SUFFICES ASSUME NEW o \in Honest, at'[o].round = "defend"
               PROVE  Heard([at[o] EXCEPT !.round = "complain"], committee[o])'
    BY DEF DefendHeard
  <2>1. PICK p, ids : /\ p = at'[o] /\ ids = committee'[o]
                      /\ p.round = "defend" => Heard([p EXCEPT !.round = "complain"], ids)'
    BY <1>3
  <2>2. PICK c : c = [p EXCEPT !.round = "complain"]
    OBVIOUS
  <2>3. Heard(c, ids)' /\ c = [at'[o] EXCEPT !.round = "complain"]
    BY <2>1, <2>2
  <2> QED
    BY <2>1, <2>3 DEF Heard
<1> QED
  BY <1>5, <1>6

-----------------------------------------------------------------------------
(* Two honest members *)

LEMMA PosIs ==
  ASSUME TypeOK, NEW n \in Honest
  PROVE  /\ Pos(n).attempt = at[n].attempt
         /\ at[n].round # "end"
         /\ Pos(n).round # "end" => Pos(n) = at[n] /\ outcome[n] # "output" /\ Pos(n) \in Place
         /\ Pos(n).round = "end" => outcome[n] = "output" /\ Pos(n) = End(at[n].attempt)
<1>1. at[n] \in Place /\ at[n].round # "end"
  BY MembersType DEF Place, Dealing, Opening, Signing
<1> QED
  BY <1>1 DEF Pos, End

LEMMA ClearsAhead ==
  ASSUME TypeOK, NEW p, NEW ids, NEW act, NEW q, NEW R, Clears(p, ids, act, q, R)
  PROVE  /\ p.round # "end"
         /\ p \in Place /\ q \in Place => Before(p, q)
<1>1. p.round # "end"
  BY DEF Clears, Dealing, Opening, Signing
<1>2. ASSUME p \in Place, q \in Place
      PROVE  Before(p, q)
  <2>1. CASE q = After(p)
    <3>1. q # End(p.attempt)
      BY <1>2 DEF End, Place, Dealing, Opening, Signing
    <3>2. q = Start(p.attempt, p.stage + 1) /\ p.stage \in Int
      BY <1>2, <2>1, <3>1 DEF After, Place
    <3> QED
      BY <3>2 DEF Before, Start
  <2>2. CASE p.round \in Dealing /\ q = [p EXCEPT !.round = IF p.round = "deal" THEN "complain" ELSE "request"]
    <3>1. q.round \in {"complain", "request"} /\ q.attempt = p.attempt /\ q.stage = p.stage
      BY <1>2, <2>2 DEF Place
    <3>2. Rank(q.round) = 1 /\ Rank(p.round) = 0
      BY <2>2, <3>1 DEF Rank, Dealing
    <3> QED
      BY <3>1, <3>2 DEF Before
  <2>3. CASE p.round = "complain" /\ q = [p EXCEPT !.round = "defend"]
    <3>1. q.round = "defend" /\ q.attempt = p.attempt /\ q.stage = p.stage
      BY <1>2, <2>3 DEF Place
    <3> QED
      BY <2>3, <3>1 DEF Before, Rank
  <2>4. CASE p.round = "request" /\ q = [p EXCEPT !.round = "supply"]
    <3>1. q.round = "supply" /\ q.attempt = p.attempt /\ q.stage = p.stage
      BY <1>2, <2>4 DEF Place
    <3> QED
      BY <2>4, <3>1 DEF Before, Rank
  <2> QED
    BY <2>1, <2>2, <2>3, <2>4 DEF Clears
<1> QED
  BY <1>1, <1>2

(* What two members know of each other stays, while they stay.             *)
LEMMA TogetherStays ==
  ASSUME IInv, IInv', Next, NEW p, NEW q, NEW ids \in SUBSET Node,
         NEW act \in SUBSET ids, NEW rest \in SUBSET ids,
         p \in Place \/ p.round = "end", q \in Place \/ q.round = "end",
         TogetherAt(p, act, q, rest, ids)
  PROVE  TogetherAt(p, act, q, rest, ids)'
<1>1. \A x : Signed(x) => Signed(x)'
  BY DEF Next, Signed, Stages
<1>2. ASSUME Clears(p, ids, act, q, rest)
      PROVE  Clears(p, ids, act, q, rest)'
  <2>1. p \in Place /\ Ready(p, ids, act)
    BY <1>2, ClearsAhead DEF Clears, IInv
  <2> QED
    BY <1>2, <2>1, VerdictRigid
<1>3. ASSUME Clears(q, ids, rest, p, act)
      PROVE  Clears(q, ids, rest, p, act)'
  <2>1. q \in Place /\ Ready(q, ids, rest)
    BY <1>3, ClearsAhead DEF Clears, IInv
  <2> QED
    BY <1>3, <2>1, VerdictRigid
<1> QED
  BY <1>1, <1>2, <1>3 DEF TogetherAt

LEMMA LeftStays ==
  ASSUME IInv, IInv', Next, NEW p \in Place, NEW ids \in SUBSET Node, NEW act \in SUBSET ids,
         NEW o \in Honest, p.attempt < at[o].attempt, LeftAt(p, ids, act, o)
  PROVE  LeftAt(p, ids, act, o)'
<1>1. PICK k : k = p.attempt
  OBVIOUS
<1>2. k \in Nat /\ k + 1 \in Nat /\ at[o].attempt \in Nat
  <2>1. p.attempt \in Nat
    BY DEF Place
  <2>2. at[o].attempt \in Nat
    BY MembersType DEF IInv
  <2> QED
    BY <1>1, <2>1, <2>2
<1>3. Members(o, k)' = Members(o, k) /\ Members(o, k + 1)' = Members(o, k + 1)
  <2>1. k <= at[o].attempt /\ k + 1 <= at[o].attempt
    BY <1>1, <1>2
  <2> QED
    BY <1>2, <2>1, MembersRigid
<1>4. \A m \in said' : m.from = o /\ m.at.attempt = k => m \in said
  <2>1. ASSUME NEW m \in said' \ said, m.from = o, m.at.attempt = k
        PROVE  FALSE
    <3>1. Before(at[o], m.at)
      BY <2>1, NextAdds DEF Added
    <3> QED
      BY <1>1, <1>2, <2>1, <3>1 DEF Before
  <2> QED
    BY <2>1
<1>5. ids = Members(o, k)' /\ o \in ids /\ plan.restarts'
  BY <1>1, <1>3 DEF LeftAt, Next
<1>6. CASE ~ Spoke(p, o)
  <2>1. ~ Spoke(p, o)'
    BY <1>1, <1>4, <1>6 DEF Spoke
  <2> QED
    BY <1>1, <1>5, <2>1 DEF LeftAt
<1>7. CASE /\ \A m \in said : m.from = o /\ m.at.attempt = p.attempt => UpTo(m.at, p)
           /\ \E B \in SUBSET ids :
                Decides(p, ids, act, B) /\ Members(o, p.attempt + 1) = ids \ B
  <2>1. PICK B \in SUBSET ids : Decides(p, ids, act, B) /\ Members(o, k + 1) = ids \ B
    BY <1>1, <1>7
  <2>2. Ready(p, ids, act) /\ B \in SUBSET Node
    BY <2>1 DEF Decides
  <2>3. Decides(p, ids, act, B)'
    BY <2>1, <2>2, VerdictRigid
  <2>4. \A m \in said' : m.from = o /\ m.at.attempt = k => UpTo(m.at, p)
    BY <1>1, <1>4, <1>7
  <2>5. Members(o, k + 1)' = ids \ B
    BY <1>3, <2>1
  <2> QED
    BY <1>1, <1>5, <2>3, <2>4, <2>5 DEF LeftAt
<1> QED
  BY <1>6, <1>7 DEF LeftAt

(* Who can go on from a place has heard the other there, in its attempt.   *)
LEMMA HeardInPlace ==
  ASSUME IInv, HonestActive, NEW a \in Honest, NEW o \in Honest, o \in committee[a],
         Ready(at[a], committee[a], active[a])
  PROVE  Spoke(at[a], o) /\ UpTo(at[a], at[o])
<1>1. Spoke(at[a], o)
  BY ReadyHears DEF IInv
<1>2. UpTo(at[a], at[o])
  BY <1>1, HonestWord DEF IInv
<1> QED
  BY <1>1, <1>2

(* Who is behind in an attempt keeps the others where they are.            *)
LEMMA NotAhead ==
  ASSUME IInv, HonestActive, NEW a \in Honest, NEW o \in Honest, committee[a] = committee[o],
         Ready(at[a], committee[a], active[a])
  PROVE  ~ Clears(Pos(o), committee[a], active[o], at[a], active[a])
<1> SUFFICES ASSUME Clears(Pos(o), committee[a], active[o], at[a], active[a]) PROVE FALSE
  OBVIOUS
<1>1. Pos(o) = at[o] /\ at[o] \in Place /\ at[a] \in Place
  BY ClearsAhead, PosIs, MembersType DEF IInv
<1>2. Before(at[o], at[a])
  BY <1>1, ClearsAhead DEF IInv
<1>3. UpTo(at[a], at[o])
  BY HeardInPlace, MembersType DEF IInv
<1> QED
  BY <1>1, <1>2, <1>3, BeforeIsOrder

(* a clears its place; o is in the same attempt.                           *)
LEMMA ClearsTogether ==
  ASSUME IInv, IInv', Next, HonestActive, NEW a \in Honest, NEW o \in Honest,
         outcome[a] = "running", Together(a, o),
         NEW q, NEW R \in SUBSET active[a], Clears(at[a], committee[a], active[a], q, R),
         NEW ids, ids = committee[a], NEW x, x = Pos(o), NEW y, y = active[o]
  PROVE  TogetherAt(q, R, x, y, ids)'
<1>1. PICK p, act : p = at[a] /\ act = active[a]
  OBVIOUS
<1>2. /\ p \in Place /\ p.round # "end" /\ Pos(a) = p /\ ids = committee[o]
      /\ ids \in SUBSET Node /\ act \in SUBSET ids /\ y \in SUBSET ids
  BY <1>1, MembersType, PosIs DEF IInv, Together, Pos
<1>3. Clears(p, ids, act, q, R) /\ Ready(p, ids, act)
  BY <1>1 DEF Clears
<1>4. TogetherAt(p, act, x, y, ids)
  BY <1>1, <1>2 DEF Together
<1>5. Clears(p, ids, act, q, R)'
  BY <1>2, <1>3, VerdictRigid
<1>6. CASE Signed(x)
  BY <1>6 DEF TogetherAt, Signed, Next, Stages
<1>7. CASE p = x /\ act = y
  BY <1>5, <1>7 DEF TogetherAt
<1>8. CASE Clears(p, ids, act, x, y)
  BY <1>2, <1>3, <1>8, OneVerdict DEF TogetherAt
<1>9. ~ Clears(x, ids, y, p, act)
  BY <1>1, <1>2, <1>3, NotAhead
<1>10. ~ Signed(p)
  BY <1>2 DEF Signed
<1> QED
  BY <1>4, <1>6, <1>7, <1>8, <1>9, <1>10 DEF TogetherAt

(* a clears its place; o has left the attempt.                             *)
LEMMA ClearsLeft ==
  ASSUME IInv, IInv', Next, HonestActive, NEW a \in Honest, NEW o \in Honest,
         at[a].attempt < at[o].attempt, Left(a, o),
         NEW q, NEW R \in SUBSET active[a], Clears(at[a], committee[a], active[a], q, R),
         q \in Place \/ q.round = "end", q.attempt = at[a].attempt,
         NEW ids, ids = committee[a]
  PROVE  q \in Place /\ LeftAt(q, ids, R, o)'
<1>1. PICK p, act : p = at[a] /\ act = active[a]
  OBVIOUS
<1>2. /\ p \in Place /\ ids \in SUBSET Node /\ act \in SUBSET ids /\ p.attempt \in Nat
      /\ at[o].attempt \in Nat /\ p.attempt < at[o].attempt
  BY <1>1, MembersType DEF IInv
<1>3. LeftAt(p, ids, act, o)
  BY <1>1 DEF Left
<1>4. Clears(p, ids, act, q, R) /\ Ready(p, ids, act)
  BY <1>1 DEF Clears
<1>5. o \in ids /\ Spoke(p, o)
  BY <1>1, <1>3, <1>4, HeardInPlace DEF LeftAt
<1>6. PICK B \in SUBSET ids : Decides(p, ids, act, B)
  BY <1>3, <1>5 DEF LeftAt
<1>7. \A m \in said : m.from = o /\ m.at.attempt = p.attempt => UpTo(m.at, p)
  BY <1>3, <1>5 DEF LeftAt
<1>8. q.round # "end"
  BY <1>2, <1>4, <1>6, OneVerdict
<1>9. q \in Place /\ Before(p, q) /\ q.attempt = p.attempt
  BY <1>1, <1>2, <1>4, <1>8, ClearsAhead DEF IInv
<1>10. ~ Spoke(q, o)'
  <2>1. \A m \in said' \ said : m.from = o => m.at # q
    <3>1. ASSUME NEW m \in said' \ said, m.from = o, m.at = q PROVE FALSE
      <4>1. Before(at[o], q)
        BY <3>1, NextAdds DEF Added
      <4> QED
        BY <1>2, <1>9, <4>1 DEF Before
    <3> QED
      BY <3>1
  <2>2. \A m \in said : m.from = o => m.at # q
    <3>1. ~ UpTo(q, p)
      BY <1>2, <1>9, BeforeIsOrder
    <3> QED
      BY <1>7, <1>9, <3>1
  <2> QED
    BY <2>1, <2>2 DEF Spoke
<1>11. ids = Members(o, q.attempt)'
  <2>1. ids = Members(o, p.attempt)
    BY <1>3 DEF LeftAt
  <2>2. PICK k : k = p.attempt
    OBVIOUS
  <2>3. Members(o, k)' = Members(o, k)
    BY <1>2, <2>2, MembersRigid
  <2> QED
    BY <1>9, <2>1, <2>2, <2>3
<1>12. plan.restarts'
  BY <1>3 DEF LeftAt, Next
<1> QED
  BY <1>5, <1>9, <1>10, <1>11, <1>12 DEF LeftAt

(* a restarts; o is in the attempt that a leaves.                          *)
LEMMA RestartsLeft ==
  ASSUME IInv, IInv', Next, CommitteeShown, HonestActive, NEW a \in Honest, NEW o \in Honest,
         outcome[a] = "running", at[a].attempt = at[o].attempt, Together(a, o), plan.restarts,
         NEW B \in SUBSET committee[a], Decides(at[a], committee[a], active[a], B),
         NEW k \in Nat, k = at[a].attempt + 1, Members(a, k)' = committee[a] \ B,
         NEW w, said' = said \cup {Message(Start(k, 1), a, w, {})},
         NEW ids, ids = committee[o], NEW x, x = at[o], NEW y, y = active[o]
  PROVE  outcome[o] # "output" /\ LeftAt(x, ids, y, a)'
<1>1. PICK p, act : p = at[a] /\ act = active[a]
  OBVIOUS
<1>2. /\ p \in Place /\ p.round # "end" /\ Pos(a) = p /\ ids = committee[a] /\ a \in ids
      /\ ids \in SUBSET Node /\ act \in SUBSET ids /\ p.attempt \in Nat
      /\ x \in Place /\ x.attempt = p.attempt
  BY <1>1, MembersType, PosIs DEF IInv, Together, Pos
<1>3. Decides(p, ids, act, B) /\ Ready(p, ids, act)
  BY <1>1, <1>2 DEF Decides
<1>4. TogetherAt(p, act, Pos(o), y, ids)
  BY <1>1, <1>2 DEF Together
<1>5. ids = Members(a, p.attempt)'
  <2>1. PICK j : j = p.attempt
    OBVIOUS
  <2>2. Members(a, j)' = Members(a, j)
    BY <1>1, <1>2, <2>1, MembersRigid
  <2> QED
    BY <1>1, <1>2, <2>1, <2>2 DEF CommitteeShown
<1>6. plan.restarts'
  BY DEF Next
<1>7. \A m \in said' : m.from = a /\ m.at.attempt = p.attempt => m \in said /\ UpTo(m.at, p)
  <2>1. Message(Start(k, 1), a, w, {}).at.attempt = k
    BY DEF Message, Start
  <2>2. k # p.attempt
    BY <1>1, <1>2
  <2> QED
    BY <1>1, <2>1, <2>2 DEF IInv, HonestSays
<1>8. ~ Signed(p) /\ ~ Signed(Pos(o))
  BY NoSignatures DEF IInv
<1>9. ~ Clears(Pos(o), ids, y, p, act)
  BY <1>1, <1>2, <1>3, NotAhead
<1>10. CASE p = Pos(o) /\ act = y
  <2>1. x = p /\ outcome[o] # "output"
    BY <1>2, <1>10, PosIs DEF IInv
  <2>2. Decides(p, ids, act, B)'
    BY <1>2, <1>3, VerdictRigid
  <2>3. Members(a, p.attempt + 1)' = ids \ B
    BY <1>1, <1>2
  <2> QED
    BY <1>2, <1>5, <1>6, <1>7, <1>10, <2>1, <2>2, <2>3 DEF LeftAt
<1>11. CASE Clears(p, ids, act, Pos(o), y)
  <2>1. Pos(o).round # "end"
    BY <1>2, <1>3, <1>11, OneVerdict
  <2>2. Pos(o) = x /\ outcome[o] # "output"
    BY <2>1, PosIs DEF IInv
  <2>3. Before(p, x)
    BY <1>2, <1>11, <2>2, ClearsAhead DEF IInv
  <2>4. ~ UpTo(x, p)
    BY <1>2, <2>3, BeforeIsOrder
  <2>5. ~ Spoke(x, a)'
    BY <1>2, <1>7, <2>4 DEF Spoke
  <2> QED
    BY <1>2, <1>5, <1>6, <2>2, <2>5 DEF LeftAt
<1> QED
  BY <1>4, <1>8, <1>9, <1>10, <1>11 DEF TogetherAt

(* a restarts; o has left that attempt, and is where a goes.               *)
LEMMA RestartsTogether ==
  ASSUME IInv, CommitteeShown, HonestActive, FullAtStart, StartHeard, LoneMisdealers,
         NEW a \in Honest, NEW o \in Honest,
         at[a].attempt < at[o].attempt, Left(a, o),
         NEW B \in SUBSET committee[a], Decides(at[a], committee[a], active[a], B),
         NEW k \in Nat, k = at[a].attempt + 1, a \in committee[a] \ B
  PROVE  /\ at[o].attempt = k /\ Pos(o) = Start(k, 1)
         /\ committee[o] = committee[a] \ B /\ active[o] = committee[a] \ B
<1>1. PICK p, act, ids : p = at[a] /\ act = active[a] /\ ids = committee[a]
  OBVIOUS
<1>2. /\ p \in Place /\ ids \in SUBSET Node /\ act \in SUBSET ids /\ p.attempt \in Nat
      /\ at[o].attempt \in Nat /\ p.attempt < at[o].attempt
  BY <1>1, MembersType DEF IInv
<1>3. LeftAt(p, ids, act, o)
  BY <1>1 DEF Left
<1>4. Decides(p, ids, act, B) /\ Ready(p, ids, act)
  BY <1>1 DEF Decides
<1>5. o \in ids /\ Spoke(p, o)
  BY <1>1, <1>3, <1>4, HeardInPlace DEF LeftAt
<1>6. PICK C \in SUBSET ids : Decides(p, ids, act, C) /\ Members(o, p.attempt + 1) = ids \ C
  BY <1>3, <1>5 DEF LeftAt
<1>7. C = B
  BY <1>2, <1>4, <1>6, OneVerdict
<1>8. Members(o, k) = ids \ B /\ k > p.attempt
  BY <1>1, <1>2, <1>6, <1>7
<1>9. ~ LeftStart(o, k)
  <2>1. SUFFICES ASSUME LeftStart(o, k) PROVE FALSE
    OBVIOUS
  <2>2. Spoke(Start(k, 1), a)
    BY <1>1, <1>8, <2>1 DEF StartHeard
  <2>3. UpTo(Start(k, 1), at[a])
    BY <2>2, HonestWord DEF IInv
  <2> QED
    BY <1>1, <1>2, <1>8, <2>3 DEF UpTo, Before, Start
<1>10. at[o].attempt = k
  BY <1>1, <1>2, <1>9 DEF LeftStart
<1>11. at[o] = Start(k, 1)
  BY <1>9, <1>10, LeftByActor
<1>12. outcome[o] # "output"
  BY <1>3, <1>9, <1>10 DEF LeftStart, LeftAt
<1>13. Pos(o) = Start(k, 1)
  BY <1>11, <1>12 DEF Pos
<1>14. committee[o] = ids \ B
  BY <1>8, <1>10 DEF CommitteeShown
<1>15. active[o] = committee[o]
  BY <1>10, <1>13 DEF FullAtStart
<1> QED
  BY <1>1, <1>10, <1>13, <1>14, <1>15

(* Together and Left after a step, about what the members are then.        *)
TogetherNext(n, o) ==
  /\ committee'[n] = committee'[o]
  /\ \E p, act, q, rest, ids :
       /\ p = Pos(n)' /\ act = active'[n] /\ q = Pos(o)' /\ rest = active'[o] /\ ids = committee'[n]
       /\ TogetherAt(p, act, q, rest, ids)'

LeftNext(n, o) ==
  /\ outcome'[n] # "output"
  /\ \E p, ids, act :
       p = at'[n] /\ ids = committee'[n] /\ act = active'[n] /\ LeftAt(p, ids, act, o)'

AgreesNext(n, o) ==
  /\ at'[n].attempt = at'[o].attempt => TogetherNext(n, o)
  /\ at'[n].attempt < at'[o].attempt => LeftNext(n, o)

Agrees(n, o) ==
  /\ at[n].attempt = at[o].attempt => Together(n, o)
  /\ at[n].attempt < at[o].attempt => Left(n, o)

LEMMA TogetherSymmetric ==
  ASSUME NEW n, NEW o, TogetherNext(n, o)
  PROVE  TogetherNext(o, n)
<1>1. PICK p, act, q, rest, ids :
        /\ p = Pos(n)' /\ act = active'[n] /\ q = Pos(o)' /\ rest = active'[o] /\ ids = committee'[n]
        /\ TogetherAt(p, act, q, rest, ids)'
  BY DEF TogetherNext
<1>2. TogetherAt(q, rest, p, act, ids)'
  BY <1>1 DEF TogetherAt
<1> QED
  BY <1>1, <1>2 DEF TogetherNext

LEMMA AgreementFrom ==
  ASSUME LoneMisdealers' => \A n, o \in Honest : AgreesNext(n, o)
  PROVE  Agreement'
<1>1. ASSUME NEW n \in Honest, NEW o \in Honest, TogetherNext(n, o)
      PROVE  Together(n, o)'
  <2>1. PICK p, act, q, rest, ids :
          /\ p = Pos(n)' /\ act = active'[n] /\ q = Pos(o)' /\ rest = active'[o]
          /\ ids = committee'[n] /\ committee'[n] = committee'[o]
          /\ TogetherAt(p, act, q, rest, ids)'
    BY <1>1 DEF TogetherNext
  <2>2. Pos(n)' = p /\ Pos(o)' = q
    BY <2>1
  <2> QED
    BY <2>1, <2>2 DEF Together
<1>2. ASSUME NEW n \in Honest, NEW o \in Honest, LeftNext(n, o)
      PROVE  Left(n, o)'
  BY <1>2 DEF LeftNext, Left
<1> QED
  BY <1>1, <1>2 DEF Agreement, AgreesNext

LEMMA TogetherKept ==
  ASSUME IInv, IInv', Next, NEW n \in Honest, NEW o \in Honest, Together(n, o),
         committee'[n] = committee[n], active'[n] = active[n], Pos(n)' = Pos(n),
         committee'[o] = committee[o], active'[o] = active[o], Pos(o)' = Pos(o)
  PROVE  TogetherNext(n, o)
<1>1. PICK p, act, q, rest, ids :
        p = Pos(n) /\ act = active[n] /\ q = Pos(o) /\ rest = active[o] /\ ids = committee[n]
  OBVIOUS
<1>2. /\ ids \in SUBSET Node /\ act \in SUBSET ids /\ rest \in SUBSET ids
      /\ p \in Place \/ p.round = "end"
      /\ q \in Place \/ q.round = "end"
      /\ TogetherAt(p, act, q, rest, ids) /\ committee[n] = committee[o]
  BY <1>1, MembersType, PosIs DEF IInv, Together
<1>3. TogetherAt(p, act, q, rest, ids)'
  BY <1>2, TogetherStays
<1> QED
  BY <1>1, <1>2, <1>3 DEF TogetherNext

LEMMA LeftKept ==
  ASSUME IInv, IInv', Next, NEW n \in Honest, NEW o \in Honest, Left(n, o),
         at[n].attempt < at[o].attempt,
         committee'[n] = committee[n], active'[n] = active[n], at'[n] = at[n],
         outcome'[n] # "output"
  PROVE  LeftNext(n, o)
<1>1. PICK p, act, ids : p = at[n] /\ act = active[n] /\ ids = committee[n]
  OBVIOUS
<1>2. /\ p \in Place /\ ids \in SUBSET Node /\ act \in SUBSET ids /\ LeftAt(p, ids, act, o)
  BY <1>1, MembersType DEF IInv, Left
<1>3. LeftAt(p, ids, act, o)'
  BY <1>1, <1>2, LeftStays
<1> QED
  BY <1>1, <1>3 DEF LeftNext

(* The member that acts, and another one.                                  *)
Pair(a, o) == AgreesNext(a, o) /\ AgreesNext(o, a)

LEMMA PairStays ==
  ASSUME IInv, IInv', Next, NEW n \in Honest, NEW o \in Honest,
         \A x \in {n, o} :
           /\ at'[x] = at[x] /\ committee'[x] = committee[x] /\ active'[x] = active[x]
           /\ Pos(x)' = Pos(x) /\ (outcome'[x] = "output" <=> outcome[x] = "output"),
         Agrees(n, o)
  PROVE  AgreesNext(n, o)
<1>1. /\ at'[n] = at[n] /\ committee'[n] = committee[n] /\ active'[n] = active[n]
      /\ Pos(n)' = Pos(n) /\ (outcome'[n] = "output" <=> outcome[n] = "output")
      /\ at'[o] = at[o] /\ committee'[o] = committee[o] /\ active'[o] = active[o]
      /\ Pos(o)' = Pos(o)
  OBVIOUS
<1>2. at'[n].attempt = at'[o].attempt => TogetherNext(n, o)
  BY <1>1, TogetherKept DEF Agrees
<1>3. at'[n].attempt < at'[o].attempt => LeftNext(n, o)
  BY <1>1, LeftKept DEF Agrees, Left
<1> QED
  BY <1>2, <1>3 DEF AgreesNext

LEMMA PairClears ==
  ASSUME AInv, IInv', Next, NEW a \in Honest, NEW o \in Honest, a # o,
         outcome[a] = "running", ClearsPlace(a), Agrees(a, o), Agrees(o, a)
  PROVE  Pair(a, o)
<1>0. UNCHANGED plan /\ TypeOK /\ IInv /\ HonestActive
  BY DEF Next, AInv, IInv
<1>1. /\ at'[o] = at[o] /\ committee'[o] = committee[o] /\ active'[o] = active[o]
      /\ outcome'[o] = outcome[o] /\ Pos(o)' = Pos(o)
  BY <1>0, OthersStay
<1>2. PICK q : \E R \in SUBSET active[a] :
        /\ Clears(at[a], committee[a], active[a], q, R)
        /\ Pos(a)' = q /\ active'[a] = R /\ committee' = committee
        /\ q.attempt = at[a].attempt /\ at'[a].attempt = at[a].attempt
        /\ \/ q = End(at[a].attempt) /\ at'[a] = at[a] /\ outcome'[a] = "output"
           \/ q \in Place /\ at'[a] = q /\ outcome'[a] = "running"
  <2>1. \E q : \E R \in SUBSET active[a] :
        /\ Clears(at[a], committee[a], active[a], q, R)
        /\ Pos(a)' = q /\ active'[a] = R /\ committee' = committee
        /\ q.attempt = at[a].attempt /\ at'[a].attempt = at[a].attempt
        /\ \/ q = End(at[a].attempt) /\ at'[a] = at[a] /\ outcome'[a] = "output"
           \/ q \in Place /\ at'[a] = q /\ outcome'[a] = "running"
    BY <1>0, ClearsEffect
  <2> QED
    BY <2>1
<1>3. PICK R \in SUBSET active[a] :
        /\ Clears(at[a], committee[a], active[a], q, R)
        /\ Pos(a)' = q /\ active'[a] = R /\ committee' = committee
        /\ q.attempt = at[a].attempt /\ at'[a].attempt = at[a].attempt
        /\ \/ q = End(at[a].attempt) /\ at'[a] = at[a] /\ outcome'[a] = "output"
           \/ q \in Place /\ at'[a] = q /\ outcome'[a] = "running"
  BY <1>2
<1>4. q \in Place \/ q.round = "end"
  BY <1>3 DEF End
<1>5. PICK ids, x, y : ids = committee[a] /\ x = Pos(o) /\ y = active[o]
  OBVIOUS
<1>6. ASSUME at[a].attempt = at[o].attempt
      PROVE  TogetherNext(a, o)
  <2>1. Together(a, o)
    BY <1>6 DEF Agrees
  <2>2. TogetherAt(q, R, x, y, ids)'
    BY <1>0, <1>3, <1>5, <2>1, ClearsTogether
  <2>3. committee[a] = committee[o]
    BY <2>1 DEF Together
  <2>4. committee'[a] = ids /\ committee'[a] = committee'[o]
    BY <1>1, <1>3, <1>5, <2>3
  <2> QED
    BY <1>1, <1>3, <1>5, <2>2, <2>4 DEF TogetherNext
<1>7. ASSUME at[a].attempt < at[o].attempt
      PROVE  LeftNext(a, o)
  <2>1. Left(a, o)
    BY <1>7 DEF Agrees
  <2>2. q \in Place /\ LeftAt(q, ids, R, o)'
    BY <1>0, <1>3, <1>4, <1>5, <1>7, <2>1, ClearsLeft
  <2>3. q # End(at[a].attempt)
    BY <2>2 DEF End, Place, Dealing, Opening, Signing
  <2>4. committee'[a] = ids
    BY <1>3, <1>5
  <2> QED
    BY <1>3, <2>2, <2>3, <2>4 DEF LeftNext
<1>8. ASSUME at[o].attempt < at[a].attempt
      PROVE  LeftNext(o, a)
  <2>1. Left(o, a)
    BY <1>8 DEF Agrees
  <2> QED
    BY <1>0, <1>1, <1>8, <2>1, LeftKept DEF Left
<1>9. AgreesNext(a, o)
  BY <1>1, <1>3, <1>6, <1>7 DEF AgreesNext
<1>10. AgreesNext(o, a)
  BY <1>1, <1>3, <1>6, <1>8, TogetherSymmetric DEF AgreesNext
<1> QED
  BY <1>9, <1>10 DEF Pair

LEMMA PairRestarts ==
  ASSUME AInv, IInv', Next, LoneMisdealers, NEW a \in Honest, NEW o \in Honest, a # o,
         outcome[a] = "running", RestartsAfter(a), Agrees(a, o), Agrees(o, a)
  PROVE  Pair(a, o)
<1>0. UNCHANGED plan /\ TypeOK /\ IInv /\ HonestActive /\ CommitteeShown /\ FullAtStart /\ StartHeard
  BY DEF Next, AInv, IInv
<1>1. /\ at'[o] = at[o] /\ committee'[o] = committee[o] /\ active'[o] = active[o]
      /\ outcome'[o] = outcome[o] /\ Pos(o)' = Pos(o)
  BY <1>0, OthersStay
<1>2. PICK B \in SUBSET committee[a], k \in Nat, S \in SUBSET Node :
           /\ k = at[a].attempt + 1 /\ S = committee[a] \ B /\ B # {} /\ a \in S
           /\ Decides(at[a], committee[a], active[a], B) /\ plan.restarts
           /\ committee'[a] = S /\ active'[a] = S /\ Members(a, k)' = S
           /\ at'[a] = Start(k, 1) /\ Pos(a)' = Start(k, 1) /\ outcome'[a] = "running"
           /\ \E w : said' = said \cup {Message(Start(k, 1), a, w, {})}
  BY <1>0, RestartsEffect
<1>3. PICK w : said' = said \cup {Message(Start(k, 1), a, w, {})}
  BY <1>2
<1>4. at'[a].attempt = k /\ at[a].attempt \in Nat /\ at[o].attempt \in Nat
  <2>1. at[a].attempt \in Nat /\ at[o].attempt \in Nat
    BY <1>0, MembersType
  <2>2. Start(k, 1).attempt = k
    BY DEF Start
  <2> QED
    BY <1>2, <2>1, <2>2
<1>5. ASSUME at[a].attempt = at[o].attempt
      PROVE  LeftNext(o, a)
  <2>1. Together(a, o)
    BY <1>5 DEF Agrees
  <2>2. PICK x, y, ids : x = at[o] /\ y = active[o] /\ ids = committee[o]
    OBVIOUS
  <2>3. outcome[o] # "output" /\ LeftAt(x, ids, y, a)'
    BY <1>0, <1>2, <1>3, <1>5, <2>1, <2>2, RestartsLeft
  <2> QED
    BY <1>1, <2>2, <2>3 DEF LeftNext
<1>6. ASSUME at[a].attempt < at[o].attempt
      PROVE  at'[o].attempt = k /\ TogetherNext(a, o)
  <2>1. Left(a, o)
    BY <1>6 DEF Agrees
  <2>2. /\ at[o].attempt = k /\ Pos(o) = Start(k, 1)
        /\ committee[o] = S /\ active[o] = S
    BY <1>0, <1>2, <1>6, <2>1, RestartsTogether
  <2>3. PICK p : p = Start(k, 1)
    OBVIOUS
  <2>4. TogetherAt(p, S, p, S, S)'
    BY DEF TogetherAt
  <2> QED
    BY <1>1, <1>2, <2>2, <2>3, <2>4 DEF TogetherNext
<1>7. ASSUME at[o].attempt < at[a].attempt
      PROVE  LeftNext(o, a)
  <2>1. Left(o, a)
    BY <1>7 DEF Agrees
  <2> QED
    BY <1>0, <1>1, <1>7, <2>1, LeftKept DEF Left
<1>8. AgreesNext(a, o)
  BY <1>1, <1>2, <1>4, <1>6 DEF AgreesNext
<1>9. AgreesNext(o, a)
  <2>1. CASE at[o].attempt <= at[a].attempt
    BY <1>1, <1>2, <1>4, <1>5, <1>7, <2>1 DEF AgreesNext
  <2>2. CASE at[o].attempt > at[a].attempt
    BY <1>1, <1>4, <1>6, <2>2, TogetherSymmetric DEF AgreesNext
  <2> QED
    BY <1>4, <2>1, <2>2
<1> QED
  BY <1>8, <1>9 DEF Pair

LEMMA PairSignsOff ==
  ASSUME AInv, IInv', Next, NEW a \in Honest, NEW o \in Honest, a # o,
         outcome[a] = "running", SignsOff(a), Agrees(a, o), Agrees(o, a)
  PROVE  Pair(a, o)
<1>0. UNCHANGED plan /\ TypeOK /\ IInv /\ OnCourse
  BY DEF Next, AInv, IInv
<1>1. /\ at'[o] = at[o] /\ committee'[o] = committee[o] /\ active'[o] = active[o]
      /\ outcome'[o] = outcome[o] /\ Pos(o)' = Pos(o)
  BY <1>0, OthersStay
<1>2. /\ UNCHANGED <<at, committee>> /\ ~ plan.restarts
      /\ Pos(a)' = End(at[a].attempt) /\ Signed(End(at[a].attempt))
  BY <1>0, SignsOffEffect
<1>3. at[a].attempt = 0 /\ at[o].attempt = 0
  BY <1>0, <1>2 DEF OnCourse
<1>4. committee[a] = committee[o]
  BY <1>3 DEF Agrees, Together
<1>5. PICK q : q = End(at[a].attempt)
  OBVIOUS
<1>6. Signed(q)'
  BY <1>0, <1>2, <1>5 DEF Signed, Stages
<1>7. \A act, x, y, ids : TogetherAt(q, act, x, y, ids)'
  BY <1>6 DEF TogetherAt
<1>8. TogetherNext(a, o)
  BY <1>1, <1>2, <1>4, <1>5, <1>7 DEF TogetherNext
<1> QED
  BY <1>1, <1>2, <1>3, <1>8, TogetherSymmetric DEF Pair, AgreesNext

LEMMA KeepsAgreement ==
  ASSUME AInv, IInv', Next
  PROVE  Agreement'
<1>0. UNCHANGED plan /\ TypeOK /\ IInv /\ OnCourse /\ DefendHeard /\ Agreement
  BY DEF Next, AInv, IInv
<1> SUFFICES ASSUME LoneMisdealers', NEW n \in Honest, NEW o \in Honest
             PROVE  AgreesNext(n, o)
  BY AgreementFrom
<1>1. LoneMisdealers
  BY SaidGrows DEF LoneMisdealers
<1>2. \A x, y \in Honest : Agrees(x, y)
  BY <1>0, <1>1 DEF Agreement, Agrees
<1>3. CASE UNCHANGED <<at, committee, active, outcome>>
  <2>1. \A x : Pos(x)' = Pos(x)
    BY <1>0, <1>3 DEF Pos, End, Stages
  <2> QED
    BY <1>0, <1>2, <1>3, <2>1, PairStays
<1>4. ASSUME NEW a \in Honest, outcome[a] = "running",
             ClearsPlace(a) \/ Stays(a) \/ SignsOff(a) \/ RestartsAfter(a)
      PROVE  AgreesNext(n, o)
  <2>1. CASE n # a /\ o # a
    <3>1. \A x \in {n, o} :
           /\ at'[x] = at[x] /\ committee'[x] = committee[x] /\ active'[x] = active[x]
           /\ Pos(x)' = Pos(x) /\ (outcome'[x] = "output" <=> outcome[x] = "output")
      BY <1>0, <1>4, <2>1, OthersStay
    <3> QED
      BY <1>0, <1>2, <3>1, PairStays
  <2>2. CASE n = o
    <3>1. PICK p, act, ids : p = Pos(n)' /\ act = active'[n] /\ ids = committee'[n]
      OBVIOUS
    <3>2. TogetherAt(p, act, p, act, ids)'
      BY DEF TogetherAt
    <3>3. TogetherNext(n, o)
      BY <2>2, <3>1, <3>2 DEF TogetherNext
    <3>4. ~(at'[n].attempt < at'[o].attempt)
      <4>1. at'[n].attempt \in Nat
        BY DEF IInv, TypeOK, Place
      <4> QED
        BY <2>2, <4>1
    <3> QED
      BY <3>3, <3>4 DEF AgreesNext
  <2>3. ASSUME NEW x \in Honest, x # a
        PROVE  Pair(a, x)
    <3>1. CASE ClearsPlace(a)
      BY <1>2, <1>4, <2>3, <3>1, PairClears
    <3>2. CASE SignsOff(a)
      BY <1>2, <1>4, <2>3, <3>2, PairSignsOff
    <3>3. CASE RestartsAfter(a)
      BY <1>1, <1>2, <1>4, <2>3, <3>3, PairRestarts
    <3>4. CASE Stays(a)
      <4>1. \A y \in {a, x} :
             /\ at'[y] = at[y] /\ committee'[y] = committee[y] /\ active'[y] = active[y]
             /\ Pos(y)' = Pos(y) /\ (outcome'[y] = "output" <=> outcome[y] = "output")
        BY <1>0, <1>4, <2>3, <3>4, StaysEffect, OthersStay
      <4>2. AgreesNext(a, x) /\ AgreesNext(x, a)
        BY <1>0, <1>2, <4>1, PairStays
      <4> QED
        BY <4>2 DEF Pair
    <3> QED
      BY <1>4, <3>1, <3>2, <3>3, <3>4
  <2> QED
    BY <2>1, <2>2, <2>3 DEF Pair
<1> QED
  BY <1>0, <1>3, <1>4, NextShape

(* A step in which nothing happens changes no verdict.                      *)
LEMMA StutterKeeps ==
  ASSUME UNCHANGED vars
  PROVE  /\ \A p, ids, act, q, R : Clears(p, ids, act, q, R)' = Clears(p, ids, act, q, R)
         /\ \A p, ids, act, B : Decides(p, ids, act, B)' = Decides(p, ids, act, B)
         /\ \A p : Signed(p)' = Signed(p)
<1>0. UNCHANGED <<plan, at, committee, active, outcome, said, shares>>
  BY DEF vars
<1>1. \A p, n : From(p, n)' = From(p, n)
  BY <1>0 DEF From
<1>2. \A p, n : What(p, n)' = What(p, n) /\ Names(p, n)' = Names(p, n)
  BY <1>1 DEF What, Names
<1>3. \A p, d, n : Share(p, d, n)' = Share(p, d, n)
  BY <1>0 DEF Share
<1>4. \A p, n, ids : Dealt(p, n, ids)' = Dealt(p, n, ids) /\ Heard(p, ids)' = Heard(p, ids)
  BY <1>0 DEF Dealt, Heard
<1>5. \A p : After(p)' = After(p) /\ Signed(p)' = Signed(p)
  BY <1>0 DEF After, End, Start, Stages, Signed
<1>6. \A p, S, w : Saying(p, S, w)' = Saying(p, S, w)
  BY <1>2 DEF Saying
<1>7. \A p, a : Complaints(p, a)' = Complaints(p, a)
  BY <1>1, <1>2 DEF Complaints, Names
<1>8. \A p, ids : Accusers(p, ids)' = Accusers(p, ids)
  BY <1>7 DEF Accusers
<1>9. \A p, ids : Reconstructed(p, ids)' = Reconstructed(p, ids)
  BY <1>2 DEF Reconstructed
<1>10. \A k, i : Start(k, i)' = Start(k, i)
  BY <1>0 DEF Start, Stages
<1>11. \A p, v, d, ids : Genuine(p, v, d, ids)' = Genuine(p, v, d, ids)
  <2> SUFFICES ASSUME NEW p, NEW v, NEW d, NEW ids
               PROVE  Genuine(p, v, d, ids)' = Genuine(p, v, d, ids)
    OBVIOUS
  <2>1. PICK q : q = Start(p.attempt, p.stage)
    OBVIOUS
  <2>2. q = Start(p.attempt, p.stage)'
    BY <1>10, <2>1
  <2>3. Genuine(p, v, d, ids) <=>
          /\ What(p, v) = "list" /\ d \in ids
          /\ {v, d} \subseteq Faulty \/ (Dealt(q, v, {d}) /\ Share(q, d, v) = "bad")
    BY <2>1 DEF Genuine
  <2>4. Genuine(p, v, d, ids)' <=>
          /\ What(p, v)' = "list" /\ d \in ids
          /\ {v, d} \subseteq Faulty \/ (Dealt(q, v, {d})' /\ Share(q, d, v)' = "bad")
    BY <2>2 DEF Genuine
  <2>5. Genuine(p, v, d, ids)' <=> Genuine(p, v, d, ids)
    BY <1>2, <1>3, <1>4, <2>3, <2>4
  <2> QED
    BY <2>5 DEF Genuine
<1>12. \A p, v, ids : FalseRequest(p, v, ids)' = FalseRequest(p, v, ids)
  BY <1>2, <1>11 DEF FalseRequest
<1>13. \A p, ids : Liars(p, ids)' = Liars(p, ids)
  BY <1>12 DEF Liars
<1>14. \A p, d, ids : Recoverable(p, d, ids)' = Recoverable(p, d, ids)
  BY <1>2 DEF Recoverable
<1>15. \A p, ids : Mended(p, ids)' = Mended(p, ids) /\ Lost(p, ids)' = Lost(p, ids)
  BY <1>9, <1>14 DEF Mended, Lost
<1>16. \A p, ids, act : Ready(p, ids, act)' = Ready(p, ids, act)
  BY <1>4 DEF Ready
<1>17. \A p, ids, act, q, R : Clears(p, ids, act, q, R)' = Clears(p, ids, act, q, R)
  BY <1>5, <1>6, <1>8, <1>9, <1>13, <1>15, <1>16 DEF Clears
<1>18. \A p, ids, act, B : Condemns(p, ids, act, B)' = Condemns(p, ids, act, B)
  <2>1. \A p, a, d : Blame(p, a, d)' = Blame(p, a, d)
    BY <1>2 DEF Blame
  <2> SUFFICES ASSUME NEW p, NEW ids, NEW act, NEW B
               PROVE  Condemns(p, ids, act, B)' = Condemns(p, ids, act, B)
    OBVIOUS
  <2>2. PICK a : a = First(Accusers(p, ids))
    OBVIOUS
  <2>3. PICK d : d = First(Complaints(p, a))
    OBVIOUS
  <2>4. a = First(Accusers(p, ids)') /\ d = First(Complaints(p, a)')
    BY <1>7, <1>8, <2>2, <2>3
  <2>5. First(Accusers(p, ids))' = a
    BY <2>4 DEF First
  <2>6. First(Complaints(p, First(Accusers(p, ids))))' = d
    BY <2>4, <2>5 DEF First, Complaints, Names, From
  <2>7. Blame(p, First(Accusers(p, ids)), First(Complaints(p, First(Accusers(p, ids)))))' = Blame(p, a, d)
    <3>1. PICK b : b = Blame(p, a, d)
      OBVIOUS
    <3>2. Blame(p, a, d)' = b
      BY <2>1, <3>1
    <3>3. Blame(p, First(Accusers(p, ids)), First(Complaints(p, First(Accusers(p, ids)))))' = b
      BY <2>5, <2>6, <3>2 DEF Blame, Names, From
    <3> QED
      BY <3>1, <3>3
  <2>8. Condemns(p, ids, act, B) <=> Condemns(p, ids, act, B)'
    BY <2>2, <2>3, <2>6, <2>7, <1>6, <1>8, <1>13, <1>15, ZenonT(30) DEF Condemns, First
  <2> QED
    BY <2>8 DEF Condemns
<1>19. \A p, ids, B : Private(p, ids, B)' = Private(p, ids, B)
  BY <1>0, <1>6 DEF Private
<1>20. \A p, ids, act, B : Decides(p, ids, act, B)' = Decides(p, ids, act, B)
  BY <1>16, <1>18, <1>19 DEF Decides
<1> QED
  BY <1>5, <1>17, <1>20

LEMMA NextAgreement ==
  ASSUME AInv, [Next]_vars
  PROVE  AInv'
<1>1. IInv'
  BY NextInv DEF AInv
<1>2. CASE Next
  <2>1. CommitteeShown' /\ HonestActive' /\ FullAtStart'
    BY <1>2, KeepsCommittee, KeepsActive, KeepsFull DEF AInv
  <2>2. StartHeard'
    BY <1>2, KeepsStart DEF AInv
  <2>3. OnCourse' /\ DefendHeard'
    BY <1>2, KeepsCourse DEF AInv
  <2>4. Agreement'
    BY <1>1, <1>2, KeepsAgreement
  <2> QED
    BY <1>1, <2>1, <2>2, <2>3, <2>4 DEF AInv
<1>3. CASE UNCHANGED vars
  <2>1. UNCHANGED <<plan, at, committee, active, outcome, said, shares>>
    BY <1>3 DEF vars
  <2>2. \A n, k : Members(n, k)' = Members(n, k) /\ Pos(n)' = Pos(n) /\ LeftStart(n, k)' = LeftStart(n, k)
    BY <2>1 DEF Members, Pos, LeftStart, End, Start, Stages
  <2>3. CommitteeShown' /\ HonestActive' /\ OnCourse'
    BY <2>1, <2>2, ZenonT(30) DEF AInv, CommitteeShown, HonestActive, OnCourse, Stages, Members, Start
  <2>4. FullAtStart' /\ DefendHeard'
    BY <2>1, <2>2 DEF AInv, FullAtStart, DefendHeard, Start, Stages, Heard
  <2>5. StartHeard'
    BY <2>1, <2>2 DEF AInv, StartHeard, Start, Stages, Spoke
  <2>6. Agreement'
    <3>1. \A p, act, q, R, ids : TogetherAt(p, act, q, R, ids) => TogetherAt(p, act, q, R, ids)'
      BY <1>3, StutterKeeps DEF TogetherAt
    <3>2. \A p, ids, act, o : LeftAt(p, ids, act, o) => LeftAt(p, ids, act, o)'
      BY <1>3, <2>1, <2>2, StutterKeeps DEF LeftAt, Spoke
    <3>3. ASSUME LoneMisdealers', NEW n \in Honest, NEW o \in Honest
           PROVE  AgreesNext(n, o)
      <4>1. LoneMisdealers
        BY <2>1, <3>3 DEF LoneMisdealers
      <4>2. at[n].attempt = at[o].attempt => Together(n, o)
        BY <4>1 DEF AInv, Agreement
      <4>3. at[n].attempt < at[o].attempt => Left(n, o)
        BY <4>1 DEF AInv, Agreement
      <4>4. Together(n, o) => TogetherNext(n, o)
        BY <2>1, <2>2, <3>1 DEF Together, TogetherNext
      <4>5. Left(n, o) => LeftNext(n, o)
        BY <2>1, <3>2 DEF Left, LeftNext
      <4> QED
        BY <2>1, <4>2, <4>3, <4>4, <4>5 DEF AgreesNext
    <3> QED
      BY <3>3, AgreementFrom
  <2> QED
    BY <1>1, <2>3, <2>4, <2>5, <2>6 DEF AInv
<1> QED
  BY <1>2, <1>3

LEMMA InitAgreement == Init => AInv
<1> SUFFICES ASSUME Init PROVE AInv
  OBVIOUS
<1>1. IInv
  BY InitInv
<1>2. /\ at = [n \in Honest |-> Start(0, 1)]
      /\ committee = [n \in Honest |-> Node] /\ active = [n \in Honest |-> Node]
      /\ outcome = [n \in Honest |-> "running"]
  BY DEF Init
<1>3. \A n \in Honest : /\ at[n] = Start(0, 1) /\ at[n].attempt = 0 /\ at[n].stage = 1
                        /\ committee[n] = Node /\ active[n] = Node /\ outcome[n] = "running"
                        /\ Pos(n) = Start(0, 1)
  BY <1>2 DEF Start, Pos
<1>4. CommitteeShown /\ HonestActive /\ FullAtStart
  BY <1>3 DEF CommitteeShown, HonestActive, FullAtStart, Members
<1>5. \A m \in said : m.at = Start(0, 1)
  BY DEF Init, Message
<1>6. \A o \in Honest, k \in Nat : ~ LeftStart(o, k)
  BY <1>3, <1>5 DEF LeftStart, Start
<1>7. StartHeard
  BY <1>6 DEF StartHeard
<1>8. Stages[1] \in Dealing \cup Opening
  BY <1>1, StagesType DEF IInv
<1>9. OnCourse /\ DefendHeard
  BY <1>3, <1>8, StartOnCourse DEF OnCourse, DefendHeard, Start, Dealing, Opening, Signing
<1>10. Agreement
  BY <1>3 DEF Agreement, Together, TogetherAt
<1> QED
  BY <1>1, <1>4, <1>7, <1>9, <1>10 DEF AInv

LEMMA AgreementInvariance == Spec => []AInv
<1>1. Init => AInv
  BY InitAgreement
<1>2. AInv /\ [Next]_vars => AInv'
  BY NextAgreement
<1> QED
  BY <1>1, <1>2, PTL DEF Spec

-----------------------------------------------------------------------------
(* Blame *)

(* A driver has blamed those who are not in its committee; with its output *)
(* it blames those whose openings it no longer waits for.                  *)
BlamedIs ==
  \A n \in Honest :
    /\ outcome[n] \in {"running", "failed", "panicked"} => blamed[n] = Node \ committee[n]
    /\ outcome[n] = "output" => blamed[n] = Node \ active[n] /\ at[n].stage = Len(Stages)

(* Who ends with an abort was told to by what its place decides.           *)
AbortedFor ==
  \A n \in Honest : outcome[n] = "aborted" =>
    /\ ~ plan.restarts
    /\ at[n].round \notin Signing =>
         \E B \in SUBSET committee[n] :
           Decides(at[n], committee[n], active[n], B) /\ blamed[n] = B \cup (Node \ committee[n])

LEMMA KeepsBlamed ==
  ASSUME IInv, Next, BlamedIs
  PROVE  BlamedIs'
<1>0. /\ UNCHANGED plan /\ TypeOK
      /\ at \in [Honest -> Place] /\ committee \in [Honest -> SUBSET Node]
      /\ active \in [Honest -> SUBSET Node] /\ blamed \in [Honest -> SUBSET Node]
      /\ outcome \in [Honest -> {"running", "output", "expelled", "refused", "aborted", "failed", "panicked"}]
  BY DEF Next, IInv, TypeOK
<1>1. Stages' = Stages
  BY <1>0 DEF Stages
<1>2. CASE UNCHANGED <<at, committee, active, outcome, blamed>>
  BY <1>1, <1>2 DEF BlamedIs
<1>3. ASSUME NEW n \in Honest, Step(n) \/ Timeout(n)
      PROVE  BlamedIs'
  <2>0. /\ outcome[n] = "running" /\ blamed[n] = Node \ committee[n]
        /\ committee[n] \in SUBSET Node /\ active[n] \in SUBSET committee[n]
    BY <1>0, <1>3, MembersType
       DEF Step, Timeout, Check, Defend, Adjudicate, Judge, Recover, Open, OpenAll, Combine,
           CombineAll, Running, BlamedIs
  <2>1. SUFFICES ASSUME NEW o \in Honest
        PROVE  /\ outcome'[o] \in {"running", "failed", "panicked"} => blamed'[o] = Node \ committee'[o]
               /\ outcome'[o] = "output" => blamed'[o] = Node \ active'[o] /\ at'[o].stage = Len(Stages)
    BY <1>1 DEF BlamedIs
  <2>2. CASE /\ at'[o] = at[o] /\ committee'[o] = committee[o] /\ active'[o] = active[o]
             /\ outcome'[o] = outcome[o] /\ blamed'[o] = blamed[o]
    BY <2>2 DEF BlamedIs
  <2>3. CASE Stops(n)
    BY <1>0, <2>0, <2>2, <2>3 DEF Stops, Ends
  <2>4. CASE Continues(n)
    <3>1. /\ \E r : at' = [at EXCEPT ![n].round = r]
          /\ UNCHANGED <<committee, active, blamed, outcome>>
      BY <2>4 DEF Continues, Reports, Goes
    <3> QED
      BY <1>0, <2>0, <2>2, <3>1
  <2>5. CASE Passes(n)
    <3>1. PICK R \in SUBSET active[n] : n \in R /\ Pass(n, R)
      BY <2>5 DEF Passes
    <3>2. active' = [active EXCEPT ![n] = R] /\ committee' = committee
      BY <1>0, <3>1, PassEffect
    <3>3. CASE /\ Stands /\ at[n].stage = Len(Stages)
               /\ outcome' = [outcome EXCEPT ![n] = "output"]
               /\ blamed' = [blamed EXCEPT ![n] = @ \cup (committee[n] \ R)]
      <4>1. at' = at
        BY <3>3 DEF Stands
      <4>2. o # n => /\ at'[o] = at[o] /\ committee'[o] = committee[o] /\ active'[o] = active[o]
                     /\ outcome'[o] = outcome[o] /\ blamed'[o] = blamed[o]
        BY <1>0, <3>2, <3>3, <4>1
      <4>3. /\ blamed'[n] = (Node \ committee[n]) \cup (committee[n] \ R) /\ active'[n] = R
            /\ outcome'[n] = "output"
        BY <1>0, <2>0, <3>2, <3>3
      <4>4. blamed'[n] = Node \ R
        BY <2>0, <4>3
      <4> QED
        BY <2>2, <3>3, <4>1, <4>2, <4>3, <4>4
    <3>4. CASE /\ UNCHANGED <<outcome, blamed>>
               /\ Speaks(n, Start(at[n].attempt, at[n].stage + 1), {}, committee[n])
      BY <1>0, <2>0, <2>2, <3>2, <3>4 DEF Speaks
    <3> QED
      BY <1>0, <3>1, <3>3, <3>4, PassEffect
  <2>6. CASE Aborts(n)
    <3>1. PICK B \in SUBSET committee[n] : B # {} /\ Abort(n, B)
      BY <2>6 DEF Aborts
    <3>2. CASE /\ Stands /\ UNCHANGED active
               /\ blamed' = [blamed EXCEPT ![n] = @ \cup B]
               /\ \E how \in {"aborted", "refused", "expelled"} : outcome' = [outcome EXCEPT ![n] = how]
      BY <1>0, <2>0, <2>2, <3>2 DEF Stands
    <3>3. CASE Restarts(n)
      <4>1. PICK S \in SUBSET committee[n] :
              /\ committee' = [committee EXCEPT ![n] = S] /\ active' = [active EXCEPT ![n] = S]
              /\ Speaks(n, Start(at[n].attempt + 1, 1), {}, S)
              /\ UNCHANGED outcome
              /\ blamed' = [blamed EXCEPT ![n] = @ \cup (committee[n] \ S)]
        BY <3>3 DEF Restarts
      <4>2. o # n => /\ at'[o] = at[o] /\ committee'[o] = committee[o] /\ active'[o] = active[o]
                     /\ outcome'[o] = outcome[o] /\ blamed'[o] = blamed[o]
        BY <1>0, <4>1 DEF Speaks
      <4>3. /\ blamed'[n] = (Node \ committee[n]) \cup (committee[n] \ S) /\ committee'[n] = S
            /\ outcome'[n] = "running"
        BY <1>0, <2>0, <4>1
      <4>4. blamed'[n] = Node \ S
        BY <2>0, <4>3
      <4> QED
        BY <2>2, <4>2, <4>3, <4>4
    <3> QED
      BY <1>0, <3>1, <3>2, <3>3, AbortEffect
  <2> QED
    BY <1>3, <2>3, <2>4, <2>5, <2>6, StepCases
<1>4. ASSUME NEW f \in Faulty, NEW n \in Honest, Say(f, at[n]) \/ Give(f, at[n], n)
      PROVE  BlamedIs'
  BY <1>2, <1>4 DEF Say, Give
<1> QED
  BY <1>3, <1>4 DEF Next

LEMMA KeepsAborted ==
  ASSUME AInv, IInv', Next, BlamedIs, AbortedFor
  PROVE  AbortedFor'
<1>0. /\ UNCHANGED plan /\ TypeOK /\ IInv /\ OnCourse /\ DefendHeard
      /\ at \in [Honest -> Place] /\ committee \in [Honest -> SUBSET Node]
      /\ active \in [Honest -> SUBSET Node] /\ blamed \in [Honest -> SUBSET Node]
      /\ outcome \in [Honest -> {"running", "output", "expelled", "refused", "aborted", "failed", "panicked"}]
  BY DEF Next, AInv, IInv, TypeOK
<1>1. ASSUME NEW o \in Honest, outcome'[o] = "aborted"
      PROVE  /\ ~ plan.restarts
             /\ at'[o].round \notin Signing =>
                  \E p, ids, act : \E B \in SUBSET ids :
                    /\ p = at'[o] /\ ids = committee'[o] /\ act = active'[o]
                    /\ Decides(p, ids, act, B)' /\ blamed'[o] = B \cup (Node \ ids)
  <2>0. PICK p, ids, act : p = at[o] /\ ids = committee[o] /\ act = active[o]
    OBVIOUS
  <2>1. p \in Place /\ ids \in SUBSET Node /\ act \in SUBSET ids
    BY <1>0, <2>0, MembersType
  <2>2. CASE /\ at'[o] = at[o] /\ committee'[o] = committee[o] /\ active'[o] = active[o]
             /\ ~ plan.restarts
             /\ at[o].round \notin Signing =>
                  \E B \in SUBSET committee[o] :
                    /\ Decides(at[o], committee[o], active[o], B)
                    /\ blamed'[o] = B \cup (Node \ committee[o])
    <3>1. CASE at[o].round \in Signing
      BY <2>2, <3>1
    <3>2. CASE at[o].round \notin Signing
      <4>1. PICK B \in SUBSET ids : Decides(p, ids, act, B) /\ blamed'[o] = B \cup (Node \ ids)
        BY <2>0, <2>2, <3>2
      <4>2. B \in SUBSET Node /\ Ready(p, ids, act)
        BY <2>1, <4>1 DEF Decides
      <4>3. Decides(p, ids, act, B)'
        BY <1>0, <2>1, <4>1, <4>2, VerdictRigid
      <4> QED
        BY <2>0, <2>2, <4>1, <4>3
    <3> QED
      BY <3>1, <3>2
  <2>3. CASE UNCHANGED <<at, committee, active, outcome, blamed>>
    BY <1>1, <2>2, <2>3 DEF AbortedFor
  <2>4. ASSUME NEW n \in Honest, Step(n) \/ Timeout(n)
        PROVE  /\ at'[o] = at[o] /\ committee'[o] = committee[o] /\ active'[o] = active[o]
               /\ ~ plan.restarts
               /\ at[o].round \notin Signing =>
                    \E B \in SUBSET committee[o] :
                      /\ Decides(at[o], committee[o], active[o], B)
                      /\ blamed'[o] = B \cup (Node \ committee[o])
    <3>0. outcome[n] = "running" /\ Acts(n) /\ blamed[n] = Node \ committee[n]
      BY <1>0, <2>4, StepActs DEF BlamedIs
    <3>1. CASE o # n
      <4>1. blamed'[o] = blamed[o]
        <5>1. CASE Stops(n) \/ Continues(n)
          BY <5>1 DEF Stops, Continues, Reports
        <5>2. CASE Aborts(n)
          BY <1>0, <3>1, <5>2 DEF Aborts, Abort
        <5>3. CASE Passes(n)
          BY <1>0, <3>1, <5>3, PassEffect DEF Passes
        <5> QED
          BY <1>0, <2>4, <5>1, <5>2, <5>3, StepCases
      <4>2. /\ at'[o] = at[o] /\ committee'[o] = committee[o] /\ active'[o] = active[o]
            /\ outcome'[o] = outcome[o]
        <5>1. ClearsPlace(n) \/ Stays(n) \/ SignsOff(n) \/ RestartsAfter(n)
          BY <1>0, <2>4, StepShape
        <5> QED
          BY <1>0, <3>1, <5>1, OthersStay
      <4> QED
        BY <1>1, <4>1, <4>2 DEF AbortedFor
    <3>2. CASE o = n /\ Stops(n)
      BY <1>0, <1>1, <3>2 DEF Stops, Ends
    <3>3. CASE o = n /\ ClearsPlace(n)
      <4>1. outcome'[n] \in {"output", "running"}
        BY <1>0, <3>0, <3>3, ClearsEffect
      <4> QED
        BY <1>1, <3>3, <4>1
    <3>4. ASSUME o = n, NEW B \in SUBSET committee[n], B # {}, Abort(n, B)
          PROVE  /\ at'[o] = at[o] /\ committee'[o] = committee[o] /\ active'[o] = active[o]
                 /\ ~ plan.restarts /\ blamed'[o] = B \cup (Node \ committee[o])
      <4>1. blamed'[n] = B \cup (Node \ committee[n])
        BY <1>0, <3>0, <3>4 DEF Abort
      <4>2. ~ Restarts(n)
        BY <1>0, <1>1, <3>0, <3>4 DEF Restarts
      <4>3. Stands /\ UNCHANGED active
        BY <1>0, <3>4, <4>2, AbortEffect
      <4>4. ~ plan.restarts
        BY <1>0, <1>1, <3>0, <3>4 DEF Abort, Ends
      <4> QED
        BY <3>4, <4>1, <4>3, <4>4 DEF Stands
    <3>5. CASE o = n /\ DecidesPlace(n)
      <4>1. PICK B \in SUBSET committee[n] :
              B # {} /\ Decides(at[n], committee[n], active[n], B) /\ Abort(n, B)
        BY <3>5 DEF DecidesPlace
      <4> QED
        BY <3>4, <3>5, <4>1
    <3>6. CASE o = n /\ Signs(n)
      <4>1. CASE \E B \in SUBSET committee[n] : B # {} /\ Abort(n, B)
        BY <3>4, <3>6, <4>1 DEF Signs
      <4>2. ASSUME NEW R \in SUBSET active[n], Pass(n, R)
            PROVE  outcome'[n] # "aborted"
        BY <1>0, <3>0, <4>2, PassEffect
      <4> QED
        BY <1>1, <3>6, <4>1, <4>2 DEF Signs
    <3> QED
      BY <3>0, <3>1, <3>2, <3>3, <3>5, <3>6 DEF Acts
  <2>5. ASSUME NEW f \in Faulty, NEW n \in Honest, Say(f, at[n]) \/ Give(f, at[n], n)
        PROVE  UNCHANGED <<at, committee, active, outcome, blamed>>
    BY <2>5 DEF Say, Give
  <2> QED
    BY <2>2, <2>3, <2>4, <2>5 DEF Next
<1>2. ASSUME NEW o \in Honest, (outcome[o] = "aborted")'
      PROVE  (/\ ~ plan.restarts
              /\ at[o].round \notin Signing =>
                   \E B \in SUBSET committee[o] :
                     /\ Decides(at[o], committee[o], active[o], B)
                     /\ blamed[o] = B \cup (Node \ committee[o]))'
  BY <1>0, <1>1, <1>2
<1> QED
  BY <1>2 DEF AbortedFor

BInv == AInv /\ BlamedIs /\ AbortedFor

LEMMA NextBlame ==
  ASSUME BInv, [Next]_vars
  PROVE  BInv'
<1>1. AInv'
  BY NextAgreement DEF BInv
<1>2. CASE Next
  <2>1. BlamedIs'
    BY <1>2, KeepsBlamed DEF BInv, AInv
  <2>2. AbortedFor'
    BY <1>1, <1>2, KeepsAborted DEF BInv, AInv
  <2> QED
    BY <1>1, <2>1, <2>2 DEF BInv
<1>3. CASE UNCHANGED vars
  <2>1. UNCHANGED <<plan, at, committee, active, outcome, blamed, said, shares>>
    BY <1>3 DEF vars
  <2>2. BlamedIs'
    BY <2>1 DEF BInv, BlamedIs, Stages
  <2>3. AbortedFor'
    <3>1. \A p, ids, act, B : Decides(p, ids, act, B) => Decides(p, ids, act, B)'
      BY <1>3, StutterKeeps
    <3> QED
      BY <2>1, <3>1 DEF BInv, AbortedFor
  <2> QED
    BY <1>1, <2>2, <2>3 DEF BInv
<1> QED
  BY <1>2, <1>3

LEMMA BlameInvariance == Spec => []BInv
<1>1. Init => BInv
  <2>1. Init => BlamedIs /\ AbortedFor
    BY DEF Init, BlamedIs, AbortedFor
  <2> QED
    BY <2>1, InitAgreement DEF BInv
<1>2. BInv /\ [Next]_vars => BInv'
  BY NextBlame
<1> QED
  BY <1>1, <1>2, PTL DEF Spec

(* An output of a stage that is heard by all is at the end of its attempt. *)
LEMMA OutputPlace ==
  ASSUME BInv, NEW n \in Honest, outcome[n] = "output", at[n].round \notin Signing
  PROVE  Pos(n) = End(at[n].attempt) /\ \A q : ~ Signed(q)
<1>1. TypeOK /\ OnCourse /\ at[n].stage = Len(Stages) /\ Len(Stages) \in 1 .. Len(Stages)
  BY StagesType DEF BInv, AInv, IInv, BlamedIs
<1>2. at[n].round \in RoundsOf(Stages[Len(Stages)])
  BY <1>1 DEF OnCourse
<1>3. Stages[Len(Stages)] \notin Signing
  BY <1>2 DEF RoundsOf, Signing
<1> QED
  BY <1>3 DEF Pos, Signed

LEMMA EndsAgree ==
  ASSUME BInv, LoneMisdealers, NEW n \in Honest, NEW o \in Honest,
         outcome[n] \in Decided, outcome[o] \in Decided,
         at[n].round \notin Signing, at[o].round \notin Signing
  PROVE  /\ outcome[n] = outcome[o] /\ at[n].attempt = at[o].attempt
         /\ committee[n] = committee[o] /\ active[n] = active[o] /\ blamed[n] = blamed[o]
<1>0. TypeOK /\ IInv /\ OnCourse /\ HonestActive /\ Agreement /\ BlamedIs /\ AbortedFor
  BY DEF BInv, AInv, IInv
<1>1. at[n].attempt \in Nat /\ at[o].attempt \in Nat
  BY <1>0, MembersType
<1>2. \A x \in {n, o} : outcome[x] = "aborted" =>
        /\ ~ plan.restarts /\ at[n].attempt = 0 /\ at[o].attempt = 0 /\ Pos(x) = at[x]
        /\ at[x] \in Place /\ Pos(x).round # "end"
        /\ \E B \in SUBSET committee[x] :
             /\ Decides(at[x], committee[x], active[x], B)
             /\ blamed[x] = B \cup (Node \ committee[x])
  BY <1>0, PosIs, MembersType DEF AbortedFor, OnCourse, Pos
<1>3. \A x \in {n, o} : outcome[x] = "output" =>
        Pos(x) = End(at[x].attempt) /\ Pos(x).round = "end" /\ blamed[x] = Node \ active[x]
        /\ \A q : ~ Signed(q)
  BY <1>0, OutputPlace DEF BlamedIs, End
<1>4. at[n].attempt = at[o].attempt
  <2>1. CASE outcome[n] = "aborted" \/ outcome[o] = "aborted"
    BY <1>2, <2>1
  <2>2. CASE outcome[n] = "output" /\ outcome[o] = "output"
    BY <1>0, <1>1, <2>2 DEF Agreement, Left
  <2> QED
    BY <2>1, <2>2 DEF Decided
<1>5. Together(n, o)
  BY <1>0, <1>4 DEF Agreement
<1>6. ~ Signed(Pos(n)) /\ ~ Signed(Pos(o))
  <2>1. \A x \in {n, o} : ~ Signed(Pos(x))
    BY <1>2, <1>3 DEF Decided, Signed
  <2> QED
    BY <2>1
<1>7. ~ Clears(Pos(n), committee[n], active[n], Pos(o), active[o])
  <2> SUFFICES ASSUME Clears(Pos(n), committee[n], active[n], Pos(o), active[o]) PROVE FALSE
    OBVIOUS
  <2>1. outcome[n] = "aborted"
    BY <1>0, <1>3, ClearsAhead DEF Decided
  <2>2. PICK B \in SUBSET committee[n] : Decides(at[n], committee[n], active[n], B)
    BY <1>2, <2>1
  <2>3. Pos(o).round # "end"
    <3>1. Pos(n) = at[n] /\ committee[n] \in SUBSET Node
      BY <1>0, <1>2, <2>1, MembersType
    <3>2. Clears(at[n], committee[n], active[n], Pos(o), active[o])
      BY <3>1
    <3> QED
      BY <1>0, <2>2, <3>1, <3>2, OneVerdict
  <2>4. outcome[o] = "aborted" /\ Pos(o) = at[o]
    BY <1>2, <1>3, <2>3 DEF Decided
  <2>5. Ready(at[o], committee[o], active[o])
    BY <1>2, <2>4 DEF Decides
  <2> QED
    BY <1>0, <1>5, <2>4, <2>5, NotAhead DEF Together
<1>8. ~ Clears(Pos(o), committee[n], active[o], Pos(n), active[n])
  <2> SUFFICES ASSUME Clears(Pos(o), committee[o], active[o], Pos(n), active[n]) PROVE FALSE
    BY <1>5 DEF Together
  <2>1. outcome[o] = "aborted"
    BY <1>0, <1>3, ClearsAhead DEF Decided
  <2>2. PICK B \in SUBSET committee[o] : Decides(at[o], committee[o], active[o], B)
    BY <1>2, <2>1
  <2>3. Pos(n).round # "end"
    <3>1. Pos(o) = at[o] /\ committee[o] \in SUBSET Node
      BY <1>0, <1>2, <2>1, MembersType
    <3>2. Clears(at[o], committee[o], active[o], Pos(n), active[n])
      BY <3>1
    <3> QED
      BY <1>0, <2>2, <3>1, <3>2, OneVerdict
  <2>4. outcome[n] = "aborted" /\ Pos(n) = at[n]
    BY <1>2, <1>3, <2>3 DEF Decided
  <2>5. Ready(at[n], committee[n], active[n])
    BY <1>2, <2>4 DEF Decides
  <2> QED
    BY <1>0, <1>5, <2>4, <2>5, NotAhead DEF Together
<1>9. committee[n] = committee[o] /\ Pos(n) = Pos(o) /\ active[n] = active[o]
  BY <1>5, <1>6, <1>7, <1>8 DEF Together, TogetherAt
<1>10. outcome[n] = outcome[o]
  BY <1>2, <1>3, <1>9 DEF Decided
<1>11. blamed[n] = blamed[o]
  <2>1. CASE outcome[n] = "output"
    BY <1>3, <1>9, <1>10, <2>1
  <2>2. CASE outcome[n] = "aborted"
    <3>1. PICK B \in SUBSET committee[n] :
            /\ Decides(at[n], committee[n], active[n], B)
            /\ blamed[n] = B \cup (Node \ committee[n])
      BY <1>2, <2>2
    <3>2. PICK C \in SUBSET committee[o] :
            /\ Decides(at[o], committee[o], active[o], C)
            /\ blamed[o] = C \cup (Node \ committee[o])
      BY <1>2, <1>10, <2>2
    <3>3. at[n] = at[o]
      BY <1>2, <1>9, <1>10, <2>2
    <3>4. B = C
      BY <1>0, <1>9, <3>1, <3>2, <3>3, MembersType, OneVerdict
    <3> QED
      BY <1>9, <3>1, <3>2, <3>4
  <2> QED
    BY <2>1, <2>2 DEF Decided
<1> QED
  BY <1>4, <1>9, <1>10, <1>11

(* The members that reach a result agree on it, on the attempt, on the     *)
(* committee and on the blame, when who sends a malformed share is the     *)
(* only one to misdeal in that round: the restarts of keygen_with_restart  *)
(* and presign_with_restart_over need no message between the members, for  *)
(* the verdict of every round follows from what all have heard.            *)
THEOREM Agreed == Spec => []OneCommittee
<1>1. BInv => OneCommittee
  BY EndsAgree DEF OneCommittee
<1> QED
  BY <1>1, BlameInvariance, PTL

-----------------------------------------------------------------------------
(* What a finished dealing shares, and what an honest member is blamed for. *)
(* An honest member complains about, or asks to mend, exactly the shares    *)
(* that do not fit (HonestLists), and defends itself against everybody who  *)
(* complains about it (HonestDefends).  So who has heard no complaint in a  *)
(* round knows what every honest member got there, if they agree on who     *)
(* the members are (SameMembers, above).                                    *)

-----------------------------------------------------------------------------
(* What honest members say of each other *)

(* o holds the shares of all of M, and lists those that do not fit.        *)
ListIs(p, o, M, list) ==
  /\ Dealt(p, o, M) /\ \A d \in M : Share(p, d, o) # "malformed"
  /\ list = {d \in M : Share(p, d, o) = "bad"}

HonestLists ==
  \A m \in said : m.from \in Honest /\ m.at.round \in {"complain", "request"} =>
    ListIs(Start(m.at.attempt, m.at.stage), m.from, Members(m.from, m.at.attempt), m.names)

(* o heard the complaints of all of M, and answers those about it.         *)
DefenseIs(c, o, M, list) == Heard(c, M) /\ list = {i \in M : o \in Names(c, i)}

HonestDefends ==
  \A m \in said : m.from \in Honest /\ m.at.round = "defend" =>
    DefenseIs([m.at EXCEPT !.round = "complain"], m.from, Members(m.from, m.at.attempt), m.names)

LEMMA ShareRigid ==
  ASSUME shares \subseteq shares', DealtOnce', NEW p, NEW o, NEW M, Dealt(p, o, M)
  PROVE  Dealt(p, o, M)' /\ \A d \in M : Share(p, d, o)' = Share(p, d, o)
<1>1. ASSUME NEW d \in M
      PROVE  Share(p, d, o)' = Share(p, d, o)
  <2>1. Dealt(p, o, {d})
    BY DEF Dealt
  <2>2. PICK m \in shares : m.at = p /\ m.from = d /\ m.to = o /\ Share(p, d, o) = m.share
    BY <2>1, ShareIs
  <2>3. \A x \in shares' : x.at = p /\ x.from = d /\ x.to = o => x = m
    BY <2>2 DEF DealtOnce
  <2>4. (CHOOSE x \in shares' : x.at = p /\ x.from = d /\ x.to = o) = m
    BY <2>2, <2>3
  <2> QED
    BY <2>2, <2>4 DEF Share
<1> QED
  BY <1>1 DEF Dealt

LEMMA ListRigid ==
  ASSUME shares \subseteq shares', DealtOnce', NEW p, NEW o, NEW M, NEW list, ListIs(p, o, M, list)
  PROVE  ListIs(p, o, M, list)'
<1>1. Dealt(p, o, M)' /\ \A d \in M : Share(p, d, o)' = Share(p, d, o)
  BY ShareRigid DEF ListIs
<1> QED
  BY <1>1 DEF ListIs

LEMMA DefenseRigid ==
  ASSUME said \subseteq said', HeardOnce', NEW c, NEW o, NEW M, NEW list, DefenseIs(c, o, M, list)
  PROVE  DefenseIs(c, o, M, list)'
<1>1. Heard(c, M)' /\ \A i \in M : Names(c, i)' = Names(c, i)
  BY Rigid DEF DefenseIs
<1> QED
  BY <1>1 DEF DefenseIs

(* A step that ends a stage, an attempt or a driver says nothing of others.*)
LEMMA SaysStart ==
  ASSUME IInv, NEW n \in Honest, Aborts(n) \/ Passes(n) \/ Stops(n), NEW m \in said' \ said
  PROVE  m.from = n /\ m.at.round \in Dealing \cup Opening
<1>0. at[n].attempt \in Nat /\ at[n].stage \in 1 .. Len(Stages) /\ Len(Stages) \in Nat \ {0} /\ TypeOK
  BY MembersType, StagesType DEF IInv
<1>1. ASSUME NEW k, NEW s \in 1 .. Len(Stages), NEW ids, Speaks(n, Start(k, s), {}, ids)
      PROVE  m.from = n /\ m.at.round \in Dealing \cup Opening
  BY <1>0, <1>1, StagesType DEF Speaks, Message, Start
<1>2. CASE Stops(n)
  BY <1>2 DEF Stops, Ends
<1>3. CASE Aborts(n)
  <2>1. Stands \/ Restarts(n)
    BY <1>0, <1>3, AbortEffect DEF Aborts
  <2>2. PICK S : Speaks(n, Start(at[n].attempt + 1, 1), {}, S)
    BY <2>1 DEF Stands, Restarts
  <2>3. 1 \in 1 .. Len(Stages)
    BY <1>0
  <2> QED
    BY <1>1, <2>2, <2>3
<1>4. CASE Passes(n)
  <2>1. Stands \/ (at[n].stage # Len(Stages)
                   /\ Speaks(n, Start(at[n].attempt, at[n].stage + 1), {}, committee[n]))
    BY <1>0, <1>4, PassEffect DEF Passes
  <2>2. at[n].stage # Len(Stages)
        /\ Speaks(n, Start(at[n].attempt, at[n].stage + 1), {}, committee[n])
    BY <2>1 DEF Stands
  <2>3. at[n].stage + 1 \in 1 .. Len(Stages)
    BY <1>0, <2>2
  <2> QED
    BY <1>1, <2>2, <2>3
<1> QED
  BY <1>2, <1>3, <1>4

LEMMA CheckSays ==
  ASSUME IInv, OnCourse, NEW n \in Honest, Check(n), NEW m \in said' \ said
  PROVE  /\ m.from = n
         /\ \/ m.at.round \in Dealing \cup Opening
            \/ /\ m.at.round \in {"complain", "request"}
               /\ m.at.attempt = at[n].attempt /\ m.at.stage = at[n].stage
               /\ Start(at[n].attempt, at[n].stage) = at[n]
               /\ ListIs(at[n], n, committee[n], m.names)
<1> DEFINE p == at[n]
           ids == committee[n]
           malformed == {d \in ids : What(p, d) = "malformed"}
           misdealt == {d \in ids : Share(p, d, n) = "malformed"}
           wrong == {d \in ids : What(p, d) = "wrong"}
           bad == {d \in ids : Share(p, d, n) = "bad"}
           r == IF p.round = "deal" THEN "complain" ELSE "request"
<1>1. ids \in SUBSET Node /\ p \in Place /\ TypeOK
  BY MembersType DEF IInv
<1>2. \A S \in SUBSET ids : S # {} => {First(S)} \in SUBSET ids /\ {First(S)} # {}
  BY <1>1, FirstIn
<1>3. \/ malformed # {} /\ Abort(n, {First(malformed)})
      \/ misdealt # {} /\ Abort(n, {First(misdealt)})
      \/ wrong # {} /\ Abort(n, {First(wrong)})
      \/ misdealt = {} /\ Reports(n, r, bad)
  BY DEF Check
<1>4. p.round \in {"deal", "redeal"} /\ Dealt(p, n, ids)
  BY DEF Check, Running
<1>5. malformed \in SUBSET ids /\ misdealt \in SUBSET ids /\ wrong \in SUBSET ids
  OBVIOUS
<1>6. CASE misdealt = {} /\ Reports(n, r, bad)
  <2>1. m = Message([p EXCEPT !.round = r], n, "list", bad)
    BY <1>6 DEF Reports
  <2>2. m.from = n /\ m.names = bad /\ m.at = [p EXCEPT !.round = r]
    BY <2>1 DEF Message
  <2>3. m.at.round \in {"complain", "request"} /\ m.at.attempt = p.attempt /\ m.at.stage = p.stage
    BY <1>1, <2>2 DEF Place
  <2>4. Stages[p.stage] = p.round
    BY <1>1, <1>4, StageOfRound
  <2>5. Start(p.attempt, p.stage) = p
    BY <1>1, <2>4 DEF Start, Place
  <2>6. ListIs(p, n, ids, m.names)
    BY <1>4, <1>6, <2>2 DEF ListIs
  <2> QED
    BY <2>2, <2>3, <2>5, <2>6
<1>7. ASSUME Aborts(n)
      PROVE  m.from = n /\ m.at.round \in Dealing \cup Opening
  BY <1>7, SaysStart
<1> HIDE DEF malformed, misdealt, wrong, bad, r
<1> QED
  BY <1>2, <1>3, <1>5, <1>6, <1>7 DEF Aborts

LEMMA DefendSays ==
  ASSUME IInv, NEW n \in Honest, Defend(n), NEW m \in said' \ said
  PROVE  /\ m.from = n
         /\ \/ m.at.round \in Dealing \cup Opening
            \/ /\ m.at.round = "defend" /\ m.at.attempt = at[n].attempt
               /\ [m.at EXCEPT !.round = "complain"] = at[n]
               /\ DefenseIs(at[n], n, committee[n], m.names)
<1> DEFINE p == at[n]
           ids == committee[n]
           malformed == {a \in ids : What(p, a) = "malformed"}
<1>1. ids \in SUBSET Node /\ p \in Place
  BY MembersType DEF IInv
<1>2. malformed # {} => {First(malformed)} \in SUBSET ids
  BY <1>1, FirstIn
<1>3. \/ malformed # {} /\ Abort(n, {First(malformed)})
      \/ Reports(n, "defend", {i \in ids : n \in Names(p, i)})
  BY DEF Defend
<1>4. p.round = "complain" /\ Heard(p, ids)
  BY DEF Defend, Running
<1>5. CASE Reports(n, "defend", {i \in ids : n \in Names(p, i)})
  <2>1. m = Message([p EXCEPT !.round = "defend"], n, "list", {i \in ids : n \in Names(p, i)})
    BY <1>5 DEF Reports
  <2>2. /\ m.from = n /\ m.names = {i \in ids : n \in Names(p, i)}
        /\ m.at = [p EXCEPT !.round = "defend"]
    BY <2>1 DEF Message
  <2>3. m.at.round = "defend" /\ m.at.attempt = p.attempt /\ [m.at EXCEPT !.round = "complain"] = p
    BY <1>1, <1>4, <2>2, ZenonT(30) DEF Place
  <2>4. DefenseIs(p, n, ids, m.names)
    BY <1>4, <2>2 DEF DefenseIs
  <2> QED
    BY <2>2, <2>3, <2>4
<1>6. ASSUME Aborts(n)
      PROVE  m.from = n /\ m.at.round \in Dealing \cup Opening
  BY <1>6, SaysStart
<1> QED
  BY <1>2, <1>3, <1>5, <1>6 DEF Aborts

LEMMA JudgeSays ==
  ASSUME IInv, NEW n \in Honest, Judge(n), NEW m \in said' \ said
  PROVE  m.from = n /\ m.at.round \in Dealing \cup Opening \cup {"supply"}
<1> DEFINE p == at[n]
           ids == committee[n]
           liars == {v \in ids : FalseRequest(p, v, ids)}
           set == Reconstructed(p, ids)
           mine == {d \in set : Share(Start(p.attempt, p.stage), d, n) = "good"}
<1>1. ids \in SUBSET Node /\ n \in active[n] /\ p \in Place
  BY MembersType DEF IInv
<1>2. liars # {} => {First(liars)} \in SUBSET ids
  BY <1>1, FirstIn
<1>3. \/ liars # {} /\ Abort(n, {First(liars)})
      \/ Ends(n, "panicked") /\ UNCHANGED <<committee, active, blamed>>
      \/ Pass(n, active[n])
      \/ Reports(n, "supply", mine)
  BY DEF Judge
<1>4. CASE Reports(n, "supply", mine)
  <2>1. m = Message([p EXCEPT !.round = "supply"], n, "list", mine)
    BY <1>4 DEF Reports
  <2>2. m.from = n /\ m.at = [p EXCEPT !.round = "supply"]
    BY <2>1 DEF Message
  <2> QED
    BY <1>1, <2>2 DEF Place
<1>5. ASSUME Aborts(n) \/ Passes(n) \/ Stops(n)
      PROVE  m.from = n /\ m.at.round \in Dealing \cup Opening
  BY <1>5, SaysStart
<1> HIDE DEF liars, mine
<1> QED
  BY <1>1, <1>2, <1>3, <1>4, <1>5 DEF Aborts, Passes, Stops

(* What an honest member says of others, and when.                         *)
LEMMA NewWords ==
  ASSUME IInv, OnCourse, Next, NEW m \in said' \ said, m.from \in Honest
  PROVE  /\ m.at.round \in {"complain", "request"} =>
              /\ m.at.attempt = at[m.from].attempt /\ m.at.stage = at[m.from].stage
              /\ Start(at[m.from].attempt, at[m.from].stage) = at[m.from]
              /\ ListIs(at[m.from], m.from, committee[m.from], m.names)
         /\ m.at.round = "defend" =>
              /\ m.at.attempt = at[m.from].attempt
              /\ [m.at EXCEPT !.round = "complain"] = at[m.from]
              /\ DefenseIs(at[m.from], m.from, committee[m.from], m.names)
<1>0. {"complain", "request", "defend"} \cap (Dealing \cup Opening \cup {"supply"}) = {}
  BY DEF Dealing, Opening, Signing
<1>1. ASSUME NEW f \in Faulty, NEW n \in Honest, Say(f, at[n]) \/ Give(f, at[n], n)
      PROVE  FALSE
  <2>1. m.from = f
    BY <1>1 DEF Say, Give, Message
  <2> QED
    BY <2>1 DEF Honest
<1>2. ASSUME NEW n \in Honest, Step(n) \/ Timeout(n)
      PROVE  \/ m.from = n /\ Check(n)
             \/ m.from = n /\ Defend(n)
             \/ m.at.round \in Dealing \cup Opening \cup {"supply"}
  <2>1. CASE Check(n) \/ Defend(n)
    BY <2>1, CheckSays, DefendSays
  <2>2. CASE Judge(n)
    BY <2>2, JudgeSays
  <2>3. CASE Aborts(n) \/ Passes(n) \/ Stops(n)
    BY <2>3, SaysStart
  <2>4. Timeout(n) => Stops(n)
    BY DEF Timeout, Stops
  <2>5. Step(n) => \/ Check(n) \/ Defend(n) \/ Judge(n)
                   \/ Aborts(n) \/ Passes(n) \/ Stops(n)
    BY AdjudicateCases, RecoverCases, OpenCases, OpenAllCases, CombineCases DEF Step
  <2> QED
    BY <1>2, <2>1, <2>2, <2>3, <2>4, <2>5
<1>3. \/ Check(m.from) \/ Defend(m.from) \/ m.at.round \in Dealing \cup Opening \cup {"supply"}
  BY <1>1, <1>2 DEF Next
<1>4. CASE Check(m.from)
  BY <1>0, <1>4, CheckSays
<1>5. CASE Defend(m.from)
  BY <1>0, <1>5, DefendSays
<1> QED
  BY <1>0, <1>3, <1>4, <1>5

LEMMA KeepsLists ==
  ASSUME AInv, IInv', Next, HonestLists
  PROVE  HonestLists'
<1>0. /\ IInv /\ OnCourse /\ CommitteeShown /\ HonestSays /\ UNCHANGED plan
      /\ shares \subseteq shares' /\ DealtOnce'
  BY SaidGrows DEF AInv, IInv, Next
<1>1. SUFFICES ASSUME NEW m \in said', m.from \in Honest, m.at.round \in {"complain", "request"}
      PROVE  ListIs(Start(m.at.attempt, m.at.stage), m.from, Members(m.from, m.at.attempt), m.names)'
  BY DEF HonestLists
<1>2. PICK o \in Honest : o = m.from
  BY <1>1
<1>3. PICK k : k = m.at.attempt
  OBVIOUS
<1>4. PICK M : M = Members(o, k)
  OBVIOUS
<1>5. PICK p : p = Start(k, m.at.stage)
  OBVIOUS
<1>6. at[o].attempt \in Nat
  BY <1>0, MembersType DEF IInv
<1>7. k \in Nat /\ k <= at[o].attempt /\ ListIs(p, o, M, m.names)
  <2>1. CASE m \in said
    <3>1. UpTo(m.at, at[o])
      BY <1>0, <1>2, <2>1 DEF HonestSays
    <3>2. m.at \in Place
      BY <1>0, <2>1 DEF IInv, TypeOK
    <3>3. k \in Nat
      BY <1>3, <3>2 DEF Place
    <3>4. ListIs(p, o, M, m.names)
      BY <1>1, <1>2, <1>3, <1>4, <1>5, <2>1 DEF HonestLists
    <3> QED
      BY <1>3, <1>6, <3>1, <3>3, <3>4 DEF UpTo, Before
  <2>2. CASE m \notin said
    <3>1. /\ k = at[o].attempt /\ m.at.stage = at[o].stage
          /\ Start(at[o].attempt, at[o].stage) = at[o]
          /\ ListIs(at[o], o, committee[o], m.names)
      BY <1>0, <1>1, <1>2, <1>3, <2>2, NewWords
    <3>2. M = committee[o] /\ p = at[o]
      BY <1>0, <1>4, <1>5, <3>1 DEF CommitteeShown
    <3> QED
      BY <1>6, <3>1, <3>2
  <2> QED
    BY <2>1, <2>2
<1>8. Members(o, k)' = M
  BY <1>0, <1>4, <1>7, MembersRigid
<1>9. ListIs(p, o, M, m.names)'
  BY <1>0, <1>7, ListRigid
<1>10. Start(k, m.at.stage)' = p
  BY <1>0, <1>5 DEF Start, Stages
<1> QED
  BY <1>2, <1>3, <1>8, <1>9, <1>10

LEMMA KeepsDefends ==
  ASSUME AInv, IInv', Next, HonestDefends
  PROVE  HonestDefends'
<1>0. /\ IInv /\ OnCourse /\ CommitteeShown /\ HonestSays
      /\ said \subseteq said' /\ HeardOnce'
  BY SaidGrows DEF AInv, IInv, Next
<1>1. SUFFICES ASSUME NEW m \in said', m.from \in Honest, m.at.round = "defend"
      PROVE  DefenseIs([m.at EXCEPT !.round = "complain"], m.from, Members(m.from, m.at.attempt), m.names)'
  BY DEF HonestDefends
<1>2. PICK o \in Honest : o = m.from
  BY <1>1
<1>3. PICK k : k = m.at.attempt
  OBVIOUS
<1>4. PICK M : M = Members(o, k)
  OBVIOUS
<1>5. PICK c : c = [m.at EXCEPT !.round = "complain"]
  OBVIOUS
<1>6. at[o].attempt \in Nat
  BY <1>0, MembersType DEF IInv
<1>7. k \in Nat /\ k <= at[o].attempt /\ DefenseIs(c, o, M, m.names)
  <2>1. CASE m \in said
    <3>1. UpTo(m.at, at[o])
      BY <1>0, <1>2, <2>1 DEF HonestSays
    <3>2. m.at \in Place
      BY <1>0, <2>1 DEF IInv, TypeOK
    <3>3. k \in Nat
      BY <1>3, <3>2 DEF Place
    <3>4. DefenseIs(c, o, M, m.names)
      BY <1>1, <1>2, <1>3, <1>4, <1>5, <2>1 DEF HonestDefends
    <3> QED
      BY <1>3, <1>6, <3>1, <3>3, <3>4 DEF UpTo, Before
  <2>2. CASE m \notin said
    <3>1. k = at[o].attempt /\ c = at[o] /\ DefenseIs(at[o], o, committee[o], m.names)
      BY <1>0, <1>1, <1>2, <1>3, <1>5, <2>2, NewWords
    <3>2. M = committee[o]
      BY <1>0, <1>4, <3>1 DEF CommitteeShown
    <3> QED
      BY <1>6, <3>1, <3>2
  <2> QED
    BY <2>1, <2>2
<1>8. Members(o, k)' = M
  BY <1>0, <1>4, <1>7, MembersRigid
<1>9. DefenseIs(c, o, M, m.names)'
  BY <1>0, <1>7, DefenseRigid
<1> QED
  BY <1>2, <1>3, <1>5, <1>8, <1>9

(* Honest members that hear each other in an attempt have the same one.    *)
LEMMA SameMembers ==
  ASSUME AInv, LoneMisdealers, NEW n \in Honest, NEW o \in Honest \cap committee[n],
         NEW q \in Place, q.attempt = at[n].attempt, Spoke(q, o)
  PROVE  Members(o, q.attempt) = committee[n]
<1>1. IInv /\ CommitteeShown /\ Agreement
  BY DEF AInv
<1>2. at[n].attempt \in Nat /\ at[o].attempt \in Nat
  BY <1>1, MembersType DEF IInv
<1>3. CASE at[n].attempt = at[o].attempt
  <2>1. committee[n] = committee[o]
    BY <1>1, <1>3 DEF Agreement, Together
  <2> QED
    BY <1>1, <1>3, <2>1 DEF CommitteeShown
<1>4. CASE at[n].attempt < at[o].attempt
  BY <1>1, <1>4 DEF Agreement, Left, LeftAt
<1>5. ~ (at[o].attempt < at[n].attempt)
  <2>1. UpTo(q, at[o])
    BY <1>1, HonestWord DEF IInv
  <2> QED
    BY <1>2, <2>1 DEF UpTo, Before
<1> QED
  BY <1>2, <1>3, <1>4, <1>5

-----------------------------------------------------------------------------
(* What a finished dealing shares *)

(* In the dealing that begins in p all of M were heard, and no complaint;  *)
(* or the sharings that were shown to be wrong are mended by all.          *)
CleanDealing(p, M) ==
  \/ /\ p.round = "deal"
     /\ LET c == [p EXCEPT !.round = "complain"] IN Heard(c, M) /\ \A a \in M : Names(c, a) = {}
  \/ /\ p.round = "redeal"
     /\ LET r == [p EXCEPT !.round = "request"]
            u == [p EXCEPT !.round = "supply"]
        IN Heard(r, M) /\ \A d \in Reconstructed(r, M) : Heard(u, M) /\ Recoverable(u, d, M)

FinishedClean ==
  \A n \in Honest : \A s \in 1 .. Len(Stages) :
    Stages[s] \in Dealing /\ s < Pos(n).stage =>
      CleanDealing(Start(at[n].attempt, s), committee[n])

LEMMA CleanRigid ==
  ASSUME said \subseteq said', HeardOnce', NEW p, NEW M, CleanDealing(p, M)
  PROVE  CleanDealing(p, M)'
<1>1. PICK c, r, u : /\ c = [p EXCEPT !.round = "complain"]
                     /\ r = [p EXCEPT !.round = "request"] /\ u = [p EXCEPT !.round = "supply"]
  OBVIOUS
<1>2. CASE p.round = "deal" /\ Heard(c, M) /\ \A a \in M : Names(c, a) = {}
  <2>1. Heard(c, M)' /\ \A a \in M : Names(c, a)' = {}
    BY <1>2, Rigid
  <2> QED
    BY <1>1, <1>2, <2>1 DEF CleanDealing
<1>3. CASE /\ p.round = "redeal" /\ Heard(r, M)
           /\ \A d \in Reconstructed(r, M) : Heard(u, M) /\ Recoverable(u, d, M)
  <2>1. Heard(r, M)' /\ Reconstructed(r, M)' = Reconstructed(r, M)
    BY <1>3, Rigid
  <2>2. ASSUME NEW d \in Reconstructed(r, M)
        PROVE  Heard(u, M)' /\ Recoverable(u, d, M)'
    <3>1. Heard(u, M)' /\ \A v \in M : Names(u, v)' = Names(u, v)
      BY <1>3, <2>2, Rigid
    <3>2. {v \in M : d \in Names(u, v)}' = {v \in M : d \in Names(u, v)}
      BY <3>1
    <3> QED
      BY <1>3, <2>2, <3>1, <3>2 DEF Recoverable
  <2> QED
    BY <1>1, <1>3, <2>1, <2>2 DEF CleanDealing
<1> QED
  BY <1>1, <1>2, <1>3 DEF CleanDealing

(* Who goes on to the next stage leaves a clean dealing behind.            *)
LEMMA ClearsClean ==
  ASSUME TypeOK, OnCourse, NEW n \in Honest, NEW q, NEW R,
         Clears(at[n], committee[n], active[n], q, R),
         Stages[at[n].stage] \in Dealing, at[n].stage < q.stage
  PROVE  CleanDealing(Start(at[n].attempt, at[n].stage), committee[n])
<1> DEFINE p == at[n]
           M == committee[n]
           b == Start(p.attempt, p.stage)
<1>1. p \in Place /\ p.stage \in 1 .. Len(Stages) /\ Len(Stages) \in Nat
  BY MembersType, StagesType
<1>2. /\ [b EXCEPT !.round = "complain"] = [p EXCEPT !.round = "complain"]
      /\ [b EXCEPT !.round = "request"] = [p EXCEPT !.round = "request"]
      /\ [b EXCEPT !.round = "supply"] = [p EXCEPT !.round = "supply"]
      /\ b.round = Stages[p.stage]
  BY <1>1 DEF Start, Place
<1>3. q.stage # p.stage
  BY <1>1
<1>4. \A r : q # [p EXCEPT !.round = r]
  BY <1>1, <1>3 DEF Place
<1>5. Ready(p, M, active[n])
  BY DEF Clears
<1>6. CASE Stages[p.stage] = "deal"
  <2>1. p.round \in {"deal", "complain", "defend"}
    BY <1>6 DEF OnCourse, RoundsOf
  <2>2. p.round = "defend" /\ Accusers(p, M) = {}
    BY <1>4, <2>1 DEF Clears, Dealing, Opening, Signing
  <2>3. Heard([p EXCEPT !.round = "complain"], M)
    BY <1>5, <2>2 DEF Ready
  <2>4. \A a \in M : Names([p EXCEPT !.round = "complain"], a) = {}
    BY <2>2 DEF Accusers, Complaints
  <2> QED
    BY <1>2, <1>6, <2>3, <2>4 DEF CleanDealing
<1>7. CASE Stages[p.stage] = "redeal"
  <2>1. p.round \in {"redeal", "request", "supply"}
    BY <1>7 DEF OnCourse, RoundsOf
  <2>2. CASE p.round = "request"
    <3>1. Heard(p, M)
      BY <1>5, <2>2 DEF Ready, Opening, Signing
    <3>2. Reconstructed(p, M) = {}
      BY <1>4, <2>2 DEF Clears, Dealing, Opening, Signing
    <3>3. [p EXCEPT !.round = "request"] = p
      BY <1>1, <2>2 DEF Place
    <3> QED
      BY <1>2, <1>7, <3>1, <3>2, <3>3 DEF CleanDealing
  <2>3. CASE p.round = "supply"
    <3>1. Heard(p, M) /\ Heard([p EXCEPT !.round = "request"], M)
      BY <1>5, <2>3 DEF Ready, Opening, Signing
    <3>2. Lost(p, M) = {}
      BY <2>3 DEF Clears, Dealing, Opening, Signing
    <3>3. \A d \in Mended(p, M) : Recoverable(p, d, M)
      BY <3>2 DEF Lost
    <3>4. [p EXCEPT !.round = "supply"] = p
      BY <1>1, <2>3 DEF Place
    <3> QED
      BY <1>2, <1>7, <3>1, <3>3, <3>4 DEF CleanDealing, Mended
  <2>4. p.round # "redeal"
    BY <1>4 DEF Clears, Dealing, Opening, Signing
  <2> QED
    BY <2>1, <2>2, <2>3, <2>4
<1> QED
  BY <1>6, <1>7 DEF Dealing

LEMMA KeepsFinished ==
  ASSUME AInv, IInv', Next, FinishedClean
  PROVE  FinishedClean'
<1>0. /\ IInv /\ TypeOK /\ OnCourse /\ DefendHeard /\ UNCHANGED plan
      /\ said \subseteq said' /\ HeardOnce'
  BY SaidGrows DEF AInv, IInv, Next
<1>1. SUFFICES ASSUME NEW o \in Honest, NEW s \in 1 .. Len(Stages),
                      Stages[s] \in Dealing, s < Pos(o)'.stage
      PROVE  CleanDealing(Start(at[o].attempt, s), committee[o])'
  BY <1>0 DEF FinishedClean, Stages
<1>2. PICK p, M : p = Start(at[o].attempt, s) /\ M = committee[o]
  OBVIOUS
<1>3. ASSUME at'[o].attempt = at[o].attempt, committee'[o] = committee[o], CleanDealing(p, M)
      PROVE  CleanDealing(Start(at[o].attempt, s), committee[o])'
  <2>1. CleanDealing(p, M)'
    BY <1>0, <1>3, CleanRigid
  <2>2. p = Start(at[o].attempt, s)' /\ M = committee'[o]
    BY <1>0, <1>2, <1>3 DEF Start, Stages
  <2> QED
    BY <2>1, <2>2
<1>4. s < Pos(o).stage => CleanDealing(p, M)
  BY <1>1, <1>2 DEF FinishedClean
<1>5. CASE /\ at'[o] = at[o] /\ committee'[o] = committee[o] /\ Pos(o)' = Pos(o)
  BY <1>1, <1>3, <1>4, <1>5
<1>6. CASE UNCHANGED <<at, committee, active, outcome>>
  BY <1>0, <1>5, <1>6 DEF Pos, End, Stages
<1>7. ASSUME NEW n \in Honest, outcome[n] = "running",
             ClearsPlace(n) \/ Stays(n) \/ SignsOff(n) \/ RestartsAfter(n)
      PROVE  CleanDealing(Start(at[o].attempt, s), committee[o])'
  <2>1. CASE o # n
    BY <1>0, <1>5, <1>7, <2>1, OthersStay
  <2>2. CASE o = n /\ Stays(n)
    BY <1>0, <1>5, <1>7, <2>2, StaysEffect
  <2>3. CASE o = n /\ SignsOff(n)
    <3>1. /\ UNCHANGED <<at, committee>> /\ at[n].stage = Len(Stages)
          /\ Signed(End(at[n].attempt)) /\ outcome[n] = "running"
      BY <1>0, <1>7, <2>3, SignsOffEffect
    <3>2. Stages[Len(Stages)] \in Signing
      BY <3>1 DEF Signed
    <3>3. s < at[n].stage
      BY <1>0, <1>1, <3>1, <3>2, StagesType DEF Dealing, Signing
    <3>4. Pos(o) = at[o]
      BY <2>3, <3>1 DEF Pos
    <3> QED
      BY <1>3, <1>4, <2>3, <3>1, <3>3, <3>4
  <2>4. CASE o = n /\ RestartsAfter(n)
    <3>1. PICK k \in Nat : Pos(n)' = Start(k, 1)
      BY <1>0, <1>7, <2>4, RestartsEffect
    <3>2. Pos(o)'.stage = 1
      BY <2>4, <3>1 DEF Start
    <3> QED
      BY <1>1, <3>2
  <2>5. CASE o = n /\ ClearsPlace(n)
    <3>1. PICK q, R :
            /\ Clears(at[n], committee[n], active[n], q, R)
            /\ Pos(n)' = q /\ committee' = committee /\ at'[n].attempt = at[n].attempt
      BY <1>0, <1>7, <2>5, ClearsEffect
    <3>2. /\ Pos(o) = at[o] /\ at[o] \in Place
          /\ at[o].stage \in 1 .. Len(Stages) /\ Len(Stages) \in Nat
      BY <1>0, <1>7, <2>5, MembersType, StagesType DEF Pos
    <3>3. CASE s < at[o].stage
      BY <1>3, <1>4, <2>5, <3>1, <3>2, <3>3
    <3>4. CASE s = at[o].stage
      BY <1>0, <1>1, <1>2, <1>3, <2>5, <3>1, <3>4, ClearsClean
    <3>5. CASE at[o].stage < s
      <4>1. q = After(at[o]) \/ \E r : q = [at[o] EXCEPT !.round = r]
        BY <2>5, <3>1 DEF Clears
      <4>2. After(at[o]).stage = at[o].stage + 1
        BY <3>2 DEF After, End, Start
      <4>3. \A r : [at[o] EXCEPT !.round = r].stage = at[o].stage
        BY <3>2 DEF Place
      <4>4. q.stage \in {at[o].stage, at[o].stage + 1}
        BY <4>1, <4>2, <4>3
      <4> QED
        BY <1>1, <2>5, <3>1, <3>2, <3>5, <4>4
    <3> QED
      BY <3>2, <3>3, <3>4, <3>5
  <2> QED
    BY <1>7, <2>1, <2>2, <2>3, <2>4, <2>5
<1> QED
  BY <1>0, <1>6, <1>7, NextShape

(* What an honest member holds of a dealing that another has finished.     *)
LEMMA CleanShares ==
  ASSUME AInv, HonestLists, LoneMisdealers, NEW n \in Honest, NEW s \in 1 .. Len(Stages),
         Stages[s] \in Dealing, NEW p, p = Start(at[n].attempt, s), CleanDealing(p, committee[n]),
         NEW o \in Honest \cap committee[n], NEW d \in committee[n]
  PROVE  Dealt(p, o, {d}) /\ (Share(p, d, o) = "good" \/ (p.round = "redeal" /\ Public(p, d)))
<1> DEFINE M == committee[n]
           r == IF p.round = "deal" THEN "complain" ELSE "request"
           c == [p EXCEPT !.round = r]
           u == [p EXCEPT !.round = "supply"]
<1>0. IInv /\ TypeOK /\ M \in SUBSET Node /\ at[n].attempt \in Nat
  BY MembersType DEF AInv, IInv
<1>1. p \in Place /\ p.round \in Dealing
  <2>1. p \in Place
    BY <1>0, StagesType
  <2> QED
    BY <2>1 DEF Start
<1>2. c \in Place /\ c.round = r /\ c.attempt = at[n].attempt /\ c.attempt = p.attempt /\ c.stage = s
  BY <1>1 DEF Place, Start
<1>3. Heard(c, M)
  BY DEF CleanDealing
<1>4. PICK m \in said : m.at = c /\ m.from = o /\ Names(c, o) = m.names
  BY <1>3 DEF Heard, Names, From
<1>5. Members(o, c.attempt) = M
  BY <1>2, <1>4, SameMembers, ZenonT(30) DEF Spoke
<1>6. ListIs(Start(c.attempt, c.stage), o, Members(o, c.attempt), m.names)
  BY <1>2, <1>4 DEF HonestLists
<1>7. Start(c.attempt, c.stage) = p
  BY <1>2 DEF Start
<1>8. ListIs(p, o, M, Names(c, o))
  BY <1>4, <1>5, <1>6, <1>7
<1>9. Dealt(p, o, {d})
  BY <1>8 DEF ListIs, Dealt
<1>10. PICK x \in shares : Share(p, d, o) = x.share
  BY <1>9, ShareIs
<1>11. Share(p, d, o) \in {"good", "bad"}
  BY <1>0, <1>8, <1>10 DEF ListIs, TypeOK
<1>12. CASE Share(p, d, o) = "bad"
  <2>1. d \in Names(c, o)
    BY <1>8, <1>12 DEF ListIs
  <2>2. p.round # "deal"
    BY <2>1 DEF CleanDealing
  <2>3. p.round = "redeal" /\ c = [p EXCEPT !.round = "request"]
    BY <1>1, <2>2 DEF Dealing
  <2>4. d \in Reconstructed(c, M)
    BY <2>1 DEF Reconstructed
  <2>5. Heard(u, M) /\ Recoverable(u, d, M)
    BY <2>3, <2>4 DEF CleanDealing
  <2> DEFINE V == {v \in M : d \in Names(u, v)}
             W == {y.from : y \in {z \in said : z.at = u /\ d \in z.names}}
  <2>6. V \subseteq W
    <3> SUFFICES ASSUME NEW v \in V PROVE v \in W
      OBVIOUS
    <3>1. From(u, v) \in said /\ From(u, v).at = u /\ From(u, v).from = v
      BY <2>5, FromIs, HeardIs
    <3>2. d \in From(u, v).names
      BY DEF Names
    <3> QED
      BY <3>1, <3>2
  <2>7. W \subseteq Node
    <3>1. \A z \in said : z.from \in Node
      BY <1>0 DEF TypeOK
    <3> QED
      BY <3>1
  <2>8. IsFiniteSet(W)
    BY <2>7, NodeAssumption, FS_Subset
  <2>9. Cardinality(V) \in Nat /\ Cardinality(W) \in Nat /\ Cardinality(V) <= Cardinality(W)
    BY <2>6, <2>8, FS_Subset, FS_CardinalityType
  <2>10. Cardinality(W) >= T
    BY <2>5, <2>9, ThresholdAssumption DEF Recoverable
  <2>11. Public(p, d)
    BY <2>10 DEF Public
  <2> QED
    BY <1>9, <2>3, <2>11
<1> QED
  BY <1>9, <1>11, <1>12

LEMMA SharedFrom ==
  ASSUME AInv, HonestLists, FinishedClean
  PROVE  SharedByAll
<1>1. SUFFICES ASSUME LoneMisdealers, NEW n \in Honest, NEW s \in 1 .. Len(Stages),
                      Stages[s] \in Dealing, NEW p, p = Start(at[n].attempt, s), Finished(n, p),
                      NEW o \in Honest \cap committee[n], NEW d \in committee[n]
      PROVE  Dealt(p, o, {d}) /\ (Share(p, d, o) = "good" \/ (p.round = "redeal" /\ Public(p, d)))
  BY DEF SharedByAll
<1>2. at[n].stage \in 1 .. Len(Stages) /\ Len(Stages) \in Nat /\ p.stage = s
  BY <1>1, MembersType, StagesType DEF AInv, IInv, Start
<1>3. s < Pos(n).stage
  BY <1>1, <1>2 DEF Finished, Pos, End
<1>4. CleanDealing(p, committee[n])
  BY <1>1, <1>3 DEF FinishedClean
<1> QED
  BY <1>1, <1>4, CleanShares

-----------------------------------------------------------------------------
(* What an honest member is blamed for *)

(* A faulty dealer gave h a bad share, and answered h with a good one.     *)
Excuse(h) ==
  \E m \in shares :
    /\ m.from \in Faulty /\ m.to = h /\ m.share = "bad"
    /\ LET p == [m.at EXCEPT !.round = "defend"] IN
       Heard(p, {m.from}) /\ h \in Names(p, m.from)

LEMMA ExcuseStays ==
  ASSUME said \subseteq said', shares \subseteq shares', HeardOnce', NEW h, Excuse(h)
  PROVE  Excuse(h)'
<1>1. PICK m \in shares :
        /\ m.from \in Faulty /\ m.to = h /\ m.share = "bad"
        /\ LET p == [m.at EXCEPT !.round = "defend"] IN
           Heard(p, {m.from}) /\ h \in Names(p, m.from)
  BY DEF Excuse
<1>2. PICK p : p = [m.at EXCEPT !.round = "defend"]
  OBVIOUS
<1>3. Heard(p, {m.from}) /\ h \in Names(p, m.from)
  BY <1>1, <1>2
<1>4. Heard(p, {m.from})' /\ Names(p, m.from)' = Names(p, m.from)
  BY <1>3, Rigid
<1> QED
  BY <1>1, <1>2, <1>3, <1>4 DEF Excuse

(* No word of an honest member is malformed, wrong or bad.                 *)
LEMMA NoHonestSaying ==
  ASSUME HonestSays, NEW p, NEW S, Heard(p, S), NEW w \in {"malformed", "wrong", "bad"}
  PROVE  Saying(p, S, w) \cap Honest = {}
<1> SUFFICES ASSUME NEW h \in Honest \cap S, What(p, h) = w PROVE FALSE
  BY DEF Saying
<1>1. What(p, h) = Word(p.round)
  BY HonestWord, HeardIs
<1> QED
  BY <1>1 DEF Word

(* An honest accuser was given a bad share, and an honest dealer answers   *)
(* everybody who complains about it.                                       *)
LEMMA AdjudicatedBlame ==
  ASSUME AInv, HonestLists, HonestDefends, LoneMisdealers, NEW n \in Honest, NEW p, NEW M,
         p = at[n], M = committee[n], p.round = "defend", Ready(p, M, active[n]),
         NEW a \in M, NEW d \in M, d \in Complaints(p, a), NEW h \in Blame(p, a, d) \cap Honest
  PROVE  Excuse(h)
<1> DEFINE c == [p EXCEPT !.round = "complain"]
<1>0. IInv /\ p \in Place /\ M \in SUBSET Node /\ HonestDeals
  BY MembersType DEF AInv, IInv
<1>1. Heard(p, M) /\ Heard(c, M)
  BY DEF Ready, Opening, Signing
<1>2. /\ c \in Place /\ c.round = "complain" /\ c.attempt = p.attempt /\ c.stage = p.stage
      /\ [p EXCEPT !.round = "complain"] = c
      /\ p = [Start(p.attempt, p.stage) EXCEPT !.round = "defend"]
  BY <1>0 DEF Place, Start
<1>3. d \in Names(c, a)
  BY DEF Complaints
<1>4. CASE h = a /\ a \in Names(p, d)
  <2>1. PICK m \in said : m.at = c /\ m.from = a /\ Names(c, a) = m.names
    BY <1>1 DEF Heard, Names, From
  <2>2. ListIs(Start(c.attempt, c.stage), a, Members(a, c.attempt), m.names)
    BY <1>2, <1>4, <2>1, ZenonT(30) DEF HonestLists
  <2>3. /\ Dealt(Start(p.attempt, p.stage), a, {d})
        /\ Share(Start(p.attempt, p.stage), d, a) = "bad"
    BY <1>2, <1>3, <2>1, <2>2 DEF ListIs, Dealt
  <2>4. PICK x \in shares : /\ x.at = Start(p.attempt, p.stage) /\ x.from = d /\ x.to = a
                            /\ x.share = "bad"
    BY <2>3, ShareIs
  <2>5. d \in Faulty
    BY <1>0, <2>4 DEF HonestDeals, Honest
  <2>6. Heard(p, {d})
    BY <1>1 DEF Heard
  <2> QED
    BY <1>2, <1>4, <2>4, <2>5, <2>6 DEF Excuse
<1>5. CASE h = d /\ a \notin Names(p, d)
  <2>1. PICK m \in said : m.at = p /\ m.from = d /\ Names(p, d) = m.names
    BY <1>1 DEF Heard, Names, From
  <2>2. DefenseIs(c, d, Members(d, p.attempt), m.names)
    BY <1>5, <2>1 DEF HonestDefends
  <2>3. Members(d, p.attempt) = M
    BY <1>0, <1>5, <2>1, SameMembers DEF Spoke
  <2>4. a \in Names(p, d)
    BY <1>3, <2>1, <2>2, <2>3 DEF DefenseIs
  <2> QED
    BY <1>5, <2>4
<1> QED
  BY <1>4, <1>5 DEF Blame

LEMMA ComplaintsType ==
  ASSUME AInv, HonestLists, LoneMisdealers, NEW n \in Honest, NEW p, p = at[n],
         Heard([p EXCEPT !.round = "complain"], committee[n]), NEW a \in committee[n]
  PROVE  Complaints(p, a) \in SUBSET Node
<1> DEFINE c == [p EXCEPT !.round = "complain"]
<1>0. IInv /\ TypeOK /\ p \in Place /\ committee[n] \in SUBSET Node
  BY MembersType DEF AInv, IInv
<1>1. c \in Place /\ c.round = "complain" /\ c.attempt = p.attempt
  BY <1>0 DEF Place
<1>2. PICK m \in said : m.at = c /\ m.from = a /\ Complaints(p, a) = m.names
  BY DEF Heard, Names, From, Complaints
<1>3. CASE a \in Faulty
  <2>1. <<m.what, m.names>> \in Said("complain")
    BY <1>0, <1>1, <1>2, <1>3 DEF TypeOK
  <2>2. m.names \in Lists \cup {{}}
    BY <2>1 DEF Said, Dealing, Signing
  <2> QED
    BY <1>2, <2>2 DEF Lists
<1>4. CASE a \in Honest
  <2>1. ListIs(Start(c.attempt, c.stage), a, Members(a, c.attempt), m.names)
    BY <1>1, <1>2, <1>4 DEF HonestLists
  <2>2. Members(a, c.attempt) = committee[n]
    <3>1. Spoke(c, a) /\ c.attempt = at[n].attempt /\ a \in Honest \cap committee[n]
      BY <1>1, <1>2, <1>4 DEF Spoke
    <3> HIDE DEF c
    <3> QED
      BY <1>1, <3>1, SameMembers
  <2> QED
    BY <1>0, <1>2, <2>1, <2>2 DEF ListIs
<1> QED
  BY <1>0, <1>3, <1>4 DEF Honest

(* What an honest member shows is genuine.                                 *)
LEMMA NoHonestLiar ==
  ASSUME AInv, HonestLists, LoneMisdealers, NEW n \in Honest, NEW p, NEW M,
         p = at[n], M = committee[n], p.round = "request", Heard(p, M)
  PROVE  Liars(p, M) \cap Honest = {}
<1> SUFFICES ASSUME NEW h \in M \cap Honest, FalseRequest(p, h, M) PROVE FALSE
  BY DEF Liars
<1>0. IInv /\ p \in Place /\ M \in SUBSET Node
  BY MembersType DEF AInv, IInv
<1>1. PICK m \in said : m.at = p /\ m.from = h /\ Names(p, h) = m.names
  BY DEF Heard, Names, From
<1>2. Members(h, p.attempt) = M
  BY <1>0, <1>1, SameMembers DEF Spoke
<1>3. ListIs(Start(p.attempt, p.stage), h, M, Names(p, h))
  BY <1>1, <1>2 DEF HonestLists
<1>4. What(p, h) = "list"
  <2>1. What(p, h) = Word(p.round)
    BY <1>0, <1>1, HonestWord DEF IInv, Spoke
  <2> QED
    BY <2>1 DEF Word, Dealing, Opening, Signing
<1>5. ASSUME NEW d \in Names(p, h)
      PROVE  Genuine(p, h, d, M)
  <2>1. /\ d \in M /\ Dealt(Start(p.attempt, p.stage), h, {d})
        /\ Share(Start(p.attempt, p.stage), d, h) = "bad"
    BY <1>3, <1>5 DEF ListIs, Dealt
  <2> QED
    BY <1>4, <2>1 DEF Genuine
<1> QED
  BY <1>4, <1>5 DEF FalseRequest

(* What a place decides blames no honest member without an excuse.         *)
LEMMA DecidedBlame ==
  ASSUME AInv, HonestLists, HonestDefends, LoneMisdealers, NEW n \in Honest,
         NEW B \in SUBSET committee[n], Decides(at[n], committee[n], active[n], B),
         NEW h \in B \cap Honest
  PROVE  Excuse(h)
<1>1. PICK p, M, act : p = at[n] /\ M = committee[n] /\ act = active[n]
  OBVIOUS
<1>2. /\ IInv /\ HonestSays /\ HonestDeals /\ SupplyClean
      /\ p \in Place /\ M \in SUBSET Node /\ act \in SUBSET M
  BY <1>1, MembersType DEF AInv, IInv
<1>3. Ready(p, M, act) /\ (Condemns(p, M, act, B) \/ Private(p, M, B))
  BY <1>1 DEF Decides
<1>4. ASSUME NEW S, Heard(p, S), NEW w \in {"malformed", "wrong", "bad"}, S \in SUBSET Node,
             Saying(p, S, w) # {}
      PROVE  First(Saying(p, S, w)) # h /\ h \notin Saying(p, S, w)
  <2>1. Saying(p, S, w) \cap Honest = {} /\ Saying(p, S, w) \in SUBSET Node
    BY <1>2, <1>4, NoHonestSaying DEF Saying
  <2>2. First(Saying(p, S, w)) \in Saying(p, S, w)
    BY <1>4, <2>1, FirstIn
  <2> QED
    BY <2>1, <2>2
<1>5. CASE Private(p, M, B)
  BY <1>2, <1>5 DEF Private, HonestDeals
<1>6. CASE p.round \in Dealing \cup {"complain", "supply"} /\ \E w \in {"malformed", "wrong"} :
             Saying(p, M, w) # {} /\ B = {First(Saying(p, M, w))}
  <2>1. Heard(p, M)
    BY <1>3, <1>6 DEF Ready, Dealing, Opening, Signing
  <2> QED
    BY <1>2, <1>4, <1>6, <2>1
<1>7. CASE /\ p.round \in {"open", "openall"}
           /\ \E w \in {"malformed", "bad"} :
                Saying(p, act, w) # {} /\ (B = {First(Saying(p, act, w))} \/ B = Saying(p, act, w))
  <2>1. Heard(p, act) /\ act \in SUBSET Node
    BY <1>2, <1>3, <1>7 DEF Ready, Opening
  <2> QED
    BY <1>4, <1>7, <2>1
<1>8. CASE p.round = "request" /\ Liars(p, M) # {} /\ B = {First(Liars(p, M))}
  <2>1. Heard(p, M)
    BY <1>3, <1>8 DEF Ready, Opening, Signing
  <2>2. Liars(p, M) \cap Honest = {}
    BY <1>1, <1>8, <2>1, NoHonestLiar
  <2>3. First(Liars(p, M)) \in Liars(p, M)
    BY <1>2, <1>8, FirstIn DEF Liars
  <2> QED
    BY <1>8, <2>2, <2>3
<1>9. CASE p.round = "supply" /\ Lost(p, M) # {} /\ B = {First(Lost(p, M))}
  <2>1. Mended(p, M) \subseteq M \cap Faulty
    BY <1>1, <1>2, <1>9 DEF SupplyClean, Mended
  <2>2. Lost(p, M) \subseteq M \cap Faulty
    BY <2>1 DEF Lost
  <2>3. First(Lost(p, M)) \in Lost(p, M)
    BY <1>2, <1>9, <2>2, FirstIn
  <2> QED
    BY <1>9, <2>2, <2>3 DEF Honest
<1>10. CASE /\ p.round = "defend" /\ Accusers(p, M) # {}
            /\ LET a == First(Accusers(p, M))
                   d == First(Complaints(p, a))
               IN d \in M /\ B = Blame(p, a, d)
  <2>1. PICK a : a = First(Accusers(p, M))
    OBVIOUS
  <2>2. PICK d : d = First(Complaints(p, a))
    OBVIOUS
  <2>3. a \in M /\ Complaints(p, a) # {}
    BY <1>2, <1>10, <2>1, FirstIn DEF Accusers
  <2>4. d \in M /\ B = Blame(p, a, d)
    BY <1>10, <2>1, <2>2
  <2>5. d \in Complaints(p, a)
    <3>1. Heard([p EXCEPT !.round = "complain"], M)
      BY <1>3, <1>10 DEF Ready
    <3>2. Complaints(p, a) \in SUBSET Node
      BY <1>1, <2>3, <3>1, ComplaintsType
    <3> QED
      BY <2>2, <2>3, <3>2, FirstIn
  <2> QED
    BY <1>1, <1>3, <1>10, <2>3, <2>4, <2>5, AdjudicatedBlame
<1> QED
  BY <1>3, <1>5, <1>6, <1>7, <1>8, <1>9, <1>10 DEF Condemns

(* Who is blamed by a step of an honest member, if anybody.                *)
LEMMA NewlyBlamed ==
  ASSUME BInv, BlamedIs', HonestActive', HonestLists, HonestDefends, LoneMisdealers,
         NEW n \in Honest, Step(n) \/ Timeout(n), UNCHANGED plan, NEW o \in Honest
  PROVE  \A h \in Honest : h \in blamed'[o] => h \in blamed[o] \/ Excuse(h)
<1>0. /\ AInv /\ BlamedIs /\ TypeOK /\ IInv /\ OnCourse /\ DefendHeard
      /\ at \in [Honest -> Place] /\ committee \in [Honest -> SUBSET Node]
      /\ active \in [Honest -> SUBSET Node] /\ blamed \in [Honest -> SUBSET Node]
      /\ outcome \in [Honest -> {"running", "output", "expelled", "refused", "aborted", "failed", "panicked"}]
  BY DEF BInv, AInv, IInv, TypeOK
<1>1. outcome[n] = "running" /\ Acts(n) /\ blamed[n] = Node \ committee[n]
  BY <1>0, StepActs DEF BlamedIs
<1>2. CASE o # n
  <2>1. CASE Stops(n) \/ Continues(n)
    BY <2>1 DEF Stops, Continues, Reports
  <2>2. CASE Aborts(n)
    BY <1>0, <1>2, <2>2 DEF Aborts, Abort
  <2>3. CASE Passes(n)
    BY <1>0, <1>2, <2>3, PassEffect DEF Passes
  <2> QED
    BY <1>0, <2>1, <2>2, <2>3, StepCases
<1>3. ASSUME committee'[n] = committee[n], outcome'[n] \in {"running", "output"}
      PROVE  \A h \in Honest : h \in blamed'[n] => h \in blamed[n]
  <2>1. Honest \cap committee[n] \subseteq active'[n]
    BY <1>3 DEF HonestActive
  <2>2. blamed'[n] \in {Node \ committee[n], Node \ active'[n]}
    BY <1>3 DEF BlamedIs
  <2> QED
    BY <1>1, <2>1, <2>2
<1>4. ASSUME NEW B \in SUBSET committee[n], Abort(n, B), \A h \in B \cap Honest : Excuse(h)
      PROVE  \A h \in Honest : h \in blamed'[n] => h \in blamed[n] \/ Excuse(h)
  BY <1>0, <1>4 DEF Abort
<1>5. CASE o = n /\ Stops(n)
  BY <1>5 DEF Stops
<1>6. CASE o = n /\ ClearsPlace(n)
  BY <1>0, <1>1, <1>3, <1>6 DEF ClearsPlace, Proceeds
<1>7. CASE o = n /\ DecidesPlace(n)
  <2>1. PICK B \in SUBSET committee[n] :
          Decides(at[n], committee[n], active[n], B) /\ Abort(n, B)
    BY <1>7 DEF DecidesPlace
  <2>2. \A h \in B \cap Honest : Excuse(h)
    BY <1>0, <2>1, DecidedBlame
  <2> QED
    BY <1>4, <1>7, <2>1, <2>2
<1>8. CASE o = n /\ Signs(n)
  <2>1. CASE \E B \in SUBSET (committee[n] \ Honest) : B # {} /\ Abort(n, B)
    BY <1>4, <1>8, <2>1
  <2>2. ASSUME NEW R \in SUBSET active[n], Pass(n, R)
        PROVE  committee' = committee /\ outcome'[n] \in {"running", "output"}
    BY <1>0, <1>1, <2>2, PassEffect
  <2> QED
    BY <1>3, <1>8, <2>1, <2>2 DEF Signs
<1> QED
  BY <1>1, <1>2, <1>5, <1>6, <1>7, <1>8 DEF Acts

HonestBlame ==
  LoneMisdealers => \A n, h \in Honest : h \in blamed[n] => Excuse(h)

LEMMA KeepsBlame ==
  ASSUME BInv, BInv', Next, HonestLists, HonestDefends, HonestBlame
  PROVE  HonestBlame'
<1>0. /\ UNCHANGED plan /\ HonestActive' /\ BlamedIs' /\ HeardOnce'
      /\ said \subseteq said' /\ shares \subseteq shares'
  BY SaidGrows DEF BInv, AInv, IInv, Next
<1>1. SUFFICES ASSUME LoneMisdealers', NEW o \in Honest, NEW h \in Honest, h \in blamed'[o]
      PROVE  Excuse(h)'
  BY DEF HonestBlame
<1>2. LoneMisdealers
  BY <1>0, <1>1 DEF LoneMisdealers
<1>3. h \in blamed[o] \/ Excuse(h)
  <2>1. ASSUME NEW f \in Faulty, NEW n \in Honest, Say(f, at[n]) \/ Give(f, at[n], n)
        PROVE  blamed' = blamed
    BY <2>1 DEF Say, Give
  <2>2. ASSUME NEW n \in Honest, Step(n) \/ Timeout(n)
        PROVE  h \in blamed[o] \/ Excuse(h)
    BY <1>0, <1>1, <1>2, <2>2, NewlyBlamed
  <2> QED
    BY <1>1, <2>1, <2>2 DEF Next
<1>4. Excuse(h)
  BY <1>2, <1>3 DEF HonestBlame
<1> QED
  BY <1>0, <1>4, ExcuseStays

-----------------------------------------------------------------------------
SInv == BInv /\ HonestLists /\ HonestDefends /\ FinishedClean /\ HonestBlame

LEMMA NextShared ==
  ASSUME SInv, [Next]_vars
  PROVE  SInv'
<1>1. BInv' /\ AInv' /\ IInv' /\ BInv /\ AInv
  BY NextBlame DEF SInv, BInv, AInv
<1>2. CASE Next
  <2>1. HonestLists' /\ HonestDefends'
    BY <1>1, <1>2, KeepsLists, KeepsDefends DEF SInv
  <2>2. FinishedClean'
    BY <1>1, <1>2, KeepsFinished DEF SInv
  <2>3. HonestBlame'
    BY <1>1, <1>2, KeepsBlame DEF SInv
  <2> QED
    BY <1>1, <2>1, <2>2, <2>3 DEF SInv
<1>3. CASE UNCHANGED vars
  <2>1. UNCHANGED <<plan, at, committee, active, outcome, blamed, said, shares>>
    BY <1>3 DEF vars
  <2>2. /\ \A p, n : Names(p, n)' = Names(p, n)
        /\ \A p, d, n : Share(p, d, n)' = Share(p, d, n)
        /\ \A p, n, ids : Dealt(p, n, ids)' = Dealt(p, n, ids)
        /\ \A p, ids : Heard(p, ids)' = Heard(p, ids)
        /\ \A k, s : Start(k, s)' = Start(k, s)
    BY <2>1 DEF Names, From, Share, Dealt, Heard, Start, Stages
  <2>3. /\ \A p, o, M, list : ListIs(p, o, M, list)' = ListIs(p, o, M, list)
        /\ \A c, o, M, list : DefenseIs(c, o, M, list)' = DefenseIs(c, o, M, list)
        /\ \A o, k : Members(o, k)' = Members(o, k)
        /\ \A o : Pos(o)' = Pos(o)
    BY <2>1, <2>2 DEF ListIs, DefenseIs, Members, Pos, End, Stages
  <2>4. HonestLists' /\ HonestDefends'
    BY <2>1, <2>2, <2>3 DEF SInv, HonestLists, HonestDefends
  <2>5. FinishedClean'
    <3>1. \A p, M : CleanDealing(p, M) => CleanDealing(p, M)'
      BY <2>2 DEF CleanDealing, Reconstructed, Recoverable
    <3> QED
      BY <2>1, <2>2, <2>3, <3>1 DEF SInv, FinishedClean, Stages
  <2>6. HonestBlame'
    <3>1. \A h : Excuse(h) => Excuse(h)'
      BY <2>1, <2>2 DEF Excuse
    <3> QED
      BY <2>1, <3>1 DEF SInv, HonestBlame, LoneMisdealers
  <2> QED
    BY <1>1, <2>4, <2>5, <2>6 DEF SInv
<1> QED
  BY <1>2, <1>3

LEMMA InitShared == Init => SInv
<1> SUFFICES ASSUME Init PROVE SInv
  OBVIOUS
<1>1. AInv /\ TypeOK
  BY InitAgreement DEF AInv, IInv
<1>2. BlamedIs /\ AbortedFor /\ HonestBlame
  BY DEF Init, BlamedIs, AbortedFor, HonestBlame
<1>3. \A m \in said : m.at = Start(0, 1)
  BY DEF Init, Message
<1>4. Stages[1] \in Dealing \cup Opening
  BY <1>1, StagesType
<1>5. \A m \in said : m.at.round \notin {"complain", "request", "defend"}
  BY <1>3, <1>4 DEF Start, Dealing, Opening, Signing
<1>6. HonestLists /\ HonestDefends
  BY <1>5 DEF HonestLists, HonestDefends
<1>7. FinishedClean
  <2>1. \A n \in Honest : Pos(n).stage = 1
    BY DEF Init, Pos, Start
  <2> QED
    BY <2>1 DEF FinishedClean
<1> QED
  BY <1>1, <1>2, <1>6, <1>7 DEF SInv, BInv

LEMMA SharedInvariance == Spec => []SInv
<1>1. Init => SInv
  BY InitShared
<1>2. SInv /\ [Next]_vars => SInv'
  BY NextShared
<1> QED
  BY <1>1, <1>2, PTL DEF Spec

(* Once an honest member has finished a dealing, every honest member of    *)
(* its committee holds a good share of every dealing in it, or finds it in *)
(* what is public: the complaint round of joint_vss_run and triple_run and *)
(* the reconstruction of triple_robust_run leave nobody without one, when  *)
(* who sends a malformed share is the only one to misdeal in its round.    *)
THEOREM SharedTheorem == Spec => []SharedByAll
<1>1. SInv => SharedByAll
  BY SharedFrom DEF SInv, BInv
<1> QED
  BY <1>1, SharedInvariance, PTL

(* An honest member is blamed only after a faulty dealer gave it a bad     *)
(* share and answered its complaint with a good one, which complaint_round *)
(* cannot tell from a false complaint; nobody is blamed for an opening, a  *)
(* request, a supply or a signature share that is honest.                  *)
THEOREM BlameTheorem == Spec => []HonestBlameNeedsBadShare
<1>1. SInv => HonestBlameNeedsBadShare
  BY DEF SInv, HonestBlame, Excuse, HonestBlameNeedsBadShare
<1> QED
  BY <1>1, SharedInvariance, PTL
=============================================================================
