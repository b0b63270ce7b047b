--------------------------- MODULE Sharing_proofs ---------------------------
(***************************************************************************)
(* Proofs about Sharing, for every prime Q above 3 and every generator:    *)
(* inverses exist, sums and products may be taken in any order, a          *)
(* polynomial of n coefficients is determined by its values at any n       *)
(* places, and what is opened from verified shares is what was committed   *)
(* to.                                                                     *)
(***************************************************************************)
EXTENDS Sharing, FiniteSetTheorems, NaturalsInduction, WellFoundedInduction, TLAPS

(* A non-empty set of natural numbers has a least element.                 *)
LEMMA LeastOfNat ==
  ASSUME NEW S \in SUBSET Nat, S # {}
  PROVE  \E x \in S : \A y \in S : x <= y
<1>1. PICK x \in S : \A y \in S : <<y, x>> \notin OpToRel(<, Nat)
  BY NatLessThanWellFounded, WFMin
<1>2. \A y \in S : ~(y < x)
  BY <1>1 DEF OpToRel
<1> QED
  BY <1>2

(* Induction over the numbers, with a set for the property.                *)
LEMMA Induct ==
  ASSUME NEW G \in SUBSET Nat, 0 \in G, \A n \in G : n + 1 \in G
  PROVE  G = Nat
<1> SUFFICES ASSUME Nat \ G # {} PROVE FALSE
  OBVIOUS
<1>1. PICK m \in Nat \ G : \A y \in Nat \ G : m <= y
  BY LeastOfNat
<1>2. m # 0
  OBVIOUS
<1>3. m - 1 \in Nat /\ m - 1 \notin Nat \ G
  BY <1>1, <1>2
<1>4. (m - 1) + 1 \in G
  BY <1>3
<1> QED
  BY <1>4

(* Induction over the subsets of a finite set.                             *)
LEMMA SetInduct ==
  ASSUME NEW S, IsFiniteSet(S), NEW G \in SUBSET SUBSET S,
         \A T \in SUBSET S : (\A i \in T : T \ {i} \in G) => T \in G
  PROVE  S \in G
<1> DEFINE D == {n \in Nat : \A T \in SUBSET S : Cardinality(T) = n => T \in G}
<1>1. \A T \in SUBSET S : IsFiniteSet(T) /\ Cardinality(T) \in Nat
  BY FS_Subset, FS_CardinalityType
<1>2. 0 \in D
  <2> SUFFICES ASSUME NEW T \in SUBSET S, Cardinality(T) = 0 PROVE T \in G
    OBVIOUS
  <2>1. T = {}
    BY <1>1, FS_EmptySet
  <2> QED
    BY <2>1
<1>3. ASSUME NEW n \in D PROVE n + 1 \in D
  <2> SUFFICES ASSUME NEW T \in SUBSET S, Cardinality(T) = n + 1 PROVE T \in G
    OBVIOUS
  <2>1. ASSUME NEW i \in T PROVE T \ {i} \in G
    <3>1. Cardinality(T \ {i}) = Cardinality(T) - 1
      BY <1>1, FS_RemoveElement
    <3> QED
      BY <3>1
  <2> QED
    BY <2>1
<1> HIDE DEF D
<1>4. D = Nat
  BY <1>2, <1>3, Induct DEF D
<1> QED
  BY <1>1, <1>4 DEF D

-----------------------------------------------------------------------------
(* Integers modulo Q *)

a \cong b == a % Q = b % Q

LEMMA IntClosed ==
  \A a, b \in Int : /\ a + b \in Int /\ a * b \in Int /\ a - b \in Int
                    /\ 0 * a = 0 /\ 1 * a = a /\ a + 0 = a /\ 0 + a = a /\ a * 0 = 0 /\ a * 1 = a
OBVIOUS

LEMMA ScalarInt == 
  Scalar \subseteq Nat /\ Scalar \subseteq Int /\ 0 \in Scalar /\ 1 \in Scalar /\ Gen \in Scalar
  /\ Q \in Nat \ {0, 1}
BY FieldAssumption DEF Scalar

LEMMA Quotient ==
  ASSUME NEW q \in Nat \ {0}, NEW a \in Int
  PROVE  a = q * (a \div q) + (a % q) /\ a \div q \in Int /\ a % q \in 0..(q - 1)
OBVIOUS

LEMMA QuotientUnique ==
  ASSUME NEW q \in Nat \ {0}, NEW k \in Int, NEW r \in 0..(q - 1)
  PROVE  (q * k + r) % q = r
<1> DEFINE s == (q * k + r) % q
           j == (q * k + r) \div q
<1>1. q * k + r \in Int
  OBVIOUS
<1>2. q * k + r = q * j + s /\ j \in Int /\ s \in 0..(q - 1)
  BY <1>1, Quotient
<1> HIDE DEF s, j
<1>3. q * (k - j) = s - r
  BY <1>2
<1>4. k - j >= 1 => q * (k - j) >= q
  BY <1>2
<1>5. k - j <= -1 => q * (k - j) <= -q
  BY <1>2
<1>6. k = j
  BY <1>2, <1>3, <1>4, <1>5
<1>7. s = r
  BY <1>2, <1>6
<1> QED
  BY <1>7 DEF s

(* Congruent numbers differ by a multiple of Q.                            *)
LEMMA CongWitness ==
  ASSUME NEW a \in Int, NEW b \in Int
  PROVE  a \cong b <=> \E k \in Int : a = b + Q * k
<1>0. Q \in Nat \ {0}
  BY FieldAssumption
<1>1. a = Q * (a \div Q) + (a % Q) /\ a \div Q \in Int /\ a % Q \in 0..(Q - 1)
  BY <1>0, Quotient
<1>2. b = Q * (b \div Q) + (b % Q) /\ b \div Q \in Int /\ b % Q \in 0..(Q - 1)
  BY <1>0, Quotient
<1>3. ASSUME a \cong b PROVE \E k \in Int : a = b + Q * k
  <2>1. a = b + Q * ((a \div Q) - (b \div Q))
    BY <1>0, <1>1, <1>2, <1>3 DEF \cong
  <2> QED
    BY <1>1, <1>2, <2>1
<1>4. ASSUME NEW k \in Int, a = b + Q * k PROVE a \cong b
  <2>1. PICK j \in Int : j = (b \div Q) + k
    BY <1>2
  <2>2. a = Q * j + (b % Q)
    BY <1>0, <1>2, <1>4, <2>1
  <2>3. (Q * j + (b % Q)) % Q = b % Q
    BY <1>0, <1>2, QuotientUnique
  <2> QED
    BY <2>2, <2>3 DEF \cong
<1> QED
  BY <1>3, <1>4

(* The field operations respect congruence.                                *)
LEMMA CongRing ==
  ASSUME NEW a \in Int, NEW b \in Int, NEW c \in Int, NEW d \in Int, a \cong b, c \cong d
  PROVE  a + c \cong b + d /\ a * c \cong b * d /\ a - c \cong b - d
<1>0. Q \in Int
  BY FieldAssumption
<1>1. PICK i \in Int : a = b + Q * i
  BY CongWitness
<1>2. PICK j \in Int : c = d + Q * j
  BY CongWitness
<1>3. a + c = (b + d) + Q * (i + j)
  BY <1>0, <1>1, <1>2
<1>4. a * c = b * d + Q * (b * j + i * d + Q * i * j)
  BY <1>0, <1>1, <1>2
<1>5. a - c = (b - d) + Q * (i - j)
  BY <1>0, <1>1, <1>2
<1>6. /\ i + j \in Int /\ b * j + i * d + Q * i * j \in Int /\ i - j \in Int
      /\ a + c \in Int /\ b + d \in Int /\ a * c \in Int /\ b * d \in Int
      /\ a - c \in Int /\ b - d \in Int
  BY <1>0
<1>7. a + c \cong b + d
  BY <1>3, <1>6, CongWitness
<1>8. a * c \cong b * d
  BY <1>4, <1>6, CongWitness
<1>9. a - c \cong b - d
  BY <1>5, <1>6, CongWitness
<1> QED
  BY <1>7, <1>8, <1>9

LEMMA Reduce ==
  ASSUME NEW a \in Int
  PROVE  a % Q \in Scalar /\ a % Q \cong a /\ (a \in Scalar => a % Q = a)
<1>0. Q \in Nat \ {0}
  BY FieldAssumption
<1>1. a % Q \in 0..(Q - 1)
  BY <1>0, Quotient
<1>2. ASSUME NEW r \in 0..(Q - 1) PROVE r % Q = r
  <2>1. (Q * 0 + r) % Q = r
    BY <1>0, QuotientUnique
  <2>2. Q * 0 + r = r
    BY <1>0
  <2> QED
    BY <2>1, <2>2
<1> QED
  BY <1>1, <1>2 DEF Scalar, \cong

LEMMA ScalarsEqual ==
  ASSUME NEW a \in Scalar, NEW b \in Scalar, a \cong b
  PROVE  a = b
BY Reduce, ScalarInt DEF \cong

LEMMA CongWith ==
  ASSUME NEW a \in Int, NEW b \in Int, NEW c \in Int, a \cong b
  PROVE  /\ a + c \cong b + c /\ c + a \cong c + b
         /\ a * c \cong b * c /\ c * a \cong c * b
         /\ a - c \cong b - c /\ c - a \cong c - b
<1>1. c \cong c
  BY DEF \cong
<1>2. a + c \cong b + c /\ a * c \cong b * c /\ a - c \cong b - c
  BY <1>1, CongRing
<1>3. c + a \cong c + b /\ c * a \cong c * b /\ c - a \cong c - b
  BY <1>1, CongRing
<1> QED
  BY <1>2, <1>3

(* A number that is not zero has an inverse, since Q is prime: otherwise   *)
(* the least multiple of it would divide Q.                                *)
LEMMA InverseExists ==
  ASSUME NEW a \in Int, ~(a \cong 0)
  PROVE  Inv(a) \in Scalar /\ a * Inv(a) \cong 1
<1> DEFINE D == {d \in 1..(Q - 1) : \E b \in Int : a * b \cong d}
<1>0. Q \in Nat \ {0, 1} /\ Q \in Int
  BY FieldAssumption
<1>1. a % Q \in D
  <2>1. a % Q \in Scalar /\ a % Q \cong a /\ a * 1 = a
    BY Reduce
  <2>2. a % Q # 0
    <3>1. 0 % Q = 0
      BY Reduce, ScalarInt
    <3> QED
      BY <3>1 DEF \cong
  <2>3. a % Q \in 1..(Q - 1)
    BY <1>0, <2>1, <2>2 DEF Scalar
  <2>4. a * 1 \cong a % Q /\ 1 \in Int
    BY <2>1 DEF \cong
  <2> QED
    BY <2>3, <2>4, Zenon
<1>2. PICK d \in D : \A y \in D : d <= y
  <2>1. 1..(Q - 1) \subseteq Nat
    BY <1>0
  <2>2. D \in SUBSET Nat /\ D # {}
    BY <1>1, <2>1, Zenon
  <2> QED
    BY <2>2, LeastOfNat
<1>3. PICK b \in Int : a * b \cong d
  BY <1>2
<1>4. d = 1
  <2> SUFFICES ASSUME d # 1 PROVE FALSE
    OBVIOUS
  <2>1. d \in 2..(Q - 1)
    BY <1>0, <1>2
  <2>2. Q % d # 0
    BY <2>1, FieldAssumption
  <2> DEFINE k == Q \div d
             r == Q % d
  <2>3. Q = d * k + r /\ k \in Int /\ r \in 0..(d - 1)
    <3>1. d \in Nat \ {0}
      BY <1>0, <2>1
    <3> QED
      BY <1>0, <3>1, Quotient
  <2> HIDE DEF k, r
  <2>4. d \in Int /\ r \in Int /\ a * b \in Int
    BY <1>2, <1>3, <2>3
  <2>5. (a * b) * k \cong d * k
    BY <1>3, <2>3, <2>4, CongWith
  <2>6. Q - ((a * b) * k) \cong Q - (d * k)
    <3>1. (a * b) * k \in Int /\ d * k \in Int
      BY <2>3, <2>4
    <3> QED
      BY <1>0, <2>5, <3>1, CongWith, Zenon
  <2>7. Q - (d * k) = r
    BY <2>3, <2>4
  <2>8. a * (-(b * k)) \cong Q - ((a * b) * k)
    <3>1. a * (-(b * k)) = (Q - ((a * b) * k)) + Q * (-1)
      BY <1>0, <1>3, <2>3
    <3>2. a * (-(b * k)) \in Int /\ Q - ((a * b) * k) \in Int /\ -1 \in Int
      BY <1>0, <1>3, <2>3, <2>4
    <3> QED
      BY <3>1, <3>2, CongWitness
  <2>9. a * (-(b * k)) \cong r
    BY <2>6, <2>7, <2>8 DEF \cong
  <2>10. -(b * k) \in Int /\ r \in 1..(Q - 1) /\ ~(d <= r)
    BY <1>0, <1>3, <2>1, <2>2, <2>3 DEF r
  <2>11. r \in D
    BY <2>9, <2>10
  <2> QED
    BY <1>2, <2>10, <2>11
<1>5. b % Q \in Scalar /\ b % Q \cong b
  BY Reduce
<1>6. a * (b % Q) \cong 1
  <2>1. a * (b % Q) \cong a * b
    BY <1>5, ScalarInt, CongWith
  <2> QED
    BY <1>3, <1>4, <2>1 DEF \cong
<1>7. \A c \in Scalar : (a * c) % Q = 1 <=> a * c \cong 1
  <2>1. 1 % Q = 1
    BY Reduce, ScalarInt
  <2> QED
    BY <2>1 DEF \cong
<1> QED
  BY <1>5, <1>6, <1>7 DEF Inv

(* A number that is congruent to zero, and the ideal they form.            *)
LEMMA ZeroIdeal ==
  ASSUME NEW a \in Int, a \cong 0
  PROVE  \A c \in Int : a * c \cong 0 /\ c * a \cong 0 /\ (c \cong 0 => a + c \cong 0 /\ a - c \cong 0)
<1> SUFFICES ASSUME NEW c \in Int
             PROVE  a * c \cong 0 /\ c * a \cong 0 /\ (c \cong 0 => a + c \cong 0 /\ a - c \cong 0)
  OBVIOUS
<1>0. 0 \in Int
  OBVIOUS
<1>1. a * c \cong 0 * c
  BY <1>0, CongWith, Zenon
<1>2. 0 * c = 0 /\ c * a = a * c
  OBVIOUS
<1>3. c \cong 0 => a + c \cong 0 + 0 /\ a - c \cong 0 - 0
  BY CongRing
<1>4. 0 + 0 = 0 /\ 0 - 0 = 0
  OBVIOUS
<1> QED
  BY <1>1, <1>2, <1>3, <1>4

LEMMA Difference ==
  ASSUME NEW a \in Int, NEW b \in Int
  PROVE  a \cong b <=> a - b \cong 0
<1>1. ASSUME a \cong b PROVE a - b \cong 0
  <2>1. a - b \cong b - b /\ b - b = 0
    BY <1>1, CongWith
  <2> QED
    BY <2>1
<1>2. ASSUME a - b \cong 0 PROVE a \cong b
  <2>1. a - b \in Int /\ (a - b) + b = a /\ 0 + b = b /\ 0 \in Int
    OBVIOUS
  <2>2. (a - b) + b \cong 0 + b
    BY <1>2, <2>1, CongWith, Zenon
  <2> QED
    BY <2>1, <2>2
<1> QED
  BY <1>1, <1>2

LEMMA NoZeroDivisors ==
  ASSUME NEW a \in Int, NEW b \in Int, a * b \cong 0, ~(a \cong 0)
  PROVE  b \cong 0
<1>1. Inv(a) \in Int /\ a * Inv(a) \cong 1
  BY InverseExists, ScalarInt
<1>2. Inv(a) * (a * b) \cong 0
  BY <1>1, ZeroIdeal
<1>3. (a * Inv(a)) * b \cong 1 * b
  <2>1. a * Inv(a) \in Int /\ 1 \in Int
    BY <1>1
  <2> QED
    BY <1>1, <2>1, CongWith, Zenon
<1>4. (a * Inv(a)) * b = Inv(a) * (a * b) /\ 1 * b = b
  BY <1>1
<1> QED
  BY <1>2, <1>3, <1>4 DEF \cong

LEMMA Cancel ==
  ASSUME NEW a \in Int, NEW b \in Int, NEW c \in Int, c * a \cong c * b, ~(c \cong 0)
  PROVE  a \cong b
<1>1. c * a - c * b \cong 0
  BY Difference
<1>2. c * a - c * b = c * (a - b) /\ a - b \in Int
  OBVIOUS
<1>3. a - b \cong 0
  BY <1>1, <1>2, NoZeroDivisors
<1> QED
  BY <1>3, Difference

LEMMA DistinctScalars ==
  ASSUME NEW a \in Scalar, NEW b \in Scalar, a # b
  PROVE  a - b \in Int /\ ~(a - b \cong 0)
BY Difference, ScalarsEqual, ScalarInt

-----------------------------------------------------------------------------
(* Folds *)

(* A function that is defined by taking elements out of a finite set, one  *)
(* after the other, exists.                                                *)
FoldsBy(h, step, base, ch, S) ==
  \A T \in SUBSET S : h[T] = IF T = {} THEN base ELSE step[<<ch[T], h[T \ {ch[T]}]>>]

Chooses(ch, S) == \A T \in SUBSET S : T # {} => ch[T] \in T

LEMMA FoldExists ==
  ASSUME NEW S, IsFiniteSet(S), NEW V, NEW base \in V, NEW step \in [S \X V -> V],
         NEW ch, Chooses(ch, S)
  PROVE  \E h \in [SUBSET S -> V] : FoldsBy(h, step, base, ch, S)
<1> DEFINE Holds(h, T) == h[T] = IF T = {} THEN base ELSE step[<<ch[T], h[T \ {ch[T]}]>>]
           D == {n \in Nat : \E h \in [SUBSET S -> V] :
                               \A T \in SUBSET S : Cardinality(T) <= n => Holds(h, T)}
<1> USE DEF Chooses
<1>1. \A T \in SUBSET S : IsFiniteSet(T) /\ Cardinality(T) \in Nat /\ (Cardinality(T) = 0 <=> T = {})
  BY FS_Subset, FS_CardinalityType, FS_EmptySet
<1>2. 0 \in D
  <2> DEFINE h == [T \in SUBSET S |-> base]
  <2>1. h \in [SUBSET S -> V] /\ \A T \in SUBSET S : Cardinality(T) <= 0 => Holds(h, T)
    BY <1>1
  <2> QED
    BY <2>1
<1>3. ASSUME NEW n \in D PROVE n + 1 \in D
  <2>1. PICK h \in [SUBSET S -> V] : \A T \in SUBSET S : Cardinality(T) <= n => Holds(h, T)
    OBVIOUS
  <2> DEFINE g == [T \in SUBSET S |-> IF T = {} THEN base ELSE step[<<ch[T], h[T \ {ch[T]}]>>]]
  <2>2. g \in [SUBSET S -> V]
    <3> SUFFICES ASSUME NEW T \in SUBSET S, T # {}
                 PROVE  step[<<ch[T], h[T \ {ch[T]}]>>] \in V
      OBVIOUS
    <3>1. ch[T] \in S /\ h[T \ {ch[T]}] \in V
      OBVIOUS
    <3> QED
      BY <3>1
  <2>3. \A T \in SUBSET S : Cardinality(T) <= n => g[T] = h[T]
    BY <2>1
  <2>4. ASSUME NEW T \in SUBSET S, Cardinality(T) <= n + 1 PROVE Holds(g, T)
    <3>1. CASE T = {}
      BY <3>1
    <3>2. CASE T # {}
      <4>1. ch[T] \in T /\ T \ {ch[T]} \in SUBSET S
        BY <3>2
      <4>2. Cardinality(T \ {ch[T]}) = Cardinality(T) - 1
        BY <1>1, <4>1, FS_RemoveElement
      <4>3. g[T \ {ch[T]}] = h[T \ {ch[T]}]
        <5>1. Cardinality(T \ {ch[T]}) <= n
          BY <1>1, <2>4, <4>2
        <5> HIDE DEF g
        <5> QED
          BY <2>3, <4>1, <5>1
      <4> QED
        BY <3>2, <4>3
    <3> QED
      BY <3>1, <3>2
  <2> HIDE DEF g, Holds
  <2> QED
    BY <2>2, <2>4
<1>4. D = Nat
  <2>1. D \in SUBSET Nat
    OBVIOUS
  <2> HIDE DEF D
  <2> QED
    BY <1>2, <1>3, <2>1, Induct
<1>5. PICK h \in [SUBSET S -> V] : \A T \in SUBSET S : Cardinality(T) <= Cardinality(S) => Holds(h, T)
  <2>1. Cardinality(S) \in D
    BY <1>1, <1>4
  <2> QED
    BY <2>1
<1>6. \A T \in SUBSET S : Cardinality(T) <= Cardinality(S)
  BY FS_Subset
<1>7. FoldsBy(h, step, base, ch, S)
  BY <1>5, <1>6 DEF FoldsBy
<1> QED
  BY <1>7

(* The sum of f over the set S.                                            *)
SumOn(f, S) == FoldFunctionOnSet(LAMBDA a, b : (a + b) % Q, 0, f, S)

First(s) == CHOOSE x \in s : TRUE

IsSum(h, f, S) ==
  h = [s \in SUBSET S |-> IF s = {} THEN 0 ELSE (f[First(s)] + h[s \ {First(s)}]) % Q]

LEMMA SumIsFold == 
  /\ \A f, S : SumOn(f, S) = (CHOOSE h : IsSum(h, f, S))[S]
  /\ \A f : SumOf(f) = SumOn(f, DOMAIN f)
<1>1. ASSUME NEW f, NEW S PROVE SumOn(f, S) = (CHOOSE h : IsSum(h, f, S))[S]
  BY Zenon DEF SumOn, IsSum, First, FoldFunctionOnSet, MapThenFoldSet
<1>2. ASSUME NEW f PROVE SumOf(f) = SumOn(f, DOMAIN f)
  BY Zenon DEF SumOn, SumOf, FoldFunction
<1> QED
  BY <1>1, <1>2

LEMMA SumExists ==
  ASSUME NEW S, IsFiniteSet(S), NEW f, \A i \in S : f[i] \in Int
  PROVE  \E h \in [SUBSET S -> Scalar] : IsSum(h, f, S)
<1> DEFINE step == [p \in S \X Scalar |-> (f[p[1]] + p[2]) % Q]
           ch == [s \in SUBSET S |-> First(s)]
<1>1. step \in [S \X Scalar -> Scalar]
  <2> SUFFICES ASSUME NEW i \in S, NEW v \in Scalar PROVE (f[i] + v) % Q \in Scalar
    OBVIOUS
  <2>1. f[i] + v \in Int
    BY ScalarInt
  <2> QED
    BY <2>1, Reduce
<1>2. Chooses(ch, S)
  BY DEF First, Chooses
<1>3. PICK h \in [SUBSET S -> Scalar] : FoldsBy(h, step, 0, ch, S)
  <2>1. 0 \in Scalar
    BY ScalarInt
  <2> HIDE DEF step, ch
  <2> QED
    BY <1>1, <1>2, <2>1, FoldExists, Zenon
<1>4. ASSUME NEW T \in SUBSET S, T # {}
      PROVE  h[T] = (f[First(T)] + h[T \ {First(T)}]) % Q
  <2>1. First(T) \in S /\ ch[T] = First(T) /\ T \ {First(T)} \in SUBSET S
    BY <1>2, <1>4 DEF Chooses
  <2>2. h[T \ {First(T)}] \in Scalar
    BY <2>1
  <2> QED
    BY <1>3, <1>4, <2>1, <2>2 DEF FoldsBy
<1>5. IsSum(h, f, S)
  BY <1>3, <1>4 DEF IsSum, FoldsBy
<1> QED
  BY <1>5

LEMMA SumUnique ==
  ASSUME NEW f, NEW S, NEW R, NEW h, NEW g, IsSum(h, f, S), IsSum(g, f, R),
         NEW T, T \subseteq S, T \subseteq R, IsFiniteSet(T)
  PROVE  h[T] = g[T]
<1> DEFINE G == {s \in SUBSET T : h[s] = g[s]}
<1>1. {} \in G
  BY DEF IsSum
<1>2. ASSUME NEW s \in SUBSET T, s # {}, s \ {First(s)} \in G PROVE s \in G
  BY <1>2 DEF IsSum
<1>3. \A s \in SUBSET T : s # {} => First(s) \in s
  BY DEF First
<1>4. ASSUME NEW s \in SUBSET T, \A i \in s : s \ {i} \in G PROVE s \in G
  BY <1>1, <1>2, <1>3, <1>4
<1> HIDE DEF G
<1>5. T \in G
  <2>1. G \in SUBSET SUBSET T
    BY DEF G
  <2> QED
    BY <1>4, <2>1, SetInduct
<1> QED
  BY <1>5 DEF G

LEMMA SumStep ==
  ASSUME NEW S, IsFiniteSet(S), NEW f, \A i \in S : f[i] \in Int
  PROVE  /\ SumOn(f, S) \in Scalar
         /\ S = {} => SumOn(f, S) = 0
         /\ S # {} => SumOn(f, S) = (f[First(S)] + SumOn(f, S \ {First(S)})) % Q
<1> DEFINE Has(R) == /\ IsSum(CHOOSE h : IsSum(h, f, R), f, R)
                     /\ (CHOOSE h : IsSum(h, f, R)) \in [SUBSET R -> Scalar]
<1>1. ASSUME NEW R \in SUBSET S PROVE Has(R)
  <2>1. IsFiniteSet(R)
    BY FS_Subset
  <2>2. PICK g \in [SUBSET R -> Scalar] : IsSum(g, f, R)
    BY <2>1, SumExists
  <2> DEFINE k == CHOOSE h : IsSum(h, f, R)
  <2>3. IsSum(k, f, R)
    BY <2>2
  <2> HIDE DEF k
  <2>4. \A T \in SUBSET R : k[T] = g[T]
    BY <2>1, <2>2, <2>3, FS_Subset, SumUnique
  <2>5. k = g
    <3>1. DOMAIN k = SUBSET R
      BY <2>3 DEF IsSum
    <3>2. k = [T \in SUBSET R |-> k[T]]
      BY <2>3 DEF IsSum
    <3> QED
      BY <2>4, <3>1, <3>2
  <2> QED
    BY <2>2, <2>3, <2>5 DEF k
<1> DEFINE k == CHOOSE h : IsSum(h, f, S)
<1>2. IsSum(k, f, S) /\ k \in [SUBSET S -> Scalar] /\ SumOn(f, S) = k[S]
  BY <1>1, SumIsFold
<1>3. ASSUME NEW T \in SUBSET S PROVE SumOn(f, T) = k[T]
  <2>1. Has(T) /\ SumOn(f, T) = (CHOOSE h : IsSum(h, f, T))[T]
    BY <1>1, SumIsFold
  <2>2. IsFiniteSet(T)
    BY FS_Subset
  <2> HIDE DEF k
  <2> QED
    BY <1>2, <2>1, <2>2, SumUnique
<1> HIDE DEF k
<1>4. S = {} => k[S] = 0
  BY <1>2 DEF IsSum
<1>5. S # {} => k[S] = (f[First(S)] + k[S \ {First(S)}]) % Q
  BY <1>2 DEF IsSum
<1> QED
  BY <1>2, <1>3, <1>4, <1>5

LEMMA CongTrans == \A a, b, c : (a \cong b /\ b \cong c => a \cong c) /\ (a \cong b => b \cong a)
BY Zenon DEF \cong

LEMMA SumSwap ==
  \A a, b, s, u, v, w \in Int :
    s \cong a + u /\ u \cong b + w /\ v \cong a + w => s \cong b + v
<1> SUFFICES ASSUME NEW a \in Int, NEW b \in Int, NEW s \in Int, NEW u \in Int, NEW v \in Int, NEW w \in Int,
                    s \cong a + u, u \cong b + w, v \cong a + w
             PROVE  s \cong b + v
  OBVIOUS
<1>0. Q \in Int /\ a + u \in Int /\ b + w \in Int /\ a + w \in Int /\ b + v \in Int
  BY FieldAssumption
<1>1. PICK i \in Int : s = (a + u) + Q * i
  BY <1>0, CongWitness
<1>2. PICK j \in Int : u = (b + w) + Q * j
  BY <1>0, CongWitness
<1>3. PICK k \in Int : v = (a + w) + Q * k
  BY <1>0, CongWitness
<1>4. s = (b + v) + Q * (i + j - k) /\ i + j - k \in Int
  BY <1>0, <1>1, <1>2, <1>3
<1> QED
  BY <1>0, <1>4, CongWitness

(* Any term may be taken out of a sum.                                     *)
LEMMA SumTake ==
  ASSUME NEW S, IsFiniteSet(S), NEW f, \A i \in S : f[i] \in Int, NEW i \in S
  PROVE  SumOn(f, S) \cong f[i] + SumOn(f, S \ {i})
<1> DEFINE G == {T \in SUBSET S : \A j \in T : SumOn(f, T) \cong f[j] + SumOn(f, T \ {j})}
<1>0. \A T \in SUBSET S : IsFiniteSet(T) /\ SumOn(f, T) \in Int
  BY FS_Subset, SumStep, ScalarInt
<1>1. ASSUME NEW T \in SUBSET S, \A j \in T : T \ {j} \in G PROVE T \in G
  <2> SUFFICES ASSUME NEW j \in T PROVE SumOn(f, T) \cong f[j] + SumOn(f, T \ {j})
    OBVIOUS
  <2> DEFINE c == First(T)
             u == SumOn(f, T \ {c})
             v == SumOn(f, T \ {j})
             w == SumOn(f, (T \ {c}) \ {j})
  <2>1. c \in T
    BY DEF First
  <2>2. f[c] \in Int /\ f[j] \in Int /\ u \in Int /\ v \in Int /\ w \in Int
    <3> HIDE DEF c
    <3> QED
      BY <1>0, <2>1
  <2>3. SumOn(f, T) \cong f[c] + u
    <3>1. SumOn(f, T) = (f[c] + u) % Q
      BY <1>0, SumStep
    <3>2. f[c] + u \in Int
      BY <2>2
    <3> QED
      BY <3>1, <3>2, Reduce
  <2>4. CASE j = c
    BY <2>3, <2>4
  <2>5. CASE j # c
    <3>1. u \cong f[j] + w
      <4>1. T \ {c} \in G /\ j \in T \ {c}
        BY <1>1, <2>1, <2>5
      <4> HIDE DEF c
      <4> QED
        BY <4>1
    <3>2. v \cong f[c] + w
      <4>1. T \ {j} \in G /\ c \in T \ {j} /\ (T \ {j}) \ {c} = (T \ {c}) \ {j}
        BY <1>1, <2>1, <2>5
      <4> HIDE DEF c
      <4> QED
        BY <4>1
    <3>3. SumOn(f, T) \in Int
      BY <1>0
    <3> HIDE DEF c, u, v, w
    <3>4. SumOn(f, T) \cong f[j] + v
      BY <2>2, <2>3, <3>1, <3>2, <3>3, SumSwap
    <3> QED
      BY <3>4 DEF v
  <2> QED
    BY <2>4, <2>5
<1>2. S \in G
  <2>1. G \in SUBSET SUBSET S
    OBVIOUS
  <2> HIDE DEF G
  <2> QED
    BY <1>1, <2>1, SetInduct
<1> QED
  BY <1>2

(* The product of f over the set S.                                            *)
ProdOn(f, S) == FoldFunctionOnSet(LAMBDA a, b : (a * b) % Q, 1, f, S)

IsProd(h, f, S) ==
  h = [s \in SUBSET S |-> IF s = {} THEN 1 ELSE (f[First(s)] * h[s \ {First(s)}]) % Q]

LEMMA ProdIsFold == 
  /\ \A f, S : ProdOn(f, S) = (CHOOSE h : IsProd(h, f, S))[S]
  /\ \A f : ProdOf(f) = ProdOn(f, DOMAIN f)
<1>1. ASSUME NEW f, NEW S PROVE ProdOn(f, S) = (CHOOSE h : IsProd(h, f, S))[S]
  BY Zenon DEF ProdOn, IsProd, First, FoldFunctionOnSet, MapThenFoldSet
<1>2. ASSUME NEW f PROVE ProdOf(f) = ProdOn(f, DOMAIN f)
  BY Zenon DEF ProdOn, ProdOf, FoldFunction
<1> QED
  BY <1>1, <1>2

LEMMA ProdExists ==
  ASSUME NEW S, IsFiniteSet(S), NEW f, \A i \in S : f[i] \in Int
  PROVE  \E h \in [SUBSET S -> Scalar] : IsProd(h, f, S)
<1> DEFINE step == [p \in S \X Scalar |-> (f[p[1]] * p[2]) % Q]
           ch == [s \in SUBSET S |-> First(s)]
<1>1. step \in [S \X Scalar -> Scalar]
  <2> SUFFICES ASSUME NEW i \in S, NEW v \in Scalar PROVE (f[i] * v) % Q \in Scalar
    OBVIOUS
  <2>1. f[i] * v \in Int
    BY ScalarInt
  <2> QED
    BY <2>1, Reduce
<1>2. Chooses(ch, S)
  BY DEF First, Chooses
<1>3. PICK h \in [SUBSET S -> Scalar] : FoldsBy(h, step, 1, ch, S)
  <2>1. 1 \in Scalar
    BY ScalarInt
  <2> HIDE DEF step, ch
  <2> QED
    BY <1>1, <1>2, <2>1, FoldExists, Zenon
<1>4. ASSUME NEW T \in SUBSET S, T # {}
      PROVE  h[T] = (f[First(T)] * h[T \ {First(T)}]) % Q
  <2>1. First(T) \in S /\ ch[T] = First(T) /\ T \ {First(T)} \in SUBSET S
    BY <1>2, <1>4 DEF Chooses
  <2>2. h[T \ {First(T)}] \in Scalar
    BY <2>1
  <2> QED
    BY <1>3, <1>4, <2>1, <2>2 DEF FoldsBy
<1>5. IsProd(h, f, S)
  BY <1>3, <1>4 DEF IsProd, FoldsBy
<1> QED
  BY <1>5

LEMMA ProdUnique ==
  ASSUME NEW f, NEW S, NEW R, NEW h, NEW g, IsProd(h, f, S), IsProd(g, f, R),
         NEW T, T \subseteq S, T \subseteq R, IsFiniteSet(T)
  PROVE  h[T] = g[T]
<1> DEFINE G == {s \in SUBSET T : h[s] = g[s]}
<1>1. {} \in G
  BY DEF IsProd
<1>2. ASSUME NEW s \in SUBSET T, s # {}, s \ {First(s)} \in G PROVE s \in G
  BY <1>2 DEF IsProd
<1>3. \A s \in SUBSET T : s # {} => First(s) \in s
  BY DEF First
<1>4. ASSUME NEW s \in SUBSET T, \A i \in s : s \ {i} \in G PROVE s \in G
  BY <1>1, <1>2, <1>3, <1>4
<1> HIDE DEF G
<1>5. T \in G
  <2>1. G \in SUBSET SUBSET T
    BY DEF G
  <2> QED
    BY <1>4, <2>1, SetInduct
<1> QED
  BY <1>5 DEF G

LEMMA ProdStep ==
  ASSUME NEW S, IsFiniteSet(S), NEW f, \A i \in S : f[i] \in Int
  PROVE  /\ ProdOn(f, S) \in Scalar
         /\ S = {} => ProdOn(f, S) = 1
         /\ S # {} => ProdOn(f, S) = (f[First(S)] * ProdOn(f, S \ {First(S)})) % Q
<1> DEFINE Has(R) == /\ IsProd(CHOOSE h : IsProd(h, f, R), f, R)
                     /\ (CHOOSE h : IsProd(h, f, R)) \in [SUBSET R -> Scalar]
<1>1. ASSUME NEW R \in SUBSET S PROVE Has(R)
  <2>1. IsFiniteSet(R)
    BY FS_Subset
  <2>2. PICK g \in [SUBSET R -> Scalar] : IsProd(g, f, R)
    BY <2>1, ProdExists
  <2> DEFINE k == CHOOSE h : IsProd(h, f, R)
  <2>3. IsProd(k, f, R)
    BY <2>2
  <2> HIDE DEF k
  <2>4. \A T \in SUBSET R : k[T] = g[T]
    BY <2>1, <2>2, <2>3, FS_Subset, ProdUnique
  <2>5. k = g
    <3>1. DOMAIN k = SUBSET R
      BY <2>3 DEF IsProd
    <3>2. k = [T \in SUBSET R |-> k[T]]
      BY <2>3 DEF IsProd
    <3> QED
      BY <2>4, <3>1, <3>2
  <2> QED
    BY <2>2, <2>3, <2>5 DEF k
<1> DEFINE k == CHOOSE h : IsProd(h, f, S)
<1>2. IsProd(k, f, S) /\ k \in [SUBSET S -> Scalar] /\ ProdOn(f, S) = k[S]
  BY <1>1, ProdIsFold
<1>3. ASSUME NEW T \in SUBSET S PROVE ProdOn(f, T) = k[T]
  <2>1. Has(T) /\ ProdOn(f, T) = (CHOOSE h : IsProd(h, f, T))[T]
    BY <1>1, ProdIsFold
  <2>2. IsFiniteSet(T)
    BY FS_Subset
  <2> HIDE DEF k
  <2> QED
    BY <1>2, <2>1, <2>2, ProdUnique
<1> HIDE DEF k
<1>4. S = {} => k[S] = 1
  BY <1>2 DEF IsProd
<1>5. S # {} => k[S] = (f[First(S)] * k[S \ {First(S)}]) % Q
  BY <1>2 DEF IsProd
<1> QED
  BY <1>2, <1>3, <1>4, <1>5

LEMMA ProdSwap ==
  \A a, b, s, u, v, w \in Int :
    s \cong a * u /\ u \cong b * w /\ v \cong a * w => s \cong b * v
<1> SUFFICES ASSUME NEW a \in Int, NEW b \in Int, NEW s \in Int, NEW u \in Int, NEW v \in Int, NEW w \in Int,
                    s \cong a * u, u \cong b * w, v \cong a * w
             PROVE  s \cong b * v
  OBVIOUS
<1>0. Q \in Int /\ a * u \in Int /\ b * w \in Int /\ a * w \in Int /\ b * v \in Int
  BY FieldAssumption
<1>1. PICK i \in Int : s = (a * u) + Q * i
  BY <1>0, CongWitness
<1>2. PICK j \in Int : u = (b * w) + Q * j
  BY <1>0, CongWitness
<1>3. PICK k \in Int : v = (a * w) + Q * k
  BY <1>0, CongWitness
<1>4. s = (b * v) + Q * (i + a * j - b * k) /\ i + a * j - b * k \in Int
  BY <1>0, <1>1, <1>2, <1>3
<1> QED
  BY <1>0, <1>4, CongWitness

(* Any term may be taken out of a product.                                     *)
LEMMA ProdTake ==
  ASSUME NEW S, IsFiniteSet(S), NEW f, \A i \in S : f[i] \in Int, NEW i \in S
  PROVE  ProdOn(f, S) \cong f[i] * ProdOn(f, S \ {i})
<1> DEFINE G == {T \in SUBSET S : \A j \in T : ProdOn(f, T) \cong f[j] * ProdOn(f, T \ {j})}
<1>0. \A T \in SUBSET S : IsFiniteSet(T) /\ ProdOn(f, T) \in Int
  BY FS_Subset, ProdStep, ScalarInt
<1>1. ASSUME NEW T \in SUBSET S, \A j \in T : T \ {j} \in G PROVE T \in G
  <2> SUFFICES ASSUME NEW j \in T PROVE ProdOn(f, T) \cong f[j] * ProdOn(f, T \ {j})
    OBVIOUS
  <2> DEFINE c == First(T)
             u == ProdOn(f, T \ {c})
             v == ProdOn(f, T \ {j})
             w == ProdOn(f, (T \ {c}) \ {j})
  <2>1. c \in T
    BY DEF First
  <2>2. f[c] \in Int /\ f[j] \in Int /\ u \in Int /\ v \in Int /\ w \in Int
    <3> HIDE DEF c
    <3> QED
      BY <1>0, <2>1
  <2>3. ProdOn(f, T) \cong f[c] * u
    <3>1. ProdOn(f, T) = (f[c] * u) % Q
      BY <1>0, ProdStep
    <3>2. f[c] * u \in Int
      BY <2>2
    <3> QED
      BY <3>1, <3>2, Reduce
  <2>4. CASE j = c
    BY <2>3, <2>4
  <2>5. CASE j # c
    <3>1. u \cong f[j] * w
      <4>1. T \ {c} \in G /\ j \in T \ {c}
        BY <1>1, <2>1, <2>5
      <4> HIDE DEF c
      <4> QED
        BY <4>1
    <3>2. v \cong f[c] * w
      <4>1. T \ {j} \in G /\ c \in T \ {j} /\ (T \ {j}) \ {c} = (T \ {c}) \ {j}
        BY <1>1, <2>1, <2>5
      <4> HIDE DEF c
      <4> QED
        BY <4>1
    <3>3. ProdOn(f, T) \in Int
      BY <1>0
    <3> HIDE DEF c, u, v, w
    <3>4. ProdOn(f, T) \cong f[j] * v
      BY <2>2, <2>3, <3>1, <3>2, <3>3, ProdSwap
    <3> QED
      BY <3>4 DEF v
  <2> QED
    BY <2>4, <2>5
<1>2. S \in G
  <2>1. G \in SUBSET SUBSET S
    OBVIOUS
  <2> HIDE DEF G
  <2> QED
    BY <1>1, <2>1, SetInduct
<1> QED
  BY <1>2

LEMMA LinearStep ==
  \A H, h, F, f, G, g, P, R, S, c, d \in Int :
    H \cong h + P /\ F \cong f + R /\ G \cong g + S /\ h \cong c * f + d * g /\ P \cong c * R + d * S
    => H \cong c * F + d * G
<1> SUFFICES ASSUME NEW H \in Int, NEW h \in Int, NEW F \in Int, NEW f \in Int, NEW G \in Int,
NEW g \in Int, NEW P \in Int, NEW R \in Int, NEW S \in Int, NEW c \in Int, NEW d \in Int,
                    H \cong h + P, F \cong f + R, G \cong g + S, h \cong c * f + d * g, P \cong c * R + d * S
             PROVE  H \cong c * F + d * G
  OBVIOUS
<1>0. Q \in Int /\ h + P \in Int /\ f + R \in Int /\ g + S \in Int /\ c * f + d * g \in Int
      /\ c * R + d * S \in Int /\ c * F + d * G \in Int
  BY FieldAssumption
<1>1. PICK k1 \in Int : H = (h + P) + Q * k1
  BY <1>0, CongWitness
<1>2. PICK k2 \in Int : F = (f + R) + Q * k2
  BY <1>0, CongWitness
<1>3. PICK k3 \in Int : G = (g + S) + Q * k3
  BY <1>0, CongWitness
<1>4. PICK k4 \in Int : h = (c * f + d * g) + Q * k4
  BY <1>0, CongWitness
<1>5. PICK k5 \in Int : P = (c * R + d * S) + Q * k5
  BY <1>0, CongWitness
<1>6. k1 + (-c) * k2 + (-d) * k3 + k4 + k5 \in Int
  BY <1>0, <1>1, <1>2, <1>3, <1>4, <1>5
<1>7. H = (c * F + d * G) + Q * (k1 + (-c) * k2 + (-d) * k3 + k4 + k5)
  BY <1>0, <1>1, <1>2, <1>3, <1>4, <1>5
<1> QED
  BY <1>0, <1>6, <1>7, CongWitness

(* Sums are linear.                                                        *)
LEMMA SumLinear ==
  ASSUME NEW S, IsFiniteSet(S), NEW f, NEW g, NEW h, NEW c \in Int, NEW d \in Int,
         \A i \in S : f[i] \in Int /\ g[i] \in Int /\ h[i] \in Int /\ h[i] \cong c * f[i] + d * g[i]
  PROVE  SumOn(h, S) \cong c * SumOn(f, S) + d * SumOn(g, S)
<1> DEFINE G == {T \in SUBSET S : SumOn(h, T) \cong c * SumOn(f, T) + d * SumOn(g, T)}
<1>0. \A T \in SUBSET S : /\ IsFiniteSet(T)
                          /\ SumOn(f, T) \in Int /\ SumOn(g, T) \in Int /\ SumOn(h, T) \in Int
  BY FS_Subset, SumStep, ScalarInt
<1>1. ASSUME NEW T \in SUBSET S, \A j \in T : T \ {j} \in G PROVE T \in G
  <2>1. CASE T = {}
    <3>1. SumOn(h, {}) = 0 /\ SumOn(f, {}) = 0 /\ SumOn(g, {}) = 0
      BY <1>0, <2>1, SumStep
    <3>2. c * 0 + d * 0 = 0
      OBVIOUS
    <3>3. 0 \cong 0
      BY DEF \cong
    <3> QED
      BY <2>1, <3>1, <3>2, <3>3
  <2>2. CASE T # {}
    <3>1. PICK j \in T : TRUE
      BY <2>2
    <3> DEFINE F == SumOn(f, T)
               f1 == SumOn(f, T \ {j})
               fj == f[j]
               G1 == SumOn(g, T)
               g1 == SumOn(g, T \ {j})
               gj == g[j]
               H == SumOn(h, T)
               h1 == SumOn(h, T \ {j})
               hj == h[j]
    <3>2. /\ f1 \in Int /\ g1 \in Int /\ h1 \in Int /\ h1 \cong c * f1 + d * g1
          /\ F \in Int /\ G1 \in Int /\ H \in Int
      BY <1>0, <1>1
    <3>3. F \cong fj + f1 /\ G1 \cong gj + g1 /\ H \cong hj + h1
      BY <1>0, SumTake
    <3>4. fj \in Int /\ gj \in Int /\ hj \in Int /\ hj \cong c * fj + d * gj
      OBVIOUS
    <3> HIDE DEF f1, g1, h1, F, G1, H, fj, gj, hj
    <3>5. H \cong c * F + d * G1
      BY <3>2, <3>3, <3>4, LinearStep
    <3> QED
      BY <3>5 DEF F, G1, H
  <2> QED
    BY <2>1, <2>2
<1>2. G \in SUBSET SUBSET S
  OBVIOUS
<1> HIDE DEF G
<1>3. S \in G
  BY <1>1, <1>2, SetInduct
<1> QED
  BY <1>3 DEF G

LEMMA SumSame ==
  ASSUME NEW S, IsFiniteSet(S), NEW f, NEW g,
         \A i \in S : f[i] \in Int /\ g[i] \in Int /\ f[i] \cong g[i]
  PROVE  SumOn(f, S) \cong SumOn(g, S)
<1>1. \A i \in S : 1 * g[i] + 0 * g[i] = g[i]
  OBVIOUS
<1>2. \A i \in S : f[i] \cong 1 * g[i] + 0 * g[i]
  BY <1>1
<1>3. SumOn(f, S) \cong 1 * SumOn(g, S) + 0 * SumOn(g, S)
  <2>1. 1 \in Int /\ 0 \in Int
    OBVIOUS
  <2> QED
    BY <1>2, <2>1, SumLinear, Zenon
<1>4. SumOn(g, S) \in Int
  BY SumStep, ScalarInt
<1>5. 1 * SumOn(g, S) + 0 * SumOn(g, S) = SumOn(g, S)
  BY <1>4
<1> QED
  BY <1>3, <1>5

LEMMA SumScale ==
  ASSUME NEW S, IsFiniteSet(S), NEW f, NEW h, NEW c \in Int,
         \A i \in S : f[i] \in Int /\ h[i] \in Int /\ h[i] \cong c * f[i]
  PROVE  SumOn(h, S) \cong c * SumOn(f, S)
<1>1. \A i \in S : c * f[i] + 0 * f[i] = c * f[i]
  OBVIOUS
<1>2. \A i \in S : h[i] \cong c * f[i] + 0 * f[i]
  BY <1>1
<1>3. SumOn(h, S) \cong c * SumOn(f, S) + 0 * SumOn(f, S)
  <2>1. 0 \in Int
    OBVIOUS
  <2> QED
    BY <1>2, <2>1, SumLinear, Zenon
<1>4. SumOn(f, S) \in Int
  BY SumStep, ScalarInt
<1>5. c * SumOn(f, S) + 0 * SumOn(f, S) = c * SumOn(f, S)
  BY <1>4
<1> QED
  BY <1>3, <1>5

LEMMA ProdNotZero ==
  ASSUME NEW S, IsFiniteSet(S), NEW f, \A i \in S : f[i] \in Int /\ ~(f[i] \cong 0)
  PROVE  ~(ProdOn(f, S) \cong 0)
<1> DEFINE G == {T \in SUBSET S : ~(ProdOn(f, T) \cong 0)}
<1>0. \A T \in SUBSET S : IsFiniteSet(T) /\ ProdOn(f, T) \in Int
  BY FS_Subset, ProdStep, ScalarInt
<1>1. ASSUME NEW T \in SUBSET S, \A j \in T : T \ {j} \in G PROVE T \in G
  <2>1. CASE T = {}
    <3>1. ProdOn(f, {}) = 1
      BY <1>0, <2>1, ProdStep
    <3>2. ~(1 \cong 0)
      <4>1. 1 % Q = 1 /\ 0 % Q = 0
        BY Reduce, ScalarInt
      <4> QED
        BY <4>1 DEF \cong
    <3> QED
      BY <2>1, <3>1, <3>2
  <2>2. CASE T # {}
    <3>1. PICK j \in T : TRUE
      BY <2>2
    <3>2. ProdOn(f, T) \cong f[j] * ProdOn(f, T \ {j})
      BY <1>0, ProdTake
    <3>3. ~(ProdOn(f, T \ {j}) \cong 0) /\ ProdOn(f, T \ {j}) \in Int
      BY <1>0, <1>1
    <3>4. ASSUME ProdOn(f, T) \cong 0 PROVE FALSE
      <4>1. f[j] * ProdOn(f, T \ {j}) \cong 0
        BY <3>2, <3>4, CongTrans
      <4> QED
        BY <3>3, <4>1, NoZeroDivisors
    <3> QED
      BY <3>4
  <2> QED
    BY <2>1, <2>2
<1>2. G \in SUBSET SUBSET S
  OBVIOUS
<1> HIDE DEF G
<1>3. S \in G
  BY <1>1, <1>2, SetInduct
<1> QED
  BY <1>3 DEF G

LEMMA ProdSame ==
  ASSUME NEW S, IsFiniteSet(S), NEW f, NEW g, \A i \in S : f[i] \in Int /\ g[i] \in Int /\ f[i] = g[i]
  PROVE  ProdOn(f, S) = ProdOn(g, S)
<1> DEFINE G == {T \in SUBSET S : ProdOn(f, T) = ProdOn(g, T)}
<1>0. \A T \in SUBSET S : IsFiniteSet(T)
  BY FS_Subset
<1>1. ASSUME NEW T \in SUBSET S, \A j \in T : T \ {j} \in G PROVE T \in G
  <2>1. CASE T = {}
    BY <1>0, <2>1, ProdStep
  <2>2. CASE T # {}
    <3>1. First(T) \in T
      BY <2>2 DEF First
    <3>2. ProdOn(f, T \ {First(T)}) = ProdOn(g, T \ {First(T)})
      BY <1>1, <3>1
    <3>3. f[First(T)] = g[First(T)]
      BY <3>1
    <3>4. IsFiniteSet(T) /\ \A i \in T : f[i] \in Int /\ g[i] \in Int
      BY <1>0
    <3>5. ProdOn(f, T) = (f[First(T)] * ProdOn(f, T \ {First(T)})) % Q
      BY <2>2, <3>4, ProdStep
    <3>6. ProdOn(g, T) = (g[First(T)] * ProdOn(g, T \ {First(T)})) % Q
      BY <2>2, <3>4, ProdStep
    <3> QED
      BY <3>2, <3>3, <3>5, <3>6
  <2> QED
    BY <2>1, <2>2
<1>2. G \in SUBSET SUBSET S
  OBVIOUS
<1> HIDE DEF G
<1>3. S \in G
  BY <1>1, <1>2, SetInduct
<1> QED
  BY <1>3 DEF G

-----------------------------------------------------------------------------
(* Interpolation *)

Gap(x) == [k \in Scalar |-> x - k]

(* The weight of place i in the interpolation at x from the places of S.   *)
Weight(x, S, i) ==
  (ProdOn(Gap(x), S \ {i}) * Inv(ProdOn(Gap(i), S \ {i}))) % Q

Interp(x, f, S) == SumOn([i \in S |-> Weight(x, S, i) * f[i]], S)

LEMMA ScalarsFinite == \A S \in SUBSET Scalar : IsFiniteSet(S) /\ Cardinality(S) \in Nat
<1>1. IsFiniteSet(Scalar)
  BY ScalarInt, FS_Interval DEF Scalar
<1> QED
  BY <1>1, FS_Subset, FS_CardinalityType

LEMMA GapInt ==
  ASSUME NEW x \in Int
  PROVE  \A i \in Scalar : Gap(x)[i] \in Int /\ Gap(x)[i] = x - i
BY ScalarInt DEF Gap

LEMMA GapProduct ==
  ASSUME NEW x \in Int, NEW S \in SUBSET Scalar
  PROVE  /\ ProdOf([k \in S |-> x - k]) = ProdOn(Gap(x), S)
         /\ ProdOn(Gap(x), S) \in Int
         /\ \A i \in S : ProdOn(Gap(x), S) \cong (x - i) * ProdOn(Gap(x), S \ {i})
<1> DEFINE g == [k \in S |-> x - k]
           G == Gap(x)
<1>1. IsFiniteSet(S)
  BY ScalarsFinite
<1>2. \A i \in S : g[i] \in Int /\ G[i] \in Int /\ g[i] = G[i] /\ G[i] = x - i
  BY GapInt, ScalarInt
<1>3. DOMAIN g = S
  OBVIOUS
<1> HIDE DEF g, G
<1>4. ProdOf(g) = ProdOn(G, S)
  BY <1>1, <1>2, <1>3, ProdIsFold, ProdSame
<1>5. ProdOn(G, S) \in Int /\ \A i \in S : ProdOn(G, S) \cong (x - i) * ProdOn(G, S \ {i})
  BY <1>1, <1>2, ProdStep, ProdTake, ScalarInt
<1> QED
  BY <1>4, <1>5 DEF g, G

LEMMA WeightInt ==
  ASSUME NEW x \in Int, NEW S \in SUBSET Scalar, NEW i \in S
  PROVE  /\ Weight(x, S, i) \in Scalar /\ Weight(x, S, i) \in Int
         /\ Weight(x, S, i) \cong ProdOn(Gap(x), S \ {i}) * Inv(ProdOn(Gap(i), S \ {i}))
         /\ Inv(ProdOn(Gap(i), S \ {i})) \in Int
         /\ ProdOn(Gap(i), S \ {i}) * Inv(ProdOn(Gap(i), S \ {i})) \cong 1
<1> DEFINE R == S \ {i}
           D == ProdOn(Gap(i), R)
           M == ProdOn(Gap(x), R)
<1>1. R \in SUBSET Scalar /\ IsFiniteSet(R) /\ i \in Int /\ i \in Scalar
  BY ScalarsFinite, ScalarInt
<1>2. \A k \in R : Gap(i)[k] \in Int /\ ~(Gap(i)[k] \cong 0)
  BY <1>1, GapInt, DistinctScalars
<1>3. D \in Int /\ M \in Int /\ ~(D \cong 0)
  <2> HIDE DEF R
  <2> QED
    BY <1>1, <1>2, GapProduct, ProdNotZero
<1> HIDE DEF D, M
<1>4. Inv(D) \in Scalar /\ Inv(D) \in Int /\ D * Inv(D) \cong 1
  BY <1>3, InverseExists, ScalarInt
<1>5. (M * Inv(D)) % Q \in Scalar /\ (M * Inv(D)) % Q \cong M * Inv(D)
  <2>1. M * Inv(D) \in Int
    BY <1>3, <1>4
  <2> QED
    BY <2>1, Reduce
<1> QED
  BY <1>4, <1>5, ScalarInt DEF D, M, Weight

LEMMA LagrangeIs ==
  ASSUME NEW x \in Int, NEW S \in SUBSET Scalar
  PROVE  Lagrange(x, S) = [i \in S |-> Weight(x, S, i)]
<1>1. \A i \in S : /\ ProdOf([k \in S \ {i} |-> x - k]) = ProdOn(Gap(x), S \ {i})
                   /\ ProdOf([k \in S \ {i} |-> i - k]) = ProdOn(Gap(i), S \ {i})
  BY GapProduct, ScalarInt
<1> QED
  BY <1>1, Zenon DEF Lagrange, Tabulate, Weight

LEMMA InterpolateIs ==
  ASSUME NEW x \in Int, NEW S \in SUBSET Scalar, NEW f, NEW g, DOMAIN g = S,
         \A i \in S : f[i] \in Int /\ g[i] = f[i]
  PROVE  Interpolate(x, g) = Interp(x, f, S)
<1> DEFINE h == [i \in S |-> Weight(x, S, i) * f[i]]
           w == Lagrange(x, S)
           k == [i \in S |-> w[i] * g[i]]
<1>1. Interpolate(x, g) = SumOf(k)
  BY DEF Interpolate
<1>2. k = h
  <2>1. w = [i \in S |-> Weight(x, S, i)]
    BY LagrangeIs
  <2> HIDE DEF w
  <2>2. \A i \in S : w[i] * g[i] = Weight(x, S, i) * f[i]
    BY <2>1
  <2> QED
    BY <2>2
<1>3. DOMAIN h = S
  OBVIOUS
<1> HIDE DEF h, k
<1>4. SumOf(h) = SumOn(h, S)
  BY <1>3, SumIsFold
<1> QED
  BY <1>1, <1>2, <1>4 DEF h, Interp

LEMMA InterpInt ==
  ASSUME NEW x \in Int, NEW S \in SUBSET Scalar, NEW f, \A i \in S : f[i] \in Int
  PROVE  Interp(x, f, S) \in Scalar /\ Interp(x, f, S) \in Int
<1> DEFINE h == [i \in S |-> Weight(x, S, i) * f[i]]
<1>1. ASSUME NEW i \in S PROVE h[i] \in Int
  <2>1. Weight(x, S, i) \in Int /\ f[i] \in Int /\ h[i] = Weight(x, S, i) * f[i]
    BY WeightInt
  <2> HIDE DEF h
  <2> QED
    BY <2>1
<1> HIDE DEF h
<1>2. SumOn(h, S) \in Scalar
  BY <1>1, ScalarsFinite, SumStep
<1> QED
  BY <1>2, ScalarInt DEF h, Interp

(* Interpolation is linear.                                                *)
LEMMA InterpLinear ==
  ASSUME NEW x \in Int, NEW S \in SUBSET Scalar, NEW f, NEW g, NEW h, NEW c \in Int, NEW d \in Int,
         \A i \in S : f[i] \in Int /\ g[i] \in Int /\ h[i] \in Int /\ h[i] \cong c * f[i] + d * g[i]
  PROVE  Interp(x, h, S) \cong c * Interp(x, f, S) + d * Interp(x, g, S)
<1> DEFINE F == [i \in S |-> Weight(x, S, i) * f[i]]
           G == [i \in S |-> Weight(x, S, i) * g[i]]
           H == [i \in S |-> Weight(x, S, i) * h[i]]
<1>1. ASSUME NEW i \in S PROVE F[i] \in Int /\ G[i] \in Int /\ H[i] \in Int /\ H[i] \cong c * F[i] + d * G[i]
  <2>1. PICK w : w = Weight(x, S, i)
    OBVIOUS
  <2>2. F[i] = w * f[i] /\ G[i] = w * g[i] /\ H[i] = w * h[i]
    BY <2>1
  <2>3. w \in Int /\ f[i] \in Int /\ g[i] \in Int /\ h[i] \in Int /\ h[i] \cong c * f[i] + d * g[i]
    BY <2>1, WeightInt
  <2> HIDE DEF F, G, H
  <2>4. c * f[i] + d * g[i] \in Int
    BY <2>3
  <2>5. w * h[i] \cong w * (c * f[i] + d * g[i])
    BY <2>3, <2>4, CongWith
  <2>6. w * (c * f[i] + d * g[i]) = c * (w * f[i]) + d * (w * g[i])
    BY <2>3
  <2> QED
    BY <2>2, <2>3, <2>5, <2>6
<1> HIDE DEF F, G, H
<1>2. SumOn(H, S) \cong c * SumOn(F, S) + d * SumOn(G, S)
  BY <1>1, ScalarsFinite, SumLinear
<1> QED
  BY <1>2 DEF F, G, H, Interp

LEMMA InterpSame ==
  ASSUME NEW x \in Int, NEW S \in SUBSET Scalar, NEW f, NEW g,
         \A i \in S : f[i] \in Int /\ g[i] \in Int /\ f[i] \cong g[i]
  PROVE  Interp(x, f, S) \cong Interp(x, g, S)
<1>1. \A i \in S : 1 * g[i] + 0 * g[i] = g[i]
  OBVIOUS
<1>2. \A i \in S : f[i] \cong 1 * g[i] + 0 * g[i]
  BY <1>1
<1>3. Interp(x, f, S) \cong 1 * Interp(x, g, S) + 0 * Interp(x, g, S)
  <2>1. 1 \in Int /\ 0 \in Int
    OBVIOUS
  <2> QED
    BY <1>2, <2>1, InterpLinear, Zenon
<1>4. 1 * Interp(x, g, S) + 0 * Interp(x, g, S) = Interp(x, g, S)
  BY InterpInt
<1> QED
  BY <1>3, <1>4

(* A place that is left out takes its factor away from the other weights.  *)

LEMMA WeightDrop ==
  ASSUME NEW x \in Int, NEW S \in SUBSET Scalar, NEW a \in S, NEW i \in S \ {a}
  PROVE  Weight(x, S, i) * (i - a) \cong (x - a) * Weight(x, S \ {a}, i)
<1> DEFINE R == S \ {i}
           P == (S \ {a}) \ {i}
           L == Weight(x, S, i)
           F == Weight(x, S \ {a}, i)
           N == ProdOn(Gap(x), R)
           M == ProdOn(Gap(x), P)
           D == ProdOn(Gap(i), R)
           E == ProdOn(Gap(i), P)
           I == Inv(D)
           J == Inv(E)
           u == i - a
           v == x - a
<1>1. i \in Int /\ a \in Int /\ u \in Int /\ v \in Int /\ i \in S /\ i \in S \ {a}
  BY ScalarInt
<1>2. L \in Int /\ L \cong N * I /\ I \in Int /\ D * I \cong 1
  BY <1>1, WeightInt
<1>3. F \in Int /\ F \cong M * J /\ J \in Int /\ E * J \cong 1
  <2>1. S \ {a} \in SUBSET Scalar
    OBVIOUS
  <2> QED
    BY <1>1, <2>1, WeightInt
<1>4. R \in SUBSET Scalar /\ a \in R /\ R \ {a} = P /\ P \in SUBSET Scalar
  OBVIOUS
<1> HIDE DEF R, P
<1>5. N \in Int /\ M \in Int /\ D \in Int /\ E \in Int
  BY <1>1, <1>4, GapProduct
<1>6. N \cong v * M /\ D \cong u * E
  BY <1>1, <1>4, GapProduct
<1> HIDE DEF L, F, N, M, D, E, I, J, u, v
<1>7. L * u \cong v * F
  <2>0. Q \in Int /\ N * I \in Int /\ v * M \in Int /\ u * E \in Int /\ D * I \in Int /\ 1 \in Int
        /\ E * J \in Int /\ M * J \in Int /\ L * u \in Int /\ v * F \in Int
    BY FieldAssumption, <1>1, <1>2, <1>3, <1>5, <1>6
  <2>1. PICK k1 \in Int : L = (N * I) + Q * k1
    BY <2>0, CongWitness, <1>1, <1>2, <1>3, <1>5, <1>6
  <2>2. PICK k2 \in Int : N = (v * M) + Q * k2
    BY <2>0, CongWitness, <1>1, <1>2, <1>3, <1>5, <1>6
  <2>3. PICK k3 \in Int : D = (u * E) + Q * k3
    BY <2>0, CongWitness, <1>1, <1>2, <1>3, <1>5, <1>6
  <2>4. PICK k4 \in Int : D * I = 1 + Q * k4
    BY <2>0, CongWitness, <1>1, <1>2, <1>3, <1>5, <1>6
  <2>5. PICK k5 \in Int : E * J = 1 + Q * k5
    BY <2>0, CongWitness, <1>1, <1>2, <1>3, <1>5, <1>6
  <2>6. PICK k6 \in Int : F = (M * J) + Q * k6
    BY <2>0, CongWitness, <1>1, <1>2, <1>3, <1>5, <1>6
  <2>7. (u) * k1 + (u * I) * k2 + (-(v * M * I * J)) * k3 + (v * M * J) * k4 +
          (-(v * M * u * I)) * k5 + (-v) * k6 \in Int
    BY <2>0, <2>1, <2>2, <2>3, <2>4, <2>5, <2>6, <1>1, <1>2, <1>3, <1>5, <1>6
  <2>8. L * u = (v * F) + Q * ((u) * k1 + (u * I) * k2 + (-(v * M * I * J)) * k3 + (v * M * J) * k4 +
          (-(v * M * u * I)) * k5 + (-v) * k6)
    BY <2>0, <2>1, <2>2, <2>3, <2>4, <2>5, <2>6, <1>1, <1>2, <1>3, <1>5, <1>6
  <2> QED
    BY <2>0, <2>7, <2>8, CongWitness, <1>1, <1>2, <1>3, <1>5, <1>6
<1> QED
  BY <1>7 DEF L, F, u, v

(* Values with a zero at a are the values divided by X - a, from the other *)
(* places.                                                                 *)
LEMMA InterpFactor ==
  ASSUME NEW x \in Int, NEW S \in SUBSET Scalar, NEW a \in S, NEW f, NEW g,
         \A i \in S : f[i] \in Int /\ g[i] \in Int /\ g[i] \cong (i - a) * f[i]
  PROVE  Interp(x, g, S) \cong (x - a) * Interp(x, f, S \ {a})
<1> DEFINE R == S \ {a}
           G == [i \in S |-> Weight(x, S, i) * g[i]]
           F == [i \in R |-> Weight(x, R, i) * f[i]]
<1>1. R \in SUBSET Scalar /\ IsFiniteSet(S) /\ IsFiniteSet(R) /\ a \in Int /\ x - a \in Int
  BY ScalarsFinite, ScalarInt
<1>2. ASSUME NEW i \in S PROVE G[i] \in Int
  <2>1. PICK w : w = Weight(x, S, i)
    OBVIOUS
  <2>2. w \in Int /\ G[i] = w * g[i] /\ g[i] \in Int
    BY <2>1, WeightInt
  <2> HIDE DEF G
  <2> QED
    BY <2>2
<1>3. G[a] \cong 0
  <2>1. PICK w : w = Weight(x, S, a)
    OBVIOUS
  <2>2. w \in Int /\ G[a] = w * g[a] /\ g[a] \in Int /\ f[a] \in Int /\ g[a] \cong (a - a) * f[a]
    BY <2>1, WeightInt
  <2>3. (a - a) * f[a] = 0
    BY <1>1, <2>2
  <2> HIDE DEF G
  <2> QED
    BY <2>2, <2>3, ZeroIdeal
<1>4. ASSUME NEW i \in R PROVE F[i] \in Int /\ G[i] \in Int /\ G[i] \cong (x - a) * F[i]
  <2>1. PICK w : w = Weight(x, S, i)
    OBVIOUS
  <2>2. PICK v : v = Weight(x, R, i)
    OBVIOUS
  <2>3. /\ w \in Int /\ v \in Int /\ i \in Int /\ f[i] \in Int /\ g[i] \in Int
        /\ w * (i - a) \cong (x - a) * v /\ g[i] \cong (i - a) * f[i]
    BY <1>1, <2>1, <2>2, WeightInt, WeightDrop, ScalarInt
  <2>4. G[i] = w * g[i] /\ F[i] = v * f[i]
    BY <2>1, <2>2
  <2> HIDE DEF G, F
  <2>5. w * g[i] \cong w * ((i - a) * f[i])
    <3>1. (i - a) * f[i] \in Int
      BY <1>1, <2>3
    <3> QED
      BY <2>3, <3>1, CongWith
  <2>6. (w * (i - a)) * f[i] \cong ((x - a) * v) * f[i]
    <3>1. w * (i - a) \in Int /\ (x - a) * v \in Int
      BY <1>1, <2>3
    <3> QED
      BY <2>3, <3>1, CongWith
  <2>7. w * ((i - a) * f[i]) = (w * (i - a)) * f[i] /\ ((x - a) * v) * f[i] = (x - a) * (v * f[i])
    BY <1>1, <2>3
  <2>8. w * g[i] \cong (x - a) * (v * f[i])
    BY <2>5, <2>6, <2>7, CongTrans
  <2> QED
    BY <2>3, <2>4, <2>8
<1> HIDE DEF G, F
<1>5. SumOn(G, R) \cong (x - a) * SumOn(F, R)
  BY <1>1, <1>4, SumScale
<1>6. SumOn(G, S) \cong G[a] + SumOn(G, R)
  BY <1>1, <1>2, SumTake
<1>7. SumOn(G, R) \in Int /\ G[a] \in Int
  BY <1>1, <1>2, <1>4, SumStep, ScalarInt
<1>8. G[a] + SumOn(G, R) \cong SumOn(G, R)
  <2>1. G[a] + SumOn(G, R) \cong 0 + SumOn(G, R)
    <3>1. 0 \in Int
      OBVIOUS
    <3> QED
      BY <1>3, <1>7, <3>1, CongWith, Zenon
  <2>2. 0 + SumOn(G, R) = SumOn(G, R)
    BY <1>7
  <2> QED
    BY <2>1, <2>2
<1>9. SumOn(G, S) \cong (x - a) * SumOn(F, R)
  BY <1>5, <1>6, <1>8, CongTrans
<1> QED
  BY <1>9 DEF G, F, R, Interp

(* Neville's rule: one more place.                                         *)
LEMMA Neville ==
  ASSUME NEW x \in Int, NEW S \in SUBSET Scalar, NEW a \in S, NEW b \in S, NEW f,
         \A i \in S : f[i] \in Int
  PROVE  (b - a) * Interp(x, f, S) \cong
           (x - a) * Interp(x, f, S \ {a}) - (x - b) * Interp(x, f, S \ {b})
<1> DEFINE g == [i \in S |-> (i - a) * f[i]]
           h == [i \in S |-> (i - b) * f[i]]
           k == [i \in S |-> (b - a) * f[i]]
           I == Interp(x, f, S)
           G == Interp(x, g, S)
           H == Interp(x, h, S)
           K == Interp(x, k, S)
           A == Interp(x, f, S \ {a})
           C == Interp(x, f, S \ {b})
<1>1. a \in Int /\ b \in Int /\ \A i \in S : i \in Int
  BY ScalarInt
<1>2. ASSUME NEW i \in S
      PROVE  /\ g[i] \in Int /\ h[i] \in Int /\ k[i] \in Int
             /\ g[i] \cong (i - a) * f[i] /\ h[i] \cong (i - b) * f[i]
             /\ k[i] \cong 1 * g[i] + (-1) * h[i]
             /\ k[i] \cong (b - a) * f[i] + 0 * f[i]
  <2>1. g[i] = (i - a) * f[i] /\ h[i] = (i - b) * f[i] /\ k[i] = (b - a) * f[i]
    OBVIOUS
  <2> HIDE DEF g, h, k
  <2>2. g[i] \in Int /\ h[i] \in Int /\ k[i] \in Int
    BY <1>1, <2>1
  <2>3. k[i] = 1 * g[i] + (-1) * h[i] /\ k[i] = (b - a) * f[i] + 0 * f[i]
    BY <1>1, <2>1
  <2> QED
    BY <2>1, <2>2, <2>3 DEF \cong
<1>3. S \ {a} \in SUBSET Scalar /\ S \ {b} \in SUBSET Scalar
  OBVIOUS
<1> HIDE DEF g, h, k
<1>4. I \in Int /\ G \in Int /\ H \in Int /\ K \in Int /\ A \in Int /\ C \in Int
  BY <1>2, <1>3, InterpInt
<1>5. G \cong (x - a) * A /\ H \cong (x - b) * C
  BY <1>2, InterpFactor
<1>6. K \cong 1 * G + (-1) * H
  <2>1. 1 \in Int /\ -1 \in Int
    OBVIOUS
  <2> QED
    BY <1>2, <2>1, InterpLinear, Zenon
<1>7. K \cong (b - a) * I + 0 * I
  <2>1. b - a \in Int /\ 0 \in Int
    BY <1>1
  <2> QED
    BY <1>2, <2>1, InterpLinear, Zenon
<1> HIDE DEF I, G, H, K, A, C
<1>8. (b - a) * I + 0 * I = (b - a) * I /\ 1 * G + (-1) * H = G - H
  BY <1>1, <1>4
<1>9. G - H \cong (x - a) * A - (x - b) * C
  <2>1. (x - a) * A \in Int /\ (x - b) * C \in Int
    BY <1>1, <1>4
  <2> QED
    BY <1>4, <1>5, <2>1, CongRing
<1>10. (b - a) * I \cong (x - a) * A - (x - b) * C
  BY <1>6, <1>7, <1>8, <1>9, CongTrans
<1> QED
  BY <1>10 DEF I, A, C

(* Functions that any n places, or more, determine everywhere.             *)
Interpolated(n) ==
  {f \in [Int -> Int] : \A S \in SUBSET Scalar, x \in Int :
                          Cardinality(S) >= n => Interp(x, f, S) \cong f[x]}

(* What n places determine more places determine too.                      *)
LEMMA MorePlaces ==
  ASSUME NEW n \in Nat, n > 0, NEW f \in [Int -> Int],
         \A S \in SUBSET Scalar, x \in Int : Cardinality(S) = n => Interp(x, f, S) \cong f[x]
  PROVE  f \in Interpolated(n)
<1> DEFINE G == {m \in Nat : \A S \in SUBSET Scalar, x \in Int :
                               Cardinality(S) = n + m => Interp(x, f, S) \cong f[x]}
<1>1. 0 \in G
  BY ScalarsFinite
<1>2. ASSUME NEW m \in G PROVE m + 1 \in G
  <2> SUFFICES ASSUME NEW S \in SUBSET Scalar, NEW x \in Int, Cardinality(S) = n + (m + 1)
               PROVE  Interp(x, f, S) \cong f[x]
    OBVIOUS
  <2>1. IsFiniteSet(S) /\ Cardinality(S) \in Nat /\ Cardinality(S) > 1 /\ m \in Nat
    BY ScalarsFinite
  <2>2. PICK a \in S : TRUE
    BY <2>1, FS_EmptySet
  <2>3. \A i \in S : Cardinality(S \ {i}) = Cardinality(S) - 1
    BY <2>1, FS_RemoveElement
  <2>4. PICK b \in S : b # a
    <3>1. IsFiniteSet(S \ {a}) /\ Cardinality(S \ {a}) # 0
      BY <2>1, <2>2, <2>3, FS_Subset
    <3>2. S \ {a} # {}
      BY <3>1, FS_EmptySet
    <3> QED
      BY <3>2
  <2> DEFINE I == Interp(x, f, S)
             A == Interp(x, f, S \ {a})
             C == Interp(x, f, S \ {b})
             v == f[x]
  <2>5. a \in Int /\ b \in Int /\ ~(b - a \cong 0) /\ b - a \in Int
    BY <2>2, <2>4, DistinctScalars, ScalarInt
  <2>6. \A i \in S : f[i] \in Int
    BY ScalarInt
  <2>7. I \in Int /\ A \in Int /\ C \in Int /\ v \in Int
    BY <2>6, InterpInt
  <2>8. A \cong v /\ C \cong v
    <3>1. \A i \in S : S \ {i} \in SUBSET Scalar /\ Cardinality(S \ {i}) = n + m
      BY <2>1, <2>3
    <3> QED
      BY <2>2, <2>4, <3>1
  <2>9. (b - a) * I \cong (x - a) * A - (x - b) * C
    BY <2>2, <2>4, <2>6, Neville
  <2> HIDE DEF I, A, C, v
  <2>10. (b - a) * I \cong (b - a) * v
    <3>0. Q \in Int /\ (b - a) * I \in Int /\ (x - a) * A - (x - b) * C \in Int /\ (b - a) * v \in Int
      BY FieldAssumption, <2>5, <2>7, <2>8, <2>9
    <3>1. PICK k1 \in Int : A = v + Q * k1
      BY ZenonT(40), <3>0, CongWitness, <2>5, <2>7, <2>8, <2>9
    <3>2. PICK k2 \in Int : C = v + Q * k2
      BY ZenonT(40), <3>0, CongWitness, <2>5, <2>7, <2>8, <2>9
    <3>3. PICK k3 \in Int : (b - a) * I = ((x - a) * A - (x - b) * C) + Q * k3
      BY ZenonT(40), <3>0, CongWitness, <2>5, <2>7, <2>8, <2>9
    <3>4. (x - a) * k1 + (-(x - b)) * k2 + k3 \in Int
      BY <3>0, <3>1, <3>2, <3>3, <2>5, <2>7, <2>8, <2>9
    <3>5. (b - a) * I = ((b - a) * v) + Q * ((x - a) * k1 + (-(x - b)) * k2 + k3)
      BY <3>0, <3>1, <3>2, <3>3, <2>5, <2>7, <2>8, <2>9
    <3> QED
      BY <3>0, <3>4, <3>5, CongWitness, <2>5, <2>7, <2>8, <2>9
  <2>11. I \cong v
    BY <2>5, <2>7, <2>10, Cancel
  <2> QED
    BY <2>11 DEF I, v
<1>3. G = Nat
  <2>1. G \in SUBSET Nat
    OBVIOUS
  <2> HIDE DEF G
  <2> QED
    BY <1>1, <1>2, <2>1, Induct
<1>4. ASSUME NEW S \in SUBSET Scalar, NEW x \in Int, Cardinality(S) >= n
      PROVE  Interp(x, f, S) \cong f[x]
  <2>1. Cardinality(S) - n \in G /\ Cardinality(S) = n + (Cardinality(S) - n)
    <3>1. Cardinality(S) - n \in Nat /\ Cardinality(S) = n + (Cardinality(S) - n)
      BY <1>4, ScalarsFinite
    <3> QED
      BY <1>3, <3>1
  <2> QED
    BY <2>1
<1> QED
  BY <1>4 DEF Interpolated

LEMMA InterpolatedMonotone ==
  ASSUME NEW m \in Nat, NEW n \in Nat, m <= n
  PROVE  Interpolated(m) \subseteq Interpolated(n)
BY ScalarsFinite DEF Interpolated

(* The constants, from one place.                                          *)
LEMMA ConstantInterpolated ==
  ASSUME NEW c \in Int
  PROVE  [x \in Int |-> c] \in Interpolated(1)
<1> DEFINE f == [x \in Int |-> c]
<1>1. ASSUME NEW S \in SUBSET Scalar, NEW x \in Int, Cardinality(S) = 1
      PROVE  Interp(x, f, S) \cong f[x]
  <2>1. PICK i \in S : S = {i}
    BY <1>1, ScalarsFinite, FS_Singleton
  <2>2. i \in Int /\ i \in Scalar
    BY ScalarInt
  <2> DEFINE W == [j \in S |-> Weight(x, S, j) * f[j]]
             w == Weight(x, S, i)
             I == Inv(ProdOn(Gap(i), S \ {i}))
  <2>3. S \ {i} = {}
    BY <2>1
  <2>4. ProdOn(Gap(x), {}) = 1 /\ ProdOn(Gap(i), {}) = 1
    <3>1. IsFiniteSet({})
      BY FS_EmptySet
    <3> QED
      BY <3>1, ProdStep
  <2>5. w \in Int /\ I \in Int /\ w \cong 1 * I /\ 1 * I \cong 1
    BY <2>2, <2>3, <2>4, WeightInt
  <2>6. W[i] = w * c /\ DOMAIN W = S
    BY <2>2
  <2> HIDE DEF w, W, I
  <2>7. w \cong 1
    BY <2>5, CongTrans
  <2>8. w * c \cong c
    <3>1. w * c \cong 1 * c
      <4>1. 1 \in Int
        OBVIOUS
      <4> QED
        BY <2>5, <2>7, <4>1, CongWith, Zenon
    <3> QED
      BY <3>1
  <2>9. SumOn(W, S) \cong W[i] + SumOn(W, S \ {i})
    <3>1. \A j \in S : W[j] \in Int
      BY <2>1, <2>5, <2>6
    <3> QED
      BY <3>1, ScalarsFinite, SumTake
  <2>10. SumOn(W, S \ {i}) = 0
    BY <2>3, FS_EmptySet, SumStep
  <2>11. SumOn(W, S) \cong w * c
    BY <2>5, <2>6, <2>9, <2>10
  <2>12. SumOn(W, S) \cong c
    BY <2>8, <2>11, CongTrans
  <2> QED
    BY <2>12 DEF W, Interp
<1>2. f \in [Int -> Int]
  OBVIOUS
<1> HIDE DEF f
<1>3. f \in Interpolated(1)
  BY <1>1, <1>2, MorePlaces
<1> QED
  BY <1>3 DEF f

(* Linear combinations.                                                    *)
LEMMA CombinationInterpolated ==
  ASSUME NEW n \in Nat, NEW f \in Interpolated(n), NEW g \in Interpolated(n), NEW c \in Int, NEW d \in Int,
         NEW h \in [Int -> Int], \A x \in Int : h[x] \cong c * f[x] + d * g[x]
  PROVE  h \in Interpolated(n)
<1>1. f \in [Int -> Int] /\ g \in [Int -> Int]
  BY DEF Interpolated
<1>2. ASSUME NEW S \in SUBSET Scalar, NEW x \in Int, Cardinality(S) >= n
      PROVE  Interp(x, h, S) \cong h[x]
  <2> DEFINE H == Interp(x, h, S)
             F == Interp(x, f, S)
             G == Interp(x, g, S)
             hx == h[x]
             fx == f[x]
             gx == g[x]
  <2>1. \A i \in S : f[i] \in Int /\ g[i] \in Int /\ h[i] \in Int /\ h[i] \cong c * f[i] + d * g[i]
    BY <1>1, ScalarInt
  <2>2. H \in Int /\ F \in Int /\ G \in Int /\ hx \in Int /\ fx \in Int /\ gx \in Int
    BY <1>1, <2>1, InterpInt
  <2>3. H \cong c * F + d * G
    BY <2>1, InterpLinear
  <2>4. F \cong fx /\ G \cong gx
    BY <1>2 DEF Interpolated
  <2>5. hx \cong c * fx + d * gx
    OBVIOUS
  <2> HIDE DEF H, F, G, hx, fx, gx
  <2>6. H \cong hx
    <3>0. Q \in Int /\ c * F + d * G \in Int /\ c * fx + d * gx \in Int
      BY FieldAssumption, <2>2, <2>3, <2>4, <2>5
    <3>1. PICK k1 \in Int : H = (c * F + d * G) + Q * k1
      BY <3>0, CongWitness, <2>2, <2>3, <2>4, <2>5
    <3>2. PICK k2 \in Int : F = fx + Q * k2
      BY <3>0, CongWitness, <2>2, <2>3, <2>4, <2>5
    <3>3. PICK k3 \in Int : G = gx + Q * k3
      BY <3>0, CongWitness, <2>2, <2>3, <2>4, <2>5
    <3>4. PICK k4 \in Int : hx = (c * fx + d * gx) + Q * k4
      BY <3>0, CongWitness, <2>2, <2>3, <2>4, <2>5
    <3>5. k1 + (c) * k2 + (d) * k3 + (-1) * k4 \in Int
      BY <3>0, <3>1, <3>2, <3>3, <3>4, <2>2, <2>3, <2>4, <2>5
    <3>6. H = (hx) + Q * (k1 + (c) * k2 + (d) * k3 + (-1) * k4)
      BY <3>0, <3>1, <3>2, <3>3, <3>4, <2>2, <2>3, <2>4, <2>5
    <3> QED
      BY <3>0, <3>5, <3>6, CongWitness, <2>2, <2>3, <2>4, <2>5
  <2> QED
    BY <2>6 DEF H, hx
<1> QED
  BY <1>2 DEF Interpolated

(* A factor X asks for one place more.                                     *)
LEMMA FactorInterpolated ==
  ASSUME NEW n \in Nat, NEW f \in Interpolated(n), NEW g \in [Int -> Int],
         \A x \in Int : g[x] \cong x * f[x]
  PROVE  g \in Interpolated(n + 1)
<1>1. f \in [Int -> Int]
  BY DEF Interpolated
<1>2. ASSUME NEW S \in SUBSET Scalar, NEW x \in Int, Cardinality(S) >= n + 1
      PROVE  Interp(x, g, S) \cong g[x]
  <2>1. IsFiniteSet(S) /\ Cardinality(S) \in Nat /\ Cardinality(S) > 0
    BY <1>2, ScalarsFinite
  <2>2. PICK a \in S : TRUE
    BY <2>1, FS_EmptySet
  <2>3. a \in Int /\ S \ {a} \in SUBSET Scalar /\ Cardinality(S \ {a}) >= n /\ Cardinality(S) >= n
    <3>1. Cardinality(S \ {a}) = Cardinality(S) - 1
      BY <2>1, <2>2, FS_RemoveElement
    <3>2. a \in Int /\ S \ {a} \in SUBSET Scalar
      BY <2>2, ScalarInt
    <3> QED
      BY <1>2, <2>1, <3>1, <3>2
  <2> DEFINE h == [i \in S |-> (i - a) * f[i]]
             F == Interp(x, f, S)
             A == Interp(x, f, S \ {a})
             G == Interp(x, g, S)
             H == Interp(x, h, S)
             fx == f[x]
             gx == g[x]
  <2>4. ASSUME NEW i \in S
        PROVE  /\ f[i] \in Int /\ g[i] \in Int /\ h[i] \in Int
               /\ h[i] \cong (i - a) * f[i] /\ g[i] \cong 1 * h[i] + a * f[i]
    <3>1. h[i] = (i - a) * f[i]
      OBVIOUS
    <3>2. i \in Int /\ f[i] \in Int /\ g[i] \in Int /\ g[i] \cong i * f[i]
      BY <1>1, ScalarInt
    <3> HIDE DEF h
    <3>3. 1 * h[i] + a * f[i] = i * f[i] /\ h[i] \in Int
      BY <2>3, <3>1, <3>2
    <3> QED
      BY <3>1, <3>2, <3>3 DEF \cong
  <2> HIDE DEF h
  <2>5. G \in Int /\ F \in Int /\ H \in Int /\ A \in Int /\ fx \in Int /\ gx \in Int
    BY <1>1, <2>3, <2>4, InterpInt
  <2>6. F \cong fx /\ A \cong fx
    BY <2>3 DEF Interpolated
  <2>7. H \cong (x - a) * A
    BY <2>2, <2>4, InterpFactor
  <2>8. G \cong 1 * H + a * F
    <3>1. 1 \in Int
      OBVIOUS
    <3> QED
      BY <2>3, <2>4, <3>1, InterpLinear, Zenon
  <2>9. gx \cong x * fx
    OBVIOUS
  <2> HIDE DEF F, A, G, H, fx, gx
  <2>10. G \cong gx
    <3>0. Q \in Int /\ 1 * H + a * F \in Int /\ (x - a) * A \in Int /\ x * fx \in Int
      BY FieldAssumption, <2>3, <2>5, <2>6, <2>7, <2>8, <2>9
    <3>1. PICK k1 \in Int : G = (1 * H + a * F) + Q * k1
      BY <3>0, CongWitness, <2>3, <2>5, <2>6, <2>7, <2>8, <2>9
    <3>2. PICK k2 \in Int : H = ((x - a) * A) + Q * k2
      BY <3>0, CongWitness, <2>3, <2>5, <2>6, <2>7, <2>8, <2>9
    <3>3. PICK k3 \in Int : A = fx + Q * k3
      BY <3>0, CongWitness, <2>3, <2>5, <2>6, <2>7, <2>8, <2>9
    <3>4. PICK k4 \in Int : F = fx + Q * k4
      BY <3>0, CongWitness, <2>3, <2>5, <2>6, <2>7, <2>8, <2>9
    <3>5. PICK k5 \in Int : gx = (x * fx) + Q * k5
      BY <3>0, CongWitness, <2>3, <2>5, <2>6, <2>7, <2>8, <2>9
    <3>6. k1 + k2 + (x - a) * k3 + (a) * k4 + (-1) * k5 \in Int
      BY <3>0, <3>1, <3>2, <3>3, <3>4, <3>5, <2>3, <2>5, <2>6, <2>7, <2>8, <2>9
    <3>7. G = (gx) + Q * (k1 + k2 + (x - a) * k3 + (a) * k4 + (-1) * k5)
      BY <3>0, <3>1, <3>2, <3>3, <3>4, <3>5, <2>3, <2>5, <2>6, <2>7, <2>8, <2>9
    <3> QED
      BY <3>0, <3>6, <3>7, CongWitness, <2>3, <2>5, <2>6, <2>7, <2>8, <2>9
  <2> QED
    BY <2>10 DEF G, gx
<1> QED
  BY <1>2 DEF Interpolated

-----------------------------------------------------------------------------
(* Evaluation by Horner's rule *)

Bottom(s) == CHOOSE x \in s : \A y \in s : x <= y

IsHorner(h, p, x, S) ==
  h = [s \in SUBSET S |-> IF s = {} THEN 0 ELSE (h[s \ {Bottom(s)}] * x + p[Bottom(s)]) % Q]

LEMMA EvalIsFold ==
  ASSUME NEW p, NEW x
  PROVE  /\ EvalCom(p, x) = (CHOOSE h : IsHorner(h, p, x, DOMAIN p))[DOMAIN p]
         /\ EvalPoly(p, x) = EvalCom(p, x)
<1>1. EvalCom(p, x) = (CHOOSE h : IsHorner(h, p, x, DOMAIN p))[DOMAIN p]
  BY Zenon DEF EvalCom, IsHorner, Bottom, FoldRight, MapThenFoldSet, Min
<1>2. EvalPoly(p, x) = (CHOOSE h : IsHorner(h, p, x, DOMAIN p))[DOMAIN p]
  BY Zenon DEF EvalPoly, IsHorner, Bottom, FoldRight, MapThenFoldSet, Min
<1> QED
  BY <1>1, <1>2

(* V holds the values of the polynomials of the last coefficients of p.    *)
Tails(V, p, n, x) ==
  /\ V \in [1..(n + 1) -> Scalar]
  /\ V[n + 1] = 0
  /\ \A k \in 1..n : V[k] \cong V[k + 1] * x + p[k]

LEMMA HornerTails ==
  ASSUME NEW n \in Nat, NEW p \in [1..n -> Int], NEW x \in Int
  PROVE  \E V : Tails(V, p, n, x) /\ V[1] = EvalCom(p, x)
<1> DEFINE S == 1..n
           step == [q \in S \X Scalar |-> (q[2] * x + p[q[1]]) % Q]
           ch == [s \in SUBSET S |-> Bottom(s)]
<1>1. step \in [S \X Scalar -> Scalar]
  <2> SUFFICES ASSUME NEW i \in S, NEW v \in Scalar PROVE (v * x + p[i]) % Q \in Scalar
    OBVIOUS
  <2>1. v * x + p[i] \in Int
    BY ScalarInt
  <2> QED
    BY <2>1, Reduce
<1>2. \A s \in SUBSET S : s # {} => Bottom(s) \in s /\ \A y \in s : Bottom(s) <= y
  <2> SUFFICES ASSUME NEW s \in SUBSET S, s # {} PROVE Bottom(s) \in s /\ \A y \in s : Bottom(s) <= y
    OBVIOUS
  <2>1. \E i \in s : \A y \in s : i <= y
    BY LeastOfNat
  <2> QED
    BY <2>1, Zenon DEF Bottom
<1>3. Chooses(ch, S)
  BY <1>2 DEF Chooses
<1>4. IsFiniteSet(S)
  BY FS_Interval
<1>5. PICK g \in [SUBSET S -> Scalar] : FoldsBy(g, step, 0, ch, S)
  <2>1. 0 \in Scalar
    BY ScalarInt
  <2> HIDE DEF step, ch, S
  <2> QED
    BY <1>1, <1>3, <1>4, <2>1, FoldExists, Zenon
<1>6. ASSUME NEW s \in SUBSET S, s # {}
      PROVE  g[s] = (g[s \ {Bottom(s)}] * x + p[Bottom(s)]) % Q
  <2>1. Bottom(s) \in S /\ ch[s] = Bottom(s) /\ s \ {Bottom(s)} \in SUBSET S
    BY <1>2, <1>6
  <2>2. g[s \ {Bottom(s)}] \in Scalar
    BY <2>1
  <2> QED
    BY <1>5, <1>6, <2>1, <2>2 DEF FoldsBy
<1>7. IsHorner(g, p, x, S)
  BY <1>5, <1>6 DEF IsHorner, FoldsBy
<1> DEFINE h == CHOOSE k : IsHorner(k, p, x, S)
<1>8. IsHorner(h, p, x, S)
  BY <1>7
<1>9. EvalCom(p, x) = h[S]
  <2>1. DOMAIN p = S
    OBVIOUS
  <2> QED
    BY <2>1, EvalIsFold, Zenon
<1> HIDE DEF h, ch, step
<1>10. ASSUME NEW s \in SUBSET S PROVE h[s] = g[s]
  <2> DEFINE G == {t \in SUBSET s : h[t] = g[t]}
  <2>1. ASSUME NEW t \in SUBSET s, \A i \in t : t \ {i} \in G PROVE t \in G
    <3>1. CASE t = {}
      BY <1>7, <1>8, <3>1 DEF IsHorner
    <3>2. CASE t # {}
      <4>1. t \ {Bottom(t)} \in G
        BY <1>2, <2>1, <3>2
      <4> QED
        BY <1>7, <1>8, <3>2, <4>1 DEF IsHorner
    <3> QED
      BY <3>1, <3>2
  <2>2. G \in SUBSET SUBSET s /\ IsFiniteSet(s)
    BY <1>4, FS_Subset
  <2> HIDE DEF G
  <2>3. s \in G
    BY <2>1, <2>2, SetInduct
  <2> QED
    BY <2>3 DEF G
<1> DEFINE V == [k \in 1..(n + 1) |-> g[k..n]]
<1>11. V \in [1..(n + 1) -> Scalar]
  <2>1. \A k \in 1..(n + 1) : k..n \in SUBSET S
    OBVIOUS
  <2> QED
    BY <2>1
<1>12. V[n + 1] = 0
  <2>1. (n + 1)..n = {} /\ n + 1 \in 1..(n + 1)
    OBVIOUS
  <2>2. g[{}] = 0
    BY <1>7 DEF IsHorner
  <2> QED
    BY <2>1, <2>2
<1>13. ASSUME NEW k \in 1..n PROVE V[k] \cong V[k + 1] * x + p[k]
  <2> DEFINE s == k..n
  <2>0. k \in Nat /\ k <= n /\ k >= 1 /\ k \in 1..(n + 1) /\ k + 1 \in 1..(n + 1)
    OBVIOUS
  <2>1. s \in SUBSET S /\ s # {} /\ k \in s /\ (\A y \in s : k <= y) /\ s \ {k} = (k + 1)..n
    <3>1. \A y \in Int : y \in s <=> k <= y /\ y <= n
      BY <2>0
    <3>2. s \ {k} = (k + 1)..n
      BY <2>0
    <3>3. s \in SUBSET S
      BY <2>0
    <3> QED
      BY SMTT(40), <2>0, <3>1, <3>2, <3>3
  <2>2. Bottom(s) = k
    <3>1. Bottom(s) \in s /\ Bottom(s) <= k
      BY <1>2, <2>1
    <3> QED
      BY <2>1, <3>1
  <2>3. V[k] = (V[k + 1] * x + p[k]) % Q
    <3>1. V[k] = g[s] /\ V[k + 1] = g[s \ {k}]
      BY <2>0, <2>1
    <3> HIDE DEF s, V
    <3> QED
      BY <1>6, <2>1, <2>2, <3>1
  <2> HIDE DEF V
  <2>4. V[k + 1] \in Int /\ p[k] \in Int
    BY <1>11, <2>0, ScalarInt
  <2>5. V[k + 1] * x + p[k] \in Int
    BY <2>4
  <2> QED
    BY <2>3, <2>5, Reduce
<1>14. V[1] = EvalCom(p, x)
  <2>1. V[1] = g[S]
    OBVIOUS
  <2> QED
    BY <1>9, <1>10, <2>1
<1> HIDE DEF V
<1>15. Tails(V, p, n, x)
  BY <1>11, <1>12, <1>13 DEF Tails
<1> QED
  BY <1>14, <1>15

(* Induction from n down to zero, with a set for the property.             *)
LEMMA Downward ==
  ASSUME NEW n \in Nat, NEW G \in SUBSET (1..(n + 1)), n + 1 \in G, \A k \in 1..n : k + 1 \in G => k \in G
  PROVE  1 \in G
<1> DEFINE H == {m \in Nat : m <= n => n + 1 - m \in G}
<1>1. 0 \in H
  OBVIOUS
<1>2. ASSUME NEW m \in H PROVE m + 1 \in H
  <2> SUFFICES ASSUME m + 1 <= n PROVE n + 1 - (m + 1) \in G
    OBVIOUS
  <2>1. n - m \in 1..n /\ (n - m) + 1 = n + 1 - m /\ n + 1 - (m + 1) = n - m
    OBVIOUS
  <2>2. n + 1 - m \in G
    OBVIOUS
  <2> QED
    BY <2>1, <2>2
<1>3. H = Nat
  <2>1. H \in SUBSET Nat
    OBVIOUS
  <2> HIDE DEF H
  <2> QED
    BY <1>1, <1>2, <2>1, Induct
<1>4. n \in H
  BY <1>3
<1> QED
  BY <1>4

LEMMA EvalInt ==
  ASSUME NEW n \in Nat, NEW p \in [1..n -> Int], NEW x \in Int
  PROVE  EvalCom(p, x) \in Scalar /\ EvalCom(p, x) \in Int
<1>1. PICK V : Tails(V, p, n, x) /\ V[1] = EvalCom(p, x)
  BY HornerTails
<1>2. 1 \in 1..(n + 1)
  OBVIOUS
<1> QED
  BY <1>1, <1>2, ScalarInt DEF Tails

(* At zero only the first coefficient counts.                              *)
LEMMA EvalAtZero ==
  ASSUME NEW n \in Nat, n > 0, NEW p \in [1..n -> Int]
  PROVE  EvalCom(p, 0) \cong p[1]
<1>1. PICK V : Tails(V, p, n, 0) /\ V[1] = EvalCom(p, 0)
  BY HornerTails
<1>2. 1 \in 1..n /\ 1 + 1 \in 1..(n + 1)
  OBVIOUS
<1>3. V[1] \cong V[1 + 1] * 0 + p[1] /\ V[1 + 1] \in Int /\ p[1] \in Int
  BY <1>1, <1>2, ScalarInt DEF Tails
<1>4. V[1 + 1] * 0 + p[1] = p[1]
  BY <1>3
<1> QED
  BY <1>1, <1>3, <1>4

(* Evaluation is linear in the coefficients.                               *)
LEMMA EvalLinear ==
  ASSUME NEW n \in Nat, NEW p \in [1..n -> Int], NEW q \in [1..n -> Int], NEW r \in [1..n -> Int],
         NEW c \in Int, NEW d \in Int, NEW x \in Int,
         \A l \in 1..n : r[l] \cong c * p[l] + d * q[l]
  PROVE  EvalCom(r, x) \cong c * EvalCom(p, x) + d * EvalCom(q, x)
<1>1. PICK P : Tails(P, p, n, x) /\ P[1] = EvalCom(p, x)
  BY HornerTails
<1>2. PICK V : Tails(V, q, n, x) /\ V[1] = EvalCom(q, x)
  BY HornerTails
<1>3. PICK R : Tails(R, r, n, x) /\ R[1] = EvalCom(r, x)
  BY HornerTails
<1> DEFINE G == {k \in 1..(n + 1) : R[k] \cong c * P[k] + d * V[k]}
<1>4. \A k \in 1..(n + 1) : P[k] \in Int /\ V[k] \in Int /\ R[k] \in Int
  BY <1>1, <1>2, <1>3, ScalarInt DEF Tails
<1>5. n + 1 \in G
  <2>1. R[n + 1] = 0 /\ P[n + 1] = 0 /\ V[n + 1] = 0
    BY <1>1, <1>2, <1>3 DEF Tails
  <2>2. c * 0 + d * 0 = 0
    OBVIOUS
  <2> QED
    BY <2>1, <2>2 DEF \cong
<1>6. ASSUME NEW k \in 1..n, k + 1 \in G PROVE k \in G
  <2> DEFINE a == R[k]
             b == P[k]
             e == V[k]
             a1 == R[k + 1]
             b1 == P[k + 1]
             e1 == V[k + 1]
             u == p[k]
             v == q[k]
             w == r[k]
  <2>1. k \in 1..(n + 1) /\ k + 1 \in 1..(n + 1)
    OBVIOUS
  <2>2. /\ a \in Int /\ b \in Int /\ e \in Int /\ a1 \in Int /\ b1 \in Int /\ e1 \in Int
        /\ u \in Int /\ v \in Int /\ w \in Int
    BY <1>4, <2>1
  <2>3. /\ a \cong a1 * x + w /\ b \cong b1 * x + u /\ e \cong e1 * x + v
        /\ w \cong c * u + d * v /\ a1 \cong c * b1 + d * e1
    BY <1>1, <1>2, <1>3, <1>6 DEF Tails
  <2> HIDE DEF a, b, e, a1, b1, e1, u, v, w
  <2>4. a \cong c * b + d * e
    <3>0. Q \in Int /\ a1 * x + w \in Int /\ b1 * x + u \in Int /\ e1 * x + v \in Int
          /\ c * u + d * v \in Int /\ c * b1 + d * e1 \in Int /\ c * b + d * e \in Int
      BY FieldAssumption, <2>2, <2>3
    <3>1. PICK k1 \in Int : a = (a1 * x + w) + Q * k1
      BY <3>0, CongWitness, <2>2, <2>3
    <3>2. PICK k2 \in Int : b = (b1 * x + u) + Q * k2
      BY <3>0, CongWitness, <2>2, <2>3
    <3>3. PICK k3 \in Int : e = (e1 * x + v) + Q * k3
      BY <3>0, CongWitness, <2>2, <2>3
    <3>4. PICK k4 \in Int : w = (c * u + d * v) + Q * k4
      BY <3>0, CongWitness, <2>2, <2>3
    <3>5. PICK k5 \in Int : a1 = (c * b1 + d * e1) + Q * k5
      BY <3>0, CongWitness, <2>2, <2>3
    <3>6. k1 + (-c) * k2 + (-d) * k3 + k4 + (x) * k5 \in Int
      BY <3>0, <3>1, <3>2, <3>3, <3>4, <3>5, <2>2, <2>3
    <3>7. a = (c * b + d * e) + Q * (k1 + (-c) * k2 + (-d) * k3 + k4 + (x) * k5)
      BY <3>0, <3>1, <3>2, <3>3, <3>4, <3>5, <2>2, <2>3
    <3> QED
      BY <3>0, <3>6, <3>7, CongWitness, <2>2, <2>3
  <2> QED
    BY <2>1, <2>4 DEF a, b, e
<1>7. G \in SUBSET (1..(n + 1))
  OBVIOUS
<1> HIDE DEF G
<1>8. 1 \in G
  BY <1>5, <1>6, <1>7, Downward
<1> QED
  BY <1>1, <1>2, <1>3, <1>8 DEF G

LEMMA EvalScale ==
  ASSUME NEW n \in Nat, NEW p \in [1..n -> Int], NEW r \in [1..n -> Int],
         NEW c \in Int, NEW x \in Int, \A l \in 1..n : r[l] \cong c * p[l]
  PROVE  EvalCom(r, x) \cong c * EvalCom(p, x)
<1>1. \A l \in 1..n : c * p[l] + 0 * p[l] = c * p[l]
  OBVIOUS
<1>2. EvalCom(r, x) \cong c * EvalCom(p, x) + 0 * EvalCom(p, x)
  <2>1. 0 \in Int /\ \A l \in 1..n : r[l] \cong c * p[l] + 0 * p[l]
    BY <1>1
  <2> QED
    BY <2>1, EvalLinear, Zenon
<1>3. c * EvalCom(p, x) + 0 * EvalCom(p, x) = c * EvalCom(p, x)
  <2>1. EvalCom(p, x) \in Int
    BY EvalInt
  <2> QED
    BY <2>1
<1> QED
  BY <1>2, <1>3

(* The polynomial 1 is 1 everywhere.                                       *)
LEMMA EvalUnit ==
  ASSUME NEW n \in Nat, n > 0, NEW p \in [1..n -> Int], p[1] = 1, \A l \in 2..n : p[l] = 0, NEW x \in Int
  PROVE  EvalCom(p, x) \cong 1
<1>1. PICK V : Tails(V, p, n, x) /\ V[1] = EvalCom(p, x)
  BY HornerTails
<1> DEFINE G == {k \in 1..(n + 1) : IF k = 1 THEN V[1] \cong 1 ELSE V[k] \cong 0}
<1>2. n + 1 \in G
  BY <1>1 DEF Tails, \cong
<1>3. ASSUME NEW k \in 1..n, k + 1 \in G PROVE k \in G
  <2>1. k \in Nat /\ k \in 1..(n + 1) /\ k + 1 \in 1..(n + 1) /\ k + 1 # 1
    OBVIOUS
  <2>2. V[k] \in Int /\ V[k + 1] \in Int /\ V[k + 1] \cong 0 /\ V[k] \cong V[k + 1] * x + p[k]
    BY <1>1, <1>3, <2>1, ScalarInt DEF Tails
  <2>3. p[k] \in Int /\ (IF k = 1 THEN p[k] = 1 ELSE p[k] = 0)
    <3>1. k # 1 => k \in 2..n
      BY <2>1
    <3> QED
      BY <3>1
  <2>4. V[k + 1] * x + p[k] \cong 0 + p[k]
    <3>1. V[k + 1] * x \in Int /\ 0 \in Int
      BY <2>2
    <3>2. V[k + 1] * x \cong 0
      BY <2>2, ZeroIdeal
    <3> QED
      BY <2>3, <3>1, <3>2, CongWith, Zenon
  <2>5. 0 + p[k] = p[k]
    BY <2>3
  <2>6. V[k] \cong p[k]
    BY <2>2, <2>4, <2>5, CongTrans
  <2> QED
    BY <2>1, <2>3, <2>6
<1>4. G \in SUBSET (1..(n + 1))
  OBVIOUS
<1> HIDE DEF G
<1>5. 1 \in G
  BY <1>2, <1>3, <1>4, Downward
<1> QED
  BY <1>1, <1>5 DEF G

LEMMA EvalAddConst ==
  ASSUME NEW n \in Nat, n > 0, NEW p \in [1..n -> Int], NEW r \in [1..n -> Int], NEW c \in Int, NEW x \in Int,
         r[1] \cong p[1] + c, \A l \in 2..n : r[l] = p[l]
  PROVE  EvalCom(r, x) \cong EvalCom(p, x) + c
<1> DEFINE e == [l \in 1..n |-> IF l = 1 THEN 1 ELSE 0]
<1>1. e \in [1..n -> Int] /\ e[1] = 1 /\ \A l \in 2..n : e[l] = 0
  OBVIOUS
<1>2. \A l \in 1..n : r[l] \cong 1 * p[l] + c * e[l]
  <2> SUFFICES ASSUME NEW l \in 1..n PROVE r[l] \cong 1 * p[l] + c * e[l]
    OBVIOUS
  <2>1. CASE l = 1
    <3>1. e[l] = 1 /\ p[l] \in Int
      BY <2>1
    <3> HIDE DEF e
    <3>2. 1 * p[l] + c * e[l] = p[l] + c
      BY <3>1
    <3> QED
      BY <2>1, <3>2
  <2>2. CASE l # 1
    <3>1. l \in 2..n
      BY <2>2
    <3>2. e[l] = 0 /\ p[l] \in Int /\ r[l] = p[l]
      BY <2>2, <3>1
    <3> HIDE DEF e
    <3>3. 1 * p[l] + c * e[l] = p[l]
      BY <3>2
    <3> QED
      BY <3>2, <3>3 DEF \cong
  <2> QED
    BY <2>1, <2>2
<1> HIDE DEF e
<1>3. EvalCom(r, x) \cong 1 * EvalCom(p, x) + c * EvalCom(e, x)
  <2>1. 1 \in Int
    OBVIOUS
  <2> QED
    BY <1>1, <1>2, <2>1, EvalLinear, Zenon
<1>4. EvalCom(p, x) \in Int /\ EvalCom(e, x) \in Int /\ EvalCom(r, x) \in Int /\ EvalCom(e, x) \cong 1
  BY <1>1, EvalInt, EvalUnit
<1> DEFINE E == EvalCom(e, x)
           P == EvalCom(p, x)
           R == EvalCom(r, x)
<1>5. E \in Int /\ P \in Int /\ R \in Int /\ E \cong 1 /\ R \cong 1 * P + c * E
  BY <1>3, <1>4
<1> HIDE DEF E, P, R
<1>6. R \cong P + c
  <2>0. Q \in Int /\ 1 \in Int /\ 1 * P + c * E \in Int /\ P + c \in Int
    BY FieldAssumption, <1>5
  <2>1. PICK k1 \in Int : E = 1 + Q * k1
    BY <2>0, CongWitness, <1>5
  <2>2. PICK k2 \in Int : R = (1 * P + c * E) + Q * k2
    BY <2>0, CongWitness, <1>5
  <2>3. (c) * k1 + k2 \in Int
    BY <2>0, <2>1, <2>2, <1>5
  <2>4. R = (P + c) + Q * ((c) * k1 + k2)
    BY <2>0, <2>1, <2>2, <1>5
  <2> QED
    BY <2>0, <2>3, <2>4, CongWitness, <1>5
<1> QED
  BY <1>6 DEF P, R

(* Zero needs no place at all.                                             *)
LEMMA ZeroInterpolated ==
  ASSUME NEW f \in [Int -> Int], \A x \in Int : f[x] \cong 0
  PROVE  f \in Interpolated(0)
<1> SUFFICES ASSUME NEW S \in SUBSET Scalar, NEW x \in Int
             PROVE  Interp(x, f, S) \cong f[x]
  BY DEF Interpolated
<1>1. \A i \in S : f[i] \in Int /\ f[i] \cong 0 /\ 0 * f[i] + 0 * f[i] = 0
  BY ScalarInt
<1>2. Interp(x, f, S) \cong 0 * Interp(x, f, S) + 0 * Interp(x, f, S)
  <2>1. 0 \in Int /\ \A i \in S : f[i] \cong 0 * f[i] + 0 * f[i]
    BY <1>1
  <2> QED
    BY <1>1, <2>1, InterpLinear, Zenon
<1>3. 0 * Interp(x, f, S) + 0 * Interp(x, f, S) = 0
  <2>1. Interp(x, f, S) \in Int
    BY <1>1, InterpInt
  <2> QED
    BY <2>1
<1> QED
  BY <1>2, <1>3, CongTrans

(* A polynomial of n coefficients times a function that m places determine *)
(* is determined by m + n - 1 places: by Horner's rule, coefficient by     *)
(* coefficient.                                                            *)
LEMMA ProductInterpolated ==
  ASSUME NEW m \in Nat, m > 0, NEW g \in Interpolated(m), NEW n \in Nat, NEW p \in [1..n -> Int],
         NEW h \in [Int -> Int], \A x \in Int : h[x] \cong EvalCom(p, x) * g[x]
  PROVE  h \in Interpolated(m + n - 1)
<1> DEFINE V == [x \in Int |-> CHOOSE V : Tails(V, p, n, x) /\ V[1] = EvalCom(p, x)]
           F(k) == [x \in Int |-> V[x][k] * g[x]]
           G == {k \in 1..(n + 1) : F(k) \in Interpolated(m + n - k)}
<1>1. \A x \in Int : Tails(V[x], p, n, x) /\ V[x][1] = EvalCom(p, x)
  BY HornerTails
<1> HIDE DEF V
<1>2. g \in [Int -> Int]
  BY DEF Interpolated
<1>3. \A k \in 1..(n + 1), x \in Int : V[x][k] \in Int /\ F(k)[x] = V[x][k] * g[x]
  BY <1>1, ScalarInt DEF Tails
<1>4. \A k \in 1..(n + 1) : F(k) \in [Int -> Int]
  <2> SUFFICES ASSUME NEW k \in 1..(n + 1), NEW x \in Int PROVE V[x][k] * g[x] \in Int
    OBVIOUS
  <2>1. V[x][k] \in Int /\ g[x] \in Int
    BY <1>2, <1>3
  <2> QED
    BY <2>1, IntClosed, Zenon
<1> HIDE DEF F
<1>5. n + 1 \in G
  <2>1. n + 1 \in 1..(n + 1) /\ m + n - (n + 1) = m - 1 /\ m - 1 \in Nat /\ 0 <= m - 1 /\ 0 \in Nat
    OBVIOUS
  <2>2. ASSUME NEW x \in Int PROVE F(n + 1)[x] \cong 0
    <3>1. V[x][n + 1] = 0 /\ g[x] \in Int
      BY <1>1, <1>2 DEF Tails
    <3>2. F(n + 1)[x] = V[x][n + 1] * g[x]
      BY <1>3, <2>1
    <3>3. 0 * g[x] = 0
      BY <3>1, IntClosed, Zenon
    <3>4. F(n + 1)[x] = 0
      BY <3>1, <3>2, <3>3, Zenon
    <3> QED
      BY <3>4 DEF \cong
  <2>3. F(n + 1) \in Interpolated(0)
    BY <1>4, <2>1, <2>2, ZeroInterpolated
  <2> QED
    BY <2>1, <2>3, InterpolatedMonotone
<1>6. ASSUME NEW k \in 1..n, k + 1 \in G PROVE k \in G
  <2>1. /\ k \in Nat /\ k \in 1..(n + 1) /\ k + 1 \in 1..(n + 1)
        /\ m + n - (k + 1) \in Nat /\ m + n - k \in Nat /\ m <= m + n - k
        /\ (m + n - (k + 1)) + 1 = m + n - k
    OBVIOUS
  <2> DEFINE f == [x \in Int |-> x * F(k + 1)[x]]
  <2>2. f \in [Int -> Int] /\ \A x \in Int : f[x] = x * F(k + 1)[x]
    <3> SUFFICES ASSUME NEW x \in Int PROVE x * F(k + 1)[x] \in Int
      OBVIOUS
    <3>1. F(k + 1)[x] \in Int
      BY <1>4, <2>1
    <3> QED
      BY <3>1, IntClosed, Zenon
  <2> HIDE DEF f
  <2>3. f \in Interpolated(m + n - k)
    <3>1. F(k + 1) \in Interpolated(m + n - (k + 1))
      BY <1>6
    <3>2. \A x \in Int : f[x] \cong x * F(k + 1)[x]
      BY <2>2 DEF \cong
    <3>3. f \in Interpolated((m + n - (k + 1)) + 1)
      BY <2>1, <2>2, <3>1, <3>2, FactorInterpolated
    <3> QED
      BY <2>1, <3>3
  <2>4. g \in Interpolated(m + n - k)
    BY <2>1, InterpolatedMonotone
  <2>5. ASSUME NEW x \in Int PROVE F(k)[x] \cong 1 * f[x] + p[k] * g[x]
    <3> DEFINE a == V[x][k]
               b == V[x][k + 1]
               c == g[x]
               d == p[k]
    <3>1. a \in Int /\ b \in Int /\ c \in Int /\ d \in Int
      BY <1>2, <1>3, <2>1
    <3>2. a \cong b * x + d
      BY <1>1 DEF Tails
    <3>3. F(k)[x] = a * c /\ f[x] = x * (b * c)
      BY <1>3, <2>1, <2>2
    <3> HIDE DEF a, b, c, d
    <3>4. a * c \cong 1 * (x * (b * c)) + d * c
      <4>1. b * x + d \in Int /\ (b * x + d) * c = 1 * (x * (b * c)) + d * c
        BY <3>1
      <4>2. a * c \cong (b * x + d) * c
        BY <3>1, <3>2, <4>1, CongWith
      <4> QED
        BY <4>1, <4>2
    <3> QED
      BY <3>3, <3>4 DEF c, d
  <2>6. F(k) \in Interpolated(m + n - k)
    <3>1. 1 \in Int /\ p[k] \in Int
      OBVIOUS
    <3>2. F(k) \in [Int -> Int]
      BY <1>4, <2>1, Zenon
    <3> QED
      BY <2>1, <2>3, <2>4, <2>5, <3>1, <3>2, CombinationInterpolated, Zenon
  <2> QED
    BY <2>1, <2>6
<1>7. 1 \in G
  <2>1. G \in SUBSET (1..(n + 1))
    OBVIOUS
  <2> HIDE DEF G
  <2> QED
    BY <1>5, <1>6, <2>1, Downward
<1>8. F(1) \in Interpolated(m + n - 1)
  BY <1>7
<1>9. \A x \in Int : h[x] \cong F(1)[x]
  <2>1. 1 \in 1..(n + 1)
    OBVIOUS
  <2> QED
    BY <1>1, <1>3, <2>1
<1>10. ASSUME NEW x \in Int PROVE h[x] \cong 1 * F(1)[x] + 0 * F(1)[x]
  <2>1. 1 \in 1..(n + 1)
    OBVIOUS
  <2>2. F(1)[x] \in Int
    BY <1>4, <2>1
  <2>3. 1 * F(1)[x] + 0 * F(1)[x] = F(1)[x]
    BY SMTT(40), <2>2
  <2> QED
    BY <1>9, <2>3
<1>11. 1 \in Int /\ 0 \in Int /\ m + n - 1 \in Nat
  OBVIOUS
<1> QED
  BY <1>8, <1>10, <1>11, CombinationInterpolated, Zenon

LEMMA PolynomialInterpolated ==
  ASSUME NEW n \in Nat, NEW p \in [1..n -> Int]
  PROVE  [x \in Int |-> EvalCom(p, x)] \in Interpolated(n)
<1> DEFINE h == [x \in Int |-> EvalCom(p, x)]
           g == [x \in Int |-> 1]
<1>1. h \in [Int -> Int]
  BY EvalInt
<1>2. g \in Interpolated(1)
  <2>1. 1 \in Int
    OBVIOUS
  <2> QED
    BY <2>1, ConstantInterpolated, Zenon
<1>3. \A x \in Int : h[x] \cong EvalCom(p, x) * g[x]
  <2> SUFFICES ASSUME NEW x \in Int PROVE h[x] \cong EvalCom(p, x) * g[x]
    OBVIOUS
  <2>1. EvalCom(p, x) \in Int /\ EvalCom(p, x) * 1 = EvalCom(p, x)
    BY EvalInt
  <2> QED
    BY <2>1 DEF \cong
<1>4. 1 + n - 1 = n /\ 1 \in Nat /\ 1 > 0
  OBVIOUS
<1> HIDE DEF g, h
<1>5. h \in Interpolated(1 + n - 1)
  BY <1>1, <1>2, <1>3, <1>4, ProductInterpolated, Zenon
<1> QED
  BY <1>4, <1>5 DEF h

-----------------------------------------------------------------------------
(* Commitments *)

Com(n) == [1..n -> Scalar]

LEMMA ComTyped ==
  ASSUME NEW n \in Nat, NEW A \in Com(n)
  PROVE  /\ A \in [1..n -> Int] /\ A \in Seq(Scalar) /\ Len(A) = n /\ DOMAIN A = 1..n
         /\ \A x \in Int : EvalCom(A, x) \in Scalar /\ EvalCom(A, x) \in Int
<1>1. A \in [1..n -> Scalar]
  BY DEF Com
<1>2. A \in [1..n -> Int]
  BY <1>1, ScalarInt
<1>3. A \in Seq(Scalar) /\ DOMAIN A = 1..n
  BY <1>1
<1>4. Len(A) = n
  BY <1>3
<1> QED
  BY <1>2, <1>3, <1>4, EvalInt

LEMMA NoCom == <<>> \in Com(0) /\ \A x \in Int : EvalCom(<<>>, x) = 0
<1>1. <<>> \in Com(0)
  BY DEF Com
<1>2. ASSUME NEW x \in Int PROVE EvalCom(<<>>, x) = 0
  <2>1. 0 \in Nat /\ <<>> \in [1..0 -> Int]
    OBVIOUS
  <2>2. PICK V : Tails(V, <<>>, 0, x) /\ V[1] = EvalCom(<<>>, x)
    BY <2>1, HornerTails, Zenon
  <2>3. V[0 + 1] = 0 /\ 0 + 1 = 1
    BY <2>2 DEF Tails
  <2> QED
    BY <2>2, <2>3
<1> QED
  BY <1>1, <1>2

LEMMA TabulateIs == \A f : Tabulate(f) = f
BY Zenon DEF Tabulate

(* The sum of two commitments, or of one and none.                         *)
LEMMA AddComSound ==
  ASSUME NEW n \in Nat, NEW A \in Com(n), NEW B, B \in Com(n) \/ B \in Com(0)
  PROVE  /\ AddCom(A, B) \in Com(n)
         /\ \A x \in Int : EvalCom(AddCom(A, B), x) \cong EvalCom(A, x) + EvalCom(B, x)
<1> DEFINE b == [l \in 1..n |-> IF l \in DOMAIN B THEN B[l] ELSE 0]
           R == AddCom(A, B)
<1>1. A \in [1..n -> Int] /\ DOMAIN A = 1..n
  BY ComTyped
<1>2. DOMAIN A \union DOMAIN B = 1..n /\ \A l \in DOMAIN B : B[l] \in Scalar
  BY <1>1 DEF Com
<1>3. b \in [1..n -> Int] /\ b \in Com(n)
  BY <1>2, ScalarInt DEF Com
<1>4. R = [l \in 1..n |-> (A[l] + b[l]) % Q]
  <2>1. R = [l \in 1..n |-> ((IF l \in DOMAIN A THEN A[l] ELSE 0) + (IF l \in DOMAIN B THEN B[l] ELSE 0)) % Q]
    BY <1>2, TabulateIs DEF AddCom
  <2>2. \A l \in 1..n : (IF l \in DOMAIN A THEN A[l] ELSE 0) = A[l]
        /\ (IF l \in DOMAIN B THEN B[l] ELSE 0) = b[l]
    BY <1>1
  <2> HIDE DEF b, R
  <2> QED
    BY <2>1, <2>2
<1> HIDE DEF b, R
<1>5. ASSUME NEW l \in 1..n PROVE R[l] \in Scalar /\ R[l] \cong 1 * A[l] + 1 * b[l]
  <2>1. A[l] \in Int /\ b[l] \in Int /\ R[l] = (A[l] + b[l]) % Q
    BY <1>1, <1>3, <1>4
  <2>2. A[l] + b[l] \in Int /\ 1 * A[l] + 1 * b[l] = A[l] + b[l]
    BY <2>1
  <2> QED
    BY <2>1, <2>2, Reduce
<1>6. R \in Com(n) /\ R \in [1..n -> Int]
  BY <1>4, <1>5, ScalarInt DEF Com
<1>7. ASSUME NEW x \in Int PROVE EvalCom(R, x) \cong EvalCom(A, x) + EvalCom(B, x)
  <2>1. EvalCom(R, x) \cong 1 * EvalCom(A, x) + 1 * EvalCom(b, x)
    <3>1. 1 \in Int
      OBVIOUS
    <3> QED
      BY <1>1, <1>3, <1>5, <1>6, <3>1, EvalLinear, Zenon
  <2>2. EvalCom(A, x) \in Int /\ EvalCom(b, x) \in Int
    BY <1>3, ComTyped
  <2>3. 1 * EvalCom(A, x) + 1 * EvalCom(b, x) = EvalCom(A, x) + EvalCom(b, x)
    BY <2>2
  <2>4. EvalCom(b, x) = EvalCom(B, x)
    <3>1. CASE B \in Com(n)
      <4>1. b = B
        BY <3>1 DEF b, Com
      <4> QED
        BY <4>1
    <3>2. CASE B \in Com(0)
      <4>1. B = <<>>
        BY <3>2 DEF Com
      <4>2. EvalCom(B, x) = 0
        BY <4>1, NoCom
      <4>3. \A l \in 1..n : b[l] = 0
        BY <4>1 DEF b
      <4>4. EvalCom(b, x) \cong 0 * EvalCom(A, x)
        <5>1. \A l \in 1..n : A[l] \in Int /\ 0 * A[l] = 0
          BY <1>1, IntClosed
        <5>2. 0 \in Int /\ \A l \in 1..n : b[l] \cong 0 * A[l]
          BY <4>3, <5>1 DEF \cong
        <5> QED
          BY <1>1, <1>3, <5>2, EvalScale, Zenon
      <4>5. 0 * EvalCom(A, x) = 0
        BY <2>2
      <4>6. EvalCom(b, x) \in Scalar
        BY <1>3, ComTyped
      <4> QED
        BY <4>2, <4>4, <4>5, <4>6, ScalarsEqual, ScalarInt
    <3> QED
      BY <3>1, <3>2
  <2> QED
    BY <2>1, <2>3, <2>4
<1> QED
  BY <1>6, <1>7 DEF R

LEMMA ScaleComSound ==
  ASSUME NEW n \in Nat, NEW A \in Com(n), NEW c \in Int
  PROVE  /\ ScaleCom(A, c) \in Com(n)
         /\ \A l \in 1..n : ScaleCom(A, c)[l] \cong c * A[l]
         /\ \A x \in Int : EvalCom(ScaleCom(A, c), x) \cong c * EvalCom(A, x)
<1> DEFINE R == ScaleCom(A, c)
<1>1. A \in [1..n -> Int] /\ DOMAIN A = 1..n
  BY ComTyped
<1>2. R = [l \in 1..n |-> (A[l] * c) % Q]
  BY <1>1, TabulateIs DEF ScaleCom
<1> HIDE DEF R
<1>3. ASSUME NEW l \in 1..n PROVE R[l] \in Scalar /\ R[l] \cong c * A[l]
  <2>1. A[l] \in Int /\ R[l] = (A[l] * c) % Q
    BY <1>1, <1>2
  <2>2. A[l] * c \in Int /\ A[l] * c = c * A[l]
    BY <2>1
  <2> QED
    BY <2>1, <2>2, Reduce
<1>4. R \in Com(n) /\ R \in [1..n -> Int]
  BY <1>2, <1>3, ScalarInt DEF Com
<1>5. \A x \in Int : EvalCom(R, x) \cong c * EvalCom(A, x)
  BY <1>1, <1>3, <1>4, EvalScale
<1> QED
  BY <1>3, <1>4, <1>5 DEF R

LEMMA AddConstSound ==
  ASSUME NEW n \in Nat, n > 0, NEW A \in Com(n), NEW c \in Int
  PROVE  /\ AddConst(A, c) \in Com(n)
         /\ \A x \in Int : EvalCom(AddConst(A, c), x) \cong EvalCom(A, x) + Gen * c
<1> DEFINE R == AddConst(A, c)
           v == (A[1] + Gen * c) % Q
<1>1. A \in [1..n -> Int] /\ A \in [1..n -> Scalar] /\ 1 \in 1..n
  BY ComTyped DEF Com
<1>2. A[1] \in Int /\ Gen \in Int /\ Gen * c \in Int /\ A[1] + Gen * c \in Int
  BY <1>1, ScalarInt
<1>3. v \in Scalar /\ v \cong A[1] + Gen * c
  BY <1>2, Reduce
<1>4. R = [A EXCEPT ![1] = v]
  BY DEF AddConst
<1> HIDE DEF R, v
<1>5. R[1] = v /\ (\A l \in 2..n : R[l] = A[l]) /\ R \in [1..n -> Scalar]
  BY <1>1, <1>3, <1>4
<1>6. R \in [1..n -> Int]
  BY <1>5, ScalarInt
<1>7. \A x \in Int : EvalCom(R, x) \cong EvalCom(A, x) + Gen * c
  BY <1>1, <1>2, <1>3, <1>5, <1>6, EvalAddConst
<1> QED
  BY <1>5, <1>7 DEF R, Com

LEMMA CommitSound ==
  ASSUME NEW n \in Nat, NEW p \in [1..n -> Int]
  PROVE  /\ Commit(p) \in Com(n)
         /\ \A l \in 1..n : Commit(p)[l] \cong Gen * p[l]
         /\ \A x \in Int : /\ EvalPoly(p, x) \in Scalar
                           /\ EvalCom(Commit(p), x) \cong Gen * EvalPoly(p, x)
<1> DEFINE R == Commit(p)
<1>1. R = [l \in 1..n |-> (Gen * p[l]) % Q]
  BY TabulateIs DEF Commit
<1> HIDE DEF R
<1>2. ASSUME NEW l \in 1..n PROVE R[l] \in Scalar /\ R[l] \cong Gen * p[l]
  <2>1. Gen * p[l] \in Int
    BY ScalarInt
  <2> QED
    BY <1>1, <2>1, Reduce
<1>3. R \in Com(n) /\ R \in [1..n -> Int]
  BY <1>1, <1>2, ScalarInt DEF Com
<1>4. \A x \in Int : EvalPoly(p, x) = EvalCom(p, x) /\ EvalCom(p, x) \in Scalar
  BY EvalIsFold, EvalInt
<1>5. \A x \in Int : EvalCom(R, x) \cong Gen * EvalCom(p, x)
  BY <1>2, <1>3, EvalScale, ScalarInt
<1> QED
  BY <1>2, <1>3, <1>4, <1>5 DEF R

LEMMA AtZeroIsFirst ==
  ASSUME NEW n \in Nat, n > 0, NEW A \in Com(n)
  PROVE  EvalCom(A, 0) = A[1] /\ A[1] \in Scalar
<1>1. A \in [1..n -> Int] /\ A[1] \in Scalar
  BY ComTyped DEF Com
<1>2. EvalCom(A, 0) \cong A[1] /\ EvalCom(A, 0) \in Scalar
  BY <1>1, EvalAtZero, EvalInt
<1> QED
  BY <1>1, <1>2, ScalarsEqual

IsSumCom(h, coms, S) ==
  h = [s \in SUBSET S |-> IF s = {} THEN <<>> ELSE AddCom(coms[First(s)], h[s \ {First(s)}])]

LEMMA SumComIsFold ==
  ASSUME NEW coms
  PROVE  SumCom(coms) = (CHOOSE h : IsSumCom(h, coms, DOMAIN coms))[DOMAIN coms]
BY Zenon DEF SumCom, IsSumCom, First, FoldFunction, FoldFunctionOnSet, MapThenFoldSet

(* The sum of a committee's commitments takes the sum of their values.     *)
LEMMA SumComSound ==
  ASSUME NEW n \in Nat, NEW S, IsFiniteSet(S), S # {}, NEW coms, DOMAIN coms = S,
         \A i \in S : coms[i] \in Com(n)
  PROVE  /\ SumCom(coms) \in Com(n)
         /\ \A x \in Int : EvalCom(SumCom(coms), x) \cong SumOn([i \in S |-> EvalCom(coms[i], x)], S)
<1> DEFINE V == Com(n) \union Com(0)
           step == [q \in S \X V |-> AddCom(coms[q[1]], q[2])]
           ch == [s \in SUBSET S |-> First(s)]
<1>1. step \in [S \X V -> V]
  <2> SUFFICES ASSUME NEW i \in S, NEW v \in V PROVE AddCom(coms[i], v) \in V
    OBVIOUS
  <2>1. coms[i] \in Com(n) /\ (v \in Com(n) \/ v \in Com(0))
    OBVIOUS
  <2> QED
    BY <2>1, AddComSound, Zenon
<1>2. \A s \in SUBSET S : s # {} => First(s) \in s
  BY DEF First
<1>3. PICK g \in [SUBSET S -> V] : FoldsBy(g, step, <<>>, ch, S)
  <2>1. <<>> \in V
    BY NoCom
  <2>2. Chooses(ch, S)
    BY <1>2 DEF Chooses
  <2> HIDE DEF step, ch, V
  <2> QED
    BY <1>1, <2>1, <2>2, FoldExists, Zenon
<1>4. g[{}] = <<>> /\ \A s \in SUBSET S : s # {} => g[s] = AddCom(coms[First(s)], g[s \ {First(s)}])
  <2>1. g[{}] = <<>>
    BY <1>3 DEF FoldsBy
  <2>2. ASSUME NEW s \in SUBSET S, s # {}
        PROVE  g[s] = AddCom(coms[First(s)], g[s \ {First(s)}])
    <3>1. First(s) \in S /\ ch[s] = First(s) /\ g[s \ {First(s)}] \in V
      BY <1>2, <2>2
    <3>2. g[s] = step[<<First(s), g[s \ {First(s)}]>>]
      BY <1>3, <2>2, <3>1 DEF FoldsBy
    <3> HIDE DEF V
    <3> QED
      BY <3>1, <3>2
  <2> QED
    BY <2>1, <2>2
<1>5. IsSumCom(g, coms, S)
  BY <1>4 DEF IsSumCom
<1> DEFINE h == CHOOSE k : IsSumCom(k, coms, S)
<1>6. IsSumCom(h, coms, S)
  BY <1>5
<1>7. SumCom(coms) = h[S]
  BY SumComIsFold
<1> HIDE DEF h, step, ch
<1>8. h[S] = g[S]
  <2> DEFINE G == {t \in SUBSET S : h[t] = g[t]}
  <2>1. ASSUME NEW t \in SUBSET S, \A i \in t : t \ {i} \in G PROVE t \in G
    <3>1. CASE t = {}
      BY <1>5, <1>6, <3>1 DEF IsSumCom
    <3>2. CASE t # {}
      <4>1. t \ {First(t)} \in G
        BY <1>2, <2>1, <3>2
      <4> QED
        BY <1>5, <1>6, <3>2, <4>1 DEF IsSumCom
    <3> QED
      BY <3>1, <3>2
  <2>2. G \in SUBSET SUBSET S
    OBVIOUS
  <2> HIDE DEF G
  <2>3. S \in G
    BY <2>1, <2>2, SetInduct
  <2> QED
    BY <2>3 DEF G
<1>9. \A t \in SUBSET S : t # {} => g[t] \in Com(n)
  <2> SUFFICES ASSUME NEW t \in SUBSET S, t # {} PROVE g[t] \in Com(n)
    OBVIOUS
  <2>1. PICK i : i = First(t) /\ i \in t
    BY <1>2
  <2>2. coms[i] \in Com(n) /\ g[t \ {i}] \in V
    BY <2>1
  <2>3. coms[i] \in Com(n) /\ (g[t \ {i}] \in Com(n) \/ g[t \ {i}] \in Com(0))
    BY <2>2
  <2>4. AddCom(coms[i], g[t \ {i}]) \in Com(n)
    BY <2>3, AddComSound
  <2> QED
    BY <1>4, <2>1, <2>4
<1>10. ASSUME NEW x \in Int
       PROVE  EvalCom(g[S], x) \cong SumOn([i \in S |-> EvalCom(coms[i], x)], S)
  <2> DEFINE E == [i \in S |-> EvalCom(coms[i], x)]
             G == {t \in SUBSET S : EvalCom(g[t], x) \cong SumOn(E, t)}
  <2>1. \A i \in S : E[i] \in Int /\ E[i] = EvalCom(coms[i], x)
    BY ComTyped
  <2> HIDE DEF E
  <2>2. ASSUME NEW t \in SUBSET S, \A i \in t : t \ {i} \in G PROVE t \in G
    <3>0. IsFiniteSet(t)
      BY FS_Subset
    <3>1. CASE t = {}
      <4>1. SumOn(E, t) = 0
        BY <3>0, <3>1, <2>1, SumStep
      <4> QED
        BY <1>4, <3>1, <4>1, NoCom DEF \cong
    <3>2. CASE t # {}
      <4> DEFINE i == First(t)
                 r == t \ {i}
      <4>1. i \in t /\ i \in S /\ r \in SUBSET S /\ r \in G /\ IsFiniteSet(r)
        BY <1>2, <2>2, <3>0, <3>2, FS_Subset
      <4>2. coms[i] \in Com(n) /\ (g[r] \in Com(n) \/ g[r] \in Com(0)) /\ g[t] = AddCom(coms[i], g[r])
        BY <1>4, <3>2, <4>1
      <4>3. SumOn(E, t) = (E[i] + SumOn(E, r)) % Q
        BY <2>1, <3>0, <3>2, SumStep
      <4> HIDE DEF i, r
      <4>4. EvalCom(g[t], x) \cong E[i] + EvalCom(g[r], x)
        BY <2>1, <4>1, <4>2, AddComSound
      <4>5. EvalCom(g[r], x) \cong SumOn(E, r)
        BY <4>1
      <4>6. EvalCom(g[r], x) \in Int /\ SumOn(E, r) \in Int /\ E[i] \in Int
        <5>1. SumOn(E, r) \in Int
          BY <2>1, <4>1, SumStep, ScalarInt
        <5>2. EvalCom(g[r], x) \in Int
          <6>1. 0 \in Nat
            OBVIOUS
          <6> QED
            BY <4>2, <6>1, ComTyped, Zenon
        <5> QED
          BY <2>1, <4>1, <5>1, <5>2
      <4>7. E[i] + EvalCom(g[r], x) \cong E[i] + SumOn(E, r)
        BY <4>5, <4>6, CongWith
      <4>8. SumOn(E, t) \cong E[i] + SumOn(E, r)
        <5>1. E[i] + SumOn(E, r) \in Int
          BY <4>6
        <5> QED
          BY <4>3, <5>1, Reduce
      <4> QED
        BY <4>4, <4>7, <4>8, CongTrans
    <3> QED
      BY <3>1, <3>2
  <2>3. G \in SUBSET SUBSET S
    OBVIOUS
  <2> HIDE DEF G
  <2>4. S \in G
    BY <2>2, <2>3, SetInduct
  <2> QED
    BY <2>4 DEF G, E
<1> QED
  BY <1>7, <1>8, <1>9, <1>10

-----------------------------------------------------------------------------
(* Shares and openings *)

(* The parties of S hold shares of X that fit its commitment, of n         *)
(* coefficients.                                                           *)
Held(X, S, n) ==
  /\ {"sh", "com"} \subseteq DOMAIN X
  /\ X.sh \in [S -> Scalar] /\ X.com \in Com(n)
  /\ \A j \in S : EvalCom(X.com, j) \cong Gen * X.sh[j]

LEMMA ShareFits ==
  ASSUME NEW n \in Nat, NEW A \in Com(n), NEW j \in Int, NEW s \in Int
  PROVE  VerifyShare(A, j, s) <=> EvalCom(A, j) \cong Gen * s
<1>1. EvalCom(A, j) \in Scalar /\ Gen * s \in Int
  BY ComTyped, ScalarInt
<1>2. (Gen * s) % Q \in Scalar /\ (Gen * s) % Q \cong Gen * s
  BY <1>1, Reduce
<1> QED
  BY <1>1, <1>2, ScalarsEqual DEF VerifyShare, \cong

LEMMA HeldNoneBad ==
  ASSUME NEW n \in Nat, NEW S \in SUBSET Scalar, NEW X, Held(X, S, n)
  PROVE  BadShares(X) = {} /\ DOMAIN X.sh = S
<1>1. \A j \in S : j \in Int /\ X.sh[j] \in Int
  BY ScalarInt DEF Held
<1>2. \A j \in S : VerifyShare(X.com, j, X.sh[j])
  BY <1>1, ShareFits DEF Held
<1> QED
  BY <1>2 DEF Held, BadShares

LEMMA NoneBadHeld ==
  ASSUME NEW n \in Nat, NEW S \in SUBSET Scalar, NEW X, {"sh", "com"} \subseteq DOMAIN X,
         X.sh \in [S -> Scalar], X.com \in Com(n), BadShares(X) = {}
  PROVE  Held(X, S, n)
<1>1. \A j \in S : j \in Int /\ X.sh[j] \in Int
  BY ScalarInt
<1>2. \A j \in S : VerifyShare(X.com, j, X.sh[j])
  BY DEF BadShares
<1> QED
  BY <1>1, <1>2, ShareFits DEF Held

(* interpolate_at (shamir.rs): shares that fit a commitment of degree      *)
(* below n, n of them or more and at whatever places, give the value that  *)
(* was committed to at every place x.                                      *)
THEOREM InterpolateSound ==
  ASSUME NEW n \in Nat, NEW A \in Com(n), NEW S \in SUBSET Scalar, Cardinality(S) >= n,
         NEW f, DOMAIN f = S, \A j \in S : f[j] \in Int /\ EvalCom(A, j) \cong Gen * f[j],
         NEW x \in Int
  PROVE  Interpolate(x, f) \in Scalar /\ EvalCom(A, x) \cong Gen * Interpolate(x, f)
<1> DEFINE h == [y \in Int |-> EvalCom(A, y)]
           I == Interp(x, f, S)
           H == Interp(x, h, S)
<1>1. A \in [1..n -> Int] /\ Gen \in Int
  BY ComTyped, ScalarInt
<1>2. h \in [Int -> Int] /\ \A y \in Int : h[y] = EvalCom(A, y)
  BY <1>1, EvalInt
<1>3. h \in Interpolated(n)
  BY <1>1, PolynomialInterpolated
<1> HIDE DEF h
<1>4. H \cong h[x]
  BY <1>3 DEF Interpolated
<1>5. Interpolate(x, f) = I /\ I \in Scalar /\ I \in Int
  BY InterpolateIs, InterpInt
<1>6. H \cong Gen * I
  <2>1. ASSUME NEW j \in S PROVE f[j] \in Int /\ h[j] \in Int /\ h[j] \cong Gen * f[j] + 0 * f[j]
    <3>1. j \in Int /\ f[j] \in Int /\ h[j] \cong Gen * f[j] /\ h[j] \in Int
      BY <1>2, ScalarInt
    <3>2. Gen * f[j] + 0 * f[j] = Gen * f[j]
      BY <1>1, <3>1
    <3> QED
      BY <3>1, <3>2
  <2>2. H \cong Gen * I + 0 * I
    <3>1. 0 \in Int
      OBVIOUS
    <3> QED
      BY <1>1, <2>1, <3>1, InterpLinear, Zenon
  <2>3. Gen * I + 0 * I = Gen * I
    BY <1>1, <1>5
  <2> QED
    BY <2>2, <2>3
<1> QED
  BY <1>2, <1>4, <1>5, <1>6, CongTrans

(* The first t of enough parties are t, or more.                           *)
LEMMA LowestEnough ==
  ASSUME NEW S \in SUBSET Scalar, NEW t \in Nat, Cardinality(S) >= t
  PROVE  Lowest(t, S) \in SUBSET S /\ Cardinality(Lowest(t, S)) >= t
<1> DEFINE L == Lowest(t, S)
           Below(i) == {j \in S : j < i}
<1>1. L \in SUBSET S /\ \A i \in S : i \in L <=> Cardinality(Below(i)) < t
  BY DEF Lowest
<1> HIDE DEF L
<1>2. CASE L = S
  BY <1>1, <1>2 DEF L
<1>3. CASE L # S
  <2>1. S \ L \in SUBSET Nat /\ S \ L # {} /\ S \in SUBSET Nat
    BY <1>1, <1>3, ScalarInt
  <2>2. PICK i \in S \ L : \A j \in S \ L : i <= j
    BY <2>1, LeastOfNat
  <2>3. Below(i) \subseteq L
    BY <2>1, <2>2
  <2>4. Below(i) \in SUBSET Scalar /\ L \in SUBSET Scalar
    BY <1>1
  <2> HIDE DEF Below
  <2>5. IsFiniteSet(L) /\ Cardinality(Below(i)) \in Nat /\ Cardinality(L) \in Nat
    BY <2>4, ScalarsFinite
  <2>6. Cardinality(Below(i)) <= Cardinality(L)
    BY <2>3, <2>5, FS_Subset
  <2>7. ~(Cardinality(Below(i)) < t)
    BY <1>1, <2>2
  <2> QED
    BY <1>1, <2>5, <2>6, <2>7 DEF L
<1> QED
  BY <1>2, <1>3

LEMMA FromFirstSound ==
  ASSUME NEW n \in Nat, NEW X, X.com \in Com(n), NEW t \in Nat, n <= t,
         NEW S \in SUBSET Scalar, Cardinality(S) >= t, NEW x \in Int,
         \A j \in S : X.sh[j] \in Scalar /\ EvalCom(X.com, j) \cong Gen * X.sh[j]
  PROVE  /\ FromFirst(x, t, X, S) \in Scalar
         /\ EvalCom(X.com, x) \cong Gen * FromFirst(x, t, X, S)
<1> DEFINE L == Lowest(t, S)
           f == Restrict(X.sh, L)
<1>1. L \in SUBSET S /\ Cardinality(L) >= t
  BY LowestEnough
<1>2. L \in SUBSET Scalar /\ Cardinality(L) >= n
  BY <1>1, ScalarsFinite
<1>3. DOMAIN f = L /\ \A j \in L : f[j] = X.sh[j]
  BY DEF Restrict
<1>4. FromFirst(x, t, X, S) = Interpolate(x, f)
  BY DEF FromFirst
<1> HIDE DEF f, L
<1>5. \A j \in L : f[j] \in Int /\ EvalCom(X.com, j) \cong Gen * f[j]
  BY <1>1, <1>3, ScalarInt
<1> QED
  BY <1>2, <1>3, <1>4, <1>5, InterpolateSound

(* What may be opened: shares of any kind under a commitment.              *)
Openable(X, n) ==
  /\ X.com \in Com(n)
  /\ DOMAIN X.sh \in SUBSET Scalar /\ X.sh \in [DOMAIN X.sh -> Scalar]

LEMMA GoodFit ==
  ASSUME NEW n \in Nat, NEW X, Openable(X, n)
  PROVE  \A j \in DOMAIN X.sh \ BadShares(X) : X.sh[j] \in Scalar /\ EvalCom(X.com, j) \cong Gen * X.sh[j]
<1> SUFFICES ASSUME NEW j \in DOMAIN X.sh \ BadShares(X)
             PROVE  X.sh[j] \in Scalar /\ EvalCom(X.com, j) \cong Gen * X.sh[j]
  OBVIOUS
<1>1. j \in Int /\ X.sh[j] \in Scalar /\ X.sh[j] \in Int /\ VerifyShare(X.com, j, X.sh[j]) /\ X.com \in Com(n)
  BY ScalarInt DEF BadShares, Openable
<1> QED
  BY <1>1, ShareFits

(* open_at (open.rs): what an opening returns is the value that was        *)
(* committed to, whatever shares were sent; it fails only by blaming       *)
(* exactly the parties whose shares do not fit, or for want of shares.     *)
THEOREM OpenSound ==
  ASSUME NEW n \in Nat, NEW X, Openable(X, n), NEW t \in Nat, n <= t, NEW x \in Int,
         NEW out, out = OpenAt(x, t, X)
  PROVE  /\ out.ok => out.val \in Scalar /\ EvalCom(X.com, x) \cong Gen * out.val
         /\ ~out.ok => \/ BadShares(X) # {} /\ out = Abort(BadShares(X))
                       \/ Cardinality(DOMAIN X.sh) < t /\ out = Fail("few")
         /\ BadShares(X) # {} => ~out.ok
<1> DEFINE S == DOMAIN X.sh
           v == FromFirst(x, t, X, S)
<1>1. S \in SUBSET Scalar /\ X.com \in Com(n)
  BY DEF Openable
<1>2. Cardinality(S) \in Nat
  BY <1>1, ScalarsFinite
<1>3. CASE BadShares(X) # {}
  <2>1. out = Abort(BadShares(X))
    BY <1>3 DEF OpenAt
  <2> QED
    BY <1>3, <2>1 DEF Abort
<1>4. CASE BadShares(X) = {} /\ Cardinality(S) < t
  <2>1. out = Fail("few")
    BY <1>4 DEF OpenAt
  <2> QED
    BY <1>4, <2>1 DEF Fail
<1>5. CASE BadShares(X) = {} /\ ~(Cardinality(S) < t)
  <2>1. out = Ok(v)
    BY <1>5 DEF OpenAt
  <2>2. \A j \in S : X.sh[j] \in Scalar /\ EvalCom(X.com, j) \cong Gen * X.sh[j]
    BY <1>5, GoodFit
  <2>3. Cardinality(S) >= t
    BY <1>2, <1>5
  <2> HIDE DEF S
  <2>4. v \in Scalar /\ EvalCom(X.com, x) \cong Gen * v
    BY <1>1, <2>2, <2>3, FromFirstSound
  <2> QED
    BY <1>5, <2>1, <2>4 DEF Ok
<1> QED
  BY <1>3, <1>4, <1>5

(* open_robust (open.rs): the shares that fit are enough to open the       *)
(* committed value, the others are listed and nobody else; it fails only   *)
(* when fewer than t fit.                                                  *)
THEOREM OpenRobustSound ==
  ASSUME NEW n \in Nat, NEW X, Openable(X, n), NEW t \in Nat, n <= t,
         NEW out, out = OpenRobust(t, X)
  PROVE  /\ out.ok => /\ out.val.v \in Scalar /\ EvalCom(X.com, 0) \cong Gen * out.val.v
                      /\ out.val.bad = BadShares(X)
         /\ ~out.ok => out = Fail("few") /\ Cardinality(DOMAIN X.sh \ BadShares(X)) < t
<1> DEFINE S == DOMAIN X.sh \ BadShares(X)
           v == FromFirst(0, t, X, S)
           o == [v |-> v, bad |-> DOMAIN X.sh \ S]
<1>1. S \in SUBSET Scalar /\ X.com \in Com(n) /\ DOMAIN X.sh \ S = BadShares(X)
  BY DEF Openable, BadShares
<1>2. Cardinality(S) \in Nat
  BY <1>1, ScalarsFinite
<1>3. CASE Cardinality(S) < t
  <2>1. out = Fail("few")
    BY <1>3 DEF OpenRobust
  <2> QED
    BY <1>3, <2>1 DEF Fail
<1>4. CASE ~(Cardinality(S) < t)
  <2>1. out = Ok(o)
    BY <1>4 DEF OpenRobust
  <2>2. \A j \in S : X.sh[j] \in Scalar /\ EvalCom(X.com, j) \cong Gen * X.sh[j]
    BY GoodFit
  <2>3. Cardinality(S) >= t
    BY <1>2, <1>4
  <2> HIDE DEF S
  <2>4. v \in Scalar /\ EvalCom(X.com, 0) \cong Gen * v
    BY <1>1, <2>2, <2>3, FromFirstSound, ScalarInt
  <2>5. out.ok /\ out.val = o
    BY <2>1 DEF Ok
  <2>6. o.v = v /\ o.bad = BadShares(X)
    BY <1>1
  <2> QED
    BY <2>4, <2>5, <2>6
<1> QED
  BY <1>3, <1>4

LEMMA HeldOpenable ==
  ASSUME NEW n \in Nat, NEW S \in SUBSET Scalar, NEW X, Held(X, S, n)
  PROVE  Openable(X, n) /\ BadShares(X) = {} /\ DOMAIN X.sh = S
BY HeldNoneBad DEF Held, Openable

-----------------------------------------------------------------------------
(* What is computed on shares is computed on the commitment                *)

LEMMA PlusHeld ==
  ASSUME NEW n \in Nat, NEW S \in SUBSET Scalar, NEW R \in SUBSET Scalar, S \subseteq R,
         NEW X, NEW Y, Held(X, S, n), Held(Y, R, n)
  PROVE  /\ Held(Plus(X, Y), S, n)
         /\ \A x \in Int : EvalCom(Plus(X, Y).com, x) \cong EvalCom(X.com, x) + EvalCom(Y.com, x)
<1> DEFINE Z == Plus(X, Y)
<1>1. X.com \in Com(n) /\ Y.com \in Com(n) /\ DOMAIN X.sh = S
  BY DEF Held
<1>2. Z.sh = [j \in S |-> (X.sh[j] + Y.sh[j]) % Q] /\ Z.com = AddCom(X.com, Y.com) /\ DOMAIN Z = {"sh", "com"}
  BY <1>1, TabulateIs DEF Plus
<1>3. Z.com \in Com(n) /\ \A x \in Int : EvalCom(Z.com, x) \cong EvalCom(X.com, x) + EvalCom(Y.com, x)
  BY <1>1, <1>2, AddComSound
<1> HIDE DEF Z
<1>4. ASSUME NEW j \in S PROVE Z.sh[j] \in Scalar /\ EvalCom(Z.com, j) \cong Gen * Z.sh[j]
  <2> DEFINE a == X.sh[j]
             b == Y.sh[j]
             c == Z.sh[j]
             A == EvalCom(X.com, j)
             B == EvalCom(Y.com, j)
             C == EvalCom(Z.com, j)
  <2>1. j \in Int /\ Gen \in Int /\ a \in Int /\ b \in Int /\ A \cong Gen * a /\ B \cong Gen * b
    BY ScalarInt DEF Held
  <2>2. c = (a + b) % Q
    BY <1>2
  <2>3. A \in Int /\ B \in Int /\ C \in Int
    BY <1>1, <1>3, <2>1, ComTyped
  <2>4. C \cong A + B
    BY <1>3, <2>1
  <2> HIDE DEF a, b, c, A, B, C
  <2>5. c \in Scalar /\ c \in Int /\ c \cong a + b
    <3>1. a + b \in Int
      BY <2>1
    <3> QED
      BY <2>2, <3>1, Reduce, ScalarInt
  <2>6. C \cong Gen * c
    <3>0. Q \in Int /\ Gen * a \in Int /\ Gen * b \in Int /\ A + B \in Int /\ a + b \in Int /\ Gen * c \in Int
      BY FieldAssumption, <2>1, <2>3, <2>4, <2>5
    <3>1. PICK k1 \in Int : A = (Gen * a) + Q * k1
      BY <3>0, CongWitness, <2>1, <2>3, <2>4, <2>5
    <3>2. PICK k2 \in Int : B = (Gen * b) + Q * k2
      BY <3>0, CongWitness, <2>1, <2>3, <2>4, <2>5
    <3>3. PICK k3 \in Int : C = (A + B) + Q * k3
      BY <3>0, CongWitness, <2>1, <2>3, <2>4, <2>5
    <3>4. PICK k4 \in Int : c = (a + b) + Q * k4
      BY <3>0, CongWitness, <2>1, <2>3, <2>4, <2>5
    <3>5. k1 + k2 + k3 + (-Gen) * k4 \in Int
      BY <3>0, <3>1, <3>2, <3>3, <3>4, <2>1, <2>3, <2>4, <2>5
    <3>6. C = (Gen * c) + Q * (k1 + k2 + k3 + (-Gen) * k4)
      BY <3>0, <3>1, <3>2, <3>3, <3>4, <2>1, <2>3, <2>4, <2>5
    <3> QED
      BY <3>0, <3>5, <3>6, CongWitness, <2>1, <2>3, <2>4, <2>5
  <2> QED
    BY <2>5, <2>6 DEF c, C
<1> QED
  BY <1>2, <1>3, <1>4 DEF Held, Z

LEMMA TimesHeld ==
  ASSUME NEW n \in Nat, NEW S \in SUBSET Scalar, NEW X, Held(X, S, n), NEW k \in Int
  PROVE  /\ Held(Times(X, k), S, n)
         /\ \A x \in Int : EvalCom(Times(X, k).com, x) \cong k * EvalCom(X.com, x)
<1> DEFINE Z == Times(X, k)
<1>1. X.com \in Com(n) /\ DOMAIN X.sh = S
  BY DEF Held
<1>2. Z.sh = [j \in S |-> (X.sh[j] * k) % Q] /\ Z.com = ScaleCom(X.com, k) /\ DOMAIN Z = {"sh", "com"}
  BY <1>1, TabulateIs DEF Times
<1>3. Z.com \in Com(n) /\ \A x \in Int : EvalCom(Z.com, x) \cong k * EvalCom(X.com, x)
  BY <1>1, <1>2, ScaleComSound
<1> HIDE DEF Z
<1>4. ASSUME NEW j \in S PROVE Z.sh[j] \in Scalar /\ EvalCom(Z.com, j) \cong Gen * Z.sh[j]
  <2> DEFINE a == X.sh[j]
             c == Z.sh[j]
             A == EvalCom(X.com, j)
             C == EvalCom(Z.com, j)
  <2>1. j \in Int /\ Gen \in Int /\ a \in Int /\ A \cong Gen * a
    BY ScalarInt DEF Held
  <2>2. c = (a * k) % Q
    BY <1>2
  <2>3. A \in Int /\ C \in Int
    BY <1>1, <1>3, <2>1, ComTyped
  <2>4. C \cong k * A
    BY <1>3, <2>1
  <2> HIDE DEF a, c, A, C
  <2>5. c \in Scalar /\ c \in Int /\ c \cong a * k
    <3>1. a * k \in Int
      BY <2>1
    <3> QED
      BY <2>2, <3>1, Reduce, ScalarInt
  <2>6. C \cong Gen * c
    <3>0. Q \in Int /\ Gen * a \in Int /\ k * A \in Int /\ a * k \in Int /\ Gen * c \in Int
      BY FieldAssumption, <2>1, <2>3, <2>4, <2>5
    <3>1. PICK i1 \in Int : A = (Gen * a) + Q * i1
      BY <3>0, CongWitness, <2>1, <2>3, <2>4, <2>5
    <3>2. PICK i2 \in Int : C = (k * A) + Q * i2
      BY <3>0, CongWitness, <2>1, <2>3, <2>4, <2>5
    <3>3. PICK i3 \in Int : c = (a * k) + Q * i3
      BY <3>0, CongWitness, <2>1, <2>3, <2>4, <2>5
    <3>4. (k) * i1 + i2 + (-Gen) * i3 \in Int
      BY <3>0, <3>1, <3>2, <3>3, <2>1, <2>3, <2>4, <2>5
    <3>5. C = (Gen * c) + Q * ((k) * i1 + i2 + (-Gen) * i3)
      BY <3>0, <3>1, <3>2, <3>3, <2>1, <2>3, <2>4, <2>5
    <3> QED
      BY <3>0, <3>4, <3>5, CongWitness, <2>1, <2>3, <2>4, <2>5
  <2> QED
    BY <2>5, <2>6 DEF c, C
<1> QED
  BY <1>2, <1>3, <1>4 DEF Held, Z

LEMMA ShiftHeld ==
  ASSUME NEW n \in Nat, n > 0, NEW S \in SUBSET Scalar, NEW X, Held(X, S, n), NEW k \in Int
  PROVE  /\ Held(Shift(X, k), S, n)
         /\ \A x \in Int : EvalCom(Shift(X, k).com, x) \cong EvalCom(X.com, x) + Gen * k
<1> DEFINE Z == Shift(X, k)
<1>1. X.com \in Com(n) /\ DOMAIN X.sh = S
  BY DEF Held
<1>2. Z.sh = [j \in S |-> (X.sh[j] + k) % Q] /\ Z.com = AddConst(X.com, k) /\ DOMAIN Z = {"sh", "com"}
  BY <1>1, TabulateIs DEF Shift
<1>3. Z.com \in Com(n) /\ \A x \in Int : EvalCom(Z.com, x) \cong EvalCom(X.com, x) + Gen * k
  BY <1>1, <1>2, AddConstSound
<1> HIDE DEF Z
<1>4. ASSUME NEW j \in S PROVE Z.sh[j] \in Scalar /\ EvalCom(Z.com, j) \cong Gen * Z.sh[j]
  <2> DEFINE a == X.sh[j]
             c == Z.sh[j]
             A == EvalCom(X.com, j)
             C == EvalCom(Z.com, j)
  <2>1. j \in Int /\ Gen \in Int /\ a \in Int /\ A \cong Gen * a
    BY ScalarInt DEF Held
  <2>2. c = (a + k) % Q
    BY <1>2
  <2>3. A \in Int /\ C \in Int
    BY <1>1, <1>3, <2>1, ComTyped
  <2>4. C \cong A + Gen * k
    BY <1>3, <2>1
  <2> HIDE DEF a, c, A, C
  <2>5. c \in Scalar /\ c \in Int /\ c \cong a + k
    <3>1. a + k \in Int
      BY <2>1
    <3> QED
      BY <2>2, <3>1, Reduce, ScalarInt
  <2>6. C \cong Gen * c
    <3>0. Q \in Int /\ Gen * a \in Int /\ A + Gen * k \in Int /\ a + k \in Int /\ Gen * c \in Int
      BY FieldAssumption, <2>1, <2>3, <2>4, <2>5
    <3>1. PICK i1 \in Int : A = (Gen * a) + Q * i1
      BY <3>0, CongWitness, <2>1, <2>3, <2>4, <2>5
    <3>2. PICK i2 \in Int : C = (A + Gen * k) + Q * i2
      BY <3>0, CongWitness, <2>1, <2>3, <2>4, <2>5
    <3>3. PICK i3 \in Int : c = (a + k) + Q * i3
      BY <3>0, CongWitness, <2>1, <2>3, <2>4, <2>5
    <3>4. i1 + i2 + (-Gen) * i3 \in Int
      BY <3>0, <3>1, <3>2, <3>3, <2>1, <2>3, <2>4, <2>5
    <3>5. C = (Gen * c) + Q * (i1 + i2 + (-Gen) * i3)
      BY <3>0, <3>1, <3>2, <3>3, <2>1, <2>3, <2>4, <2>5
    <3> QED
      BY <3>0, <3>4, <3>5, CongWitness, <2>1, <2>3, <2>4, <2>5
  <2> QED
    BY <2>5, <2>6 DEF c, C
<1> QED
  BY <1>2, <1>3, <1>4 DEF Held, Z

LEMMA MinusHeld ==
  ASSUME NEW n \in Nat, NEW S \in SUBSET Scalar, NEW R \in SUBSET Scalar, S \subseteq R,
         NEW X, NEW Y, Held(X, S, n), Held(Y, R, n)
  PROVE  /\ Held(Minus(X, Y), S, n)
         /\ \A x \in Int : EvalCom(Minus(X, Y).com, x) \cong EvalCom(X.com, x) - EvalCom(Y.com, x)
<1> DEFINE W == Times(Y, Q - 1)
           Z == Plus(X, W)
<1>0. Q - 1 \in Int /\ Q \in Int
  BY ScalarInt
<1>1. Held(W, R, n) /\ \A x \in Int : EvalCom(W.com, x) \cong (Q - 1) * EvalCom(Y.com, x)
  BY <1>0, TimesHeld
<1> HIDE DEF W
<1>2. Held(Z, S, n) /\ \A x \in Int : EvalCom(Z.com, x) \cong EvalCom(X.com, x) + EvalCom(W.com, x)
  BY <1>1, PlusHeld
<1> HIDE DEF Z
<1>3. ASSUME NEW x \in Int PROVE EvalCom(Z.com, x) \cong EvalCom(X.com, x) - EvalCom(Y.com, x)
  <2> DEFINE A == EvalCom(X.com, x)
             B == EvalCom(Y.com, x)
             C == EvalCom(W.com, x)
             D == EvalCom(Z.com, x)
  <2>1. A \in Int /\ B \in Int /\ C \in Int /\ D \in Int
    BY <1>1, <1>2, ComTyped DEF Held
  <2>2. C \cong (Q - 1) * B /\ D \cong A + C
    BY <1>1, <1>2
  <2> HIDE DEF A, B, C, D
  <2>3. D \cong A - B
    <3>1. A + C \in Int /\ (Q - 1) * B \in Int /\ A - B \in Int
      BY <1>0, <2>1
    <3>2. PICK i \in Int : C = (Q - 1) * B + Q * i
      BY <2>1, <2>2, <3>1, CongWitness
    <3>3. PICK j \in Int : D = (A + C) + Q * j
      BY <2>1, <2>2, <3>1, CongWitness
    <3>4. D = (A - B) + Q * (B + i + j) /\ B + i + j \in Int
      BY <1>0, <2>1, <3>2, <3>3
    <3> QED
      BY <2>1, <3>1, <3>4, CongWitness
  <2> QED
    BY <2>3 DEF A, B, D
<1>4. Z = Minus(X, Y)
  BY DEF Z, W, Minus
<1> QED
  BY <1>2, <1>3, <1>4

LEMMA AmongHeld ==
  ASSUME NEW n \in Nat, NEW S \in SUBSET Scalar, NEW R \in SUBSET S, NEW X, Held(X, S, n)
  PROVE  Held(Among(R, X), R, n) /\ Among(R, X).com = X.com
<1> DEFINE Z == Among(R, X)
           f == Restrict(X.sh, R)
<1>1. f = [j \in R |-> X.sh[j]]
  BY DEF Restrict
<1>2. f \in [R -> Scalar] /\ \A j \in R : f[j] = X.sh[j]
  BY <1>1 DEF Held
<1> HIDE DEF f
<1>3. Z = [X EXCEPT !.sh = f]
  BY DEF Among, f
<1>4. Z.sh = f /\ Z.com = X.com /\ DOMAIN Z = DOMAIN X
  BY <1>3 DEF Held
<1> QED
  BY <1>2, <1>4 DEF Held

-----------------------------------------------------------------------------
(* Products of polynomials *)

(* A polynomial moved up by one place is multiplied by x.                  *)
LEMMA EvalShift ==
  ASSUME NEW n \in Nat, NEW p \in [1..(n + 1) -> Int], NEW q \in [1..(n + 1) -> Int], NEW x \in Int,
         p[n + 1] = 0, q[1] = 0, \A l \in 1..n : q[l + 1] = p[l]
  PROVE  EvalCom(q, x) \cong EvalCom(p, x) * x
<1>0. n + 1 \in Nat /\ 1 \in 1..(n + 1) /\ n + 1 \in 1..(n + 1)
  OBVIOUS
<1>1. PICK P : Tails(P, p, n + 1, x) /\ P[1] = EvalCom(p, x)
  BY <1>0, HornerTails
<1>2. PICK V : Tails(V, q, n + 1, x) /\ V[1] = EvalCom(q, x)
  BY <1>0, HornerTails
<1>3. \A k \in 1..((n + 1) + 1) : P[k] \in Int /\ V[k] \in Int
  BY <1>1, <1>2, ScalarInt DEF Tails
<1>4. \A k \in 1..(n + 1) : k \in 1..((n + 1) + 1) /\ k + 1 \in 1..((n + 1) + 1)
  OBVIOUS
<1> DEFINE G == {k \in 1..(n + 1) : V[k + 1] \cong P[k]}
<1>5. n + 1 \in G
  <2>1. V[(n + 1) + 1] = 0 /\ P[(n + 1) + 1] = 0 /\ P[n + 1] \cong P[(n + 1) + 1] * x + p[n + 1]
    BY <1>0, <1>1, <1>2 DEF Tails
  <2>2. 0 * x + 0 = 0
    OBVIOUS
  <2>3. P[n + 1] \cong 0
    BY <2>1, <2>2
  <2> QED
    BY <1>0, <2>1, <2>3, CongTrans
<1>6. ASSUME NEW k \in 1..n, k + 1 \in G PROVE k \in G
  <2>1. k \in 1..(n + 1) /\ k + 1 \in 1..(n + 1)
    OBVIOUS
  <2>2. V[k + 1] \cong V[(k + 1) + 1] * x + q[k + 1] /\ P[k] \cong P[k + 1] * x + p[k]
    BY <1>1, <1>2, <2>1 DEF Tails
  <2>3. q[k + 1] = p[k] /\ p[k] \in Int
    BY <2>1
  <2>4. V[(k + 1) + 1] \cong P[k + 1]
    BY <1>6
  <2>5. V[(k + 1) + 1] \in Int /\ P[k + 1] \in Int
    BY <1>3, <1>4, <2>1
  <2>6. V[(k + 1) + 1] * x \cong P[k + 1] * x
    BY <2>4, <2>5, CongWith
  <2>7. V[(k + 1) + 1] * x + p[k] \cong P[k + 1] * x + p[k]
    <3>1. V[(k + 1) + 1] * x \in Int /\ P[k + 1] * x \in Int
      BY <2>5
    <3> QED
      BY <2>3, <2>6, <3>1, CongWith, Zenon
  <2>8. V[k + 1] \cong P[k]
    BY <2>2, <2>3, <2>7, CongTrans
  <2> QED
    BY <2>1, <2>8
<1>7. G \in SUBSET (1..(n + 1))
  OBVIOUS
<1> HIDE DEF G
<1>8. 1 \in G
  BY <1>5, <1>6, <1>7, Downward
<1>9. V[1 + 1] \cong P[1]
  BY <1>8 DEF G
<1>10. V[1] \cong V[1 + 1] * x + q[1]
  BY <1>0, <1>2 DEF Tails
<1>11. V[1 + 1] \in Int /\ P[1] \in Int
  BY <1>0, <1>3, <1>4
<1>12. V[1 + 1] * x \cong P[1] * x
  BY <1>9, <1>11, CongWith
<1>13. V[1 + 1] * x + q[1] = V[1 + 1] * x
  BY <1>11
<1> QED
  BY <1>1, <1>2, <1>10, <1>12, <1>13, CongTrans

(* Coefficients of zero at the end add nothing.                            *)
LEMMA EvalPad ==
  ASSUME NEW n \in Nat, NEW m \in Nat, n <= m, NEW p \in [1..n -> Int], NEW q \in [1..m -> Int], NEW x \in Int,
         \A l \in 1..m : q[l] = IF l \in 1..n THEN p[l] ELSE 0
  PROVE  EvalCom(q, x) \cong EvalCom(p, x)
<1>1. PICK P : Tails(P, p, n, x) /\ P[1] = EvalCom(p, x)
  BY HornerTails
<1>2. PICK V : Tails(V, q, m, x) /\ V[1] = EvalCom(q, x)
  BY HornerTails
<1>3. /\ \A k \in 1..(n + 1) : P[k] \in Int
      /\ \A k \in 1..(m + 1) : V[k] \in Int
  BY <1>1, <1>2, ScalarInt DEF Tails
<1> DEFINE W(k) == IF k \in 1..n THEN P[k] ELSE 0
           G == {k \in 1..(m + 1) : V[k] \cong W(k)}
<1>4. \A k \in 1..(m + 1) : W(k) \in Int
  <2> SUFFICES ASSUME NEW k \in 1..(m + 1) PROVE W(k) \in Int
    OBVIOUS
  <2>1. CASE k \in 1..n
    <3>1. k \in 1..(n + 1)
      BY <2>1
    <3> QED
      BY <1>3, <2>1, <3>1
  <2> QED
    BY <2>1
<1>5. m + 1 \in G
  <2>1. V[m + 1] = 0 /\ m + 1 \in 1..(m + 1) /\ m + 1 \notin 1..n
    BY <1>2 DEF Tails
  <2> QED
    BY <2>1 DEF \cong
<1>6. \A k \in 1..m : W(k) \cong W(k + 1) * x + q[k]
  <2> SUFFICES ASSUME NEW k \in 1..m PROVE W(k) \cong W(k + 1) * x + q[k]
    OBVIOUS
  <2>1. CASE k \in 1..n
    <3>1. P[k] \cong P[k + 1] * x + p[k] /\ P[n + 1] = 0 /\ q[k] = p[k]
      BY <1>1, <2>1 DEF Tails
    <3>2. W(k) = P[k]
      BY <2>1
    <3>3. W(k + 1) = P[k + 1]
      <4>1. CASE k = n
        BY <3>1, <4>1
      <4>2. CASE k # n
        <5>1. k + 1 \in 1..n
          BY <2>1, <4>2
        <5> QED
          BY <5>1
      <4> QED
        BY <4>1, <4>2
    <3> QED
      BY <3>1, <3>2, <3>3
  <2>2. CASE k \notin 1..n
    <3>1. k + 1 \notin 1..n /\ q[k] = 0
      BY <2>2
    <3>2. W(k) = 0 /\ W(k + 1) = 0 /\ 0 * x + 0 = 0
      BY <2>2, <3>1
    <3> QED
      BY <3>1, <3>2 DEF \cong
  <2> QED
    BY <2>1, <2>2
<1> HIDE DEF W
<1>7. ASSUME NEW k \in 1..m, k + 1 \in G PROVE k \in G
  <2>1. k \in 1..(m + 1) /\ k + 1 \in 1..(m + 1)
    OBVIOUS
  <2>2. V[k] \cong V[k + 1] * x + q[k]
    BY <1>2 DEF Tails
  <2>3. V[k + 1] \in Int /\ W(k + 1) \in Int /\ q[k] \in Int /\ V[k + 1] \cong W(k + 1)
    BY <1>3, <1>4, <1>7, <2>1
  <2>4. V[k + 1] * x \cong W(k + 1) * x
    BY <2>3, CongWith
  <2>5. V[k + 1] * x + q[k] \cong W(k + 1) * x + q[k]
    <3>1. V[k + 1] * x \in Int /\ W(k + 1) * x \in Int
      BY <2>3
    <3> QED
      BY <2>3, <2>4, <3>1, CongWith, Zenon
  <2>6. V[k] \cong W(k)
    BY <1>6, <2>2, <2>5, CongTrans
  <2> QED
    BY <2>1, <2>6
<1>8. G \in SUBSET (1..(m + 1))
  OBVIOUS
<1> HIDE DEF G
<1>9. 1 \in G
  BY <1>5, <1>7, <1>8, Downward
<1>10. V[1] \cong W(1)
  BY <1>9 DEF G
<1>11. W(1) = P[1]
  <2>1. CASE n = 0
    BY <1>1, <2>1 DEF Tails, W
  <2>2. CASE n # 0
    BY <2>2 DEF W
  <2> QED
    BY <2>1, <2>2
<1> QED
  BY <1>1, <1>2, <1>10, <1>11

(* One coefficient of a product, of the first k terms.                     *)
Terms(l, k, c) == {i \in 1..k : l - i + 1 \in 1..c}

(* r moved up by k - 1 places.                                             *)
Moved(r, k, c, n) == [l \in 1..n |-> IF l - k + 1 \in 1..c THEN r[l - k + 1] ELSE 0]

LEMMA EvalMoved ==
  ASSUME NEW a \in Nat, a > 0, NEW c \in Nat, NEW n \in Nat, n = a + c - 1, NEW r \in [1..c -> Int], NEW x \in Int
  PROVE  \A k \in 1..a : /\ Moved(r, k, c, n) \in [1..n -> Int]
                         /\ EvalCom(Moved(r, k, c, n), x) \cong EvalCom(Moved(<<1>>, k, 1, a), x) * EvalCom(r, x)
<1> DEFINE Z(k) == Moved(r, k, c, n)
           U(k) == Moved(<<1>>, k, 1, a)
           E == EvalCom(r, x)
<1>1. E \in Int /\ n >= c
  BY EvalInt
<1>2. \A k \in 1..a : Z(k) \in [1..n -> Int] /\ U(k) \in [1..a -> Int]
  <2>1. ASSUME NEW k \in 1..a PROVE Z(k) \in [1..n -> Int]
    <3>1. \A l \in 1..n : (IF l - k + 1 \in 1..c THEN r[l - k + 1] ELSE 0) \in Int
      OBVIOUS
    <3> QED
      BY <3>1 DEF Moved
  <2>2. ASSUME NEW k \in 1..a PROVE U(k) \in [1..a -> Int]
    <3>1. \A l \in 1..a : (IF l - k + 1 \in 1..1 THEN <<1>>[l - k + 1] ELSE 0) \in Int
      <4> SUFFICES ASSUME NEW l \in 1..a PROVE (IF l - k + 1 \in 1..1 THEN <<1>>[l - k + 1] ELSE 0) \in Int
        OBVIOUS
      <4>1. l - k + 1 \in 1..1 => l - k + 1 = 1
        OBVIOUS
      <4> QED
        BY <4>1
    <3> QED
      BY <3>1 DEF Moved
  <2> QED
    BY <2>1, <2>2
<1> DEFINE G == {k \in Nat : k + 1 \in 1..a => EvalCom(Z(k + 1), x) \cong EvalCom(U(k + 1), x) * E}
<1>3. 0 \in G
  <2>1. 1 \in 1..a
    OBVIOUS
  <2>2. Z(1) \in [1..n -> Int] /\ U(1) \in [1..a -> Int]
    BY <1>2, <2>1
  <2>3. \A l \in 1..n : Z(1)[l] = IF l \in 1..c THEN r[l] ELSE 0
    <3>1. \A l \in 1..n : l - 1 + 1 = l
      OBVIOUS
    <3> QED
      BY <3>1 DEF Moved
  <2>4. U(1)[1] = 1 /\ \A l \in 2..a : U(1)[l] = 0
    <3>1. \A l \in 2..a : l \in 1..a /\ l - 1 + 1 \notin 1..1
      OBVIOUS
    <3>2. 1 - 1 + 1 = 1 /\ 1 \in 1..1 /\ <<1>>[1] = 1
      OBVIOUS
    <3> QED
      BY <2>1, <3>1, <3>2 DEF Moved
  <2> HIDE DEF Z, U
  <2>5. EvalCom(Z(1), x) \cong E
    BY <1>1, <2>2, <2>3, EvalPad
  <2>6. EvalCom(U(1), x) \cong 1 /\ EvalCom(U(1), x) \in Int
    BY <2>2, <2>4, EvalUnit, EvalInt
  <2>7. 1 * E = E
    BY <1>1
  <2> HIDE DEF E
  <2>8. EvalCom(Z(1), x) \cong EvalCom(U(1), x) * E
    <3>1. EvalCom(U(1), x) * E \cong 1 * E
      <4>1. 1 \in Int
        OBVIOUS
      <4> QED
        BY <1>1, <2>6, <4>1, CongWith, Zenon
    <3> QED
      BY <2>5, <2>7, <3>1, CongTrans
  <2>9. 0 + 1 = 1
    OBVIOUS
  <2> QED
    BY <2>8, <2>9
<1>4. ASSUME NEW j \in G PROVE j + 1 \in G
  <2> SUFFICES ASSUME (j + 1) + 1 \in 1..a PROVE EvalCom(Z((j + 1) + 1), x) \cong EvalCom(U((j + 1) + 1), x) * E
    OBVIOUS
  <2>1. PICK k \in Nat : k = j + 1
    OBVIOUS
  <2>2. k \in 1..a /\ k + 1 \in 1..a
    BY <2>1
  <2>3. EvalCom(Z(k), x) \cong EvalCom(U(k), x) * E
    BY <2>1, <2>2
  <2>4. Z(k) \in [1..n -> Int] /\ Z(k + 1) \in [1..n -> Int] /\ U(k) \in [1..a -> Int] /\ U(k + 1) \in [1..a -> Int]
    BY <1>2, <2>2
  <2>5. EvalCom(Z(k + 1), x) \cong EvalCom(Z(k), x) * x
    <3>1. PICK h \in Nat : n = h + 1
      <4>1. n > 0
        BY <2>2
      <4>2. n - 1 \in Nat /\ n = (n - 1) + 1
        BY <4>1
      <4> QED
        BY <4>2
    <3>2. Z(k)[h + 1] = 0
      <4>1. h + 1 \in 1..n /\ (h + 1) - k + 1 \notin 1..c
        BY <2>2, <3>1
      <4> QED
        BY <4>1 DEF Moved
    <3>3. Z(k + 1)[1] = 0
      <4>1. 1 \in 1..n /\ 1 - (k + 1) + 1 \notin 1..c
        BY <2>2, <3>1
      <4> QED
        BY <4>1 DEF Moved
    <3>4. \A l \in 1..h : Z(k + 1)[l + 1] = Z(k)[l]
      <4>1. \A l \in 1..h : l \in 1..n /\ l + 1 \in 1..n /\ (l + 1) - (k + 1) + 1 = l - k + 1
        BY <2>2, <3>1
      <4> QED
        BY <4>1 DEF Moved
    <3> HIDE DEF Z
    <3> QED
      BY <2>4, <3>1, <3>2, <3>3, <3>4, EvalShift
  <2>6. EvalCom(U(k + 1), x) \cong EvalCom(U(k), x) * x
    <3>1. PICK h \in Nat : a = h + 1
      <4>1. a - 1 \in Nat /\ a = (a - 1) + 1
        BY <2>2
      <4> QED
        BY <4>1
    <3>2. U(k)[h + 1] = 0
      <4>1. h + 1 \in 1..a /\ (h + 1) - k + 1 \notin 1..1
        BY <2>2, <3>1
      <4> QED
        BY <4>1 DEF Moved
    <3>3. U(k + 1)[1] = 0
      <4>1. 1 \in 1..a /\ 1 - (k + 1) + 1 \notin 1..1
        BY <2>2, <3>1
      <4> QED
        BY <4>1 DEF Moved
    <3>4. \A l \in 1..h : U(k + 1)[l + 1] = U(k)[l]
      <4>1. \A l \in 1..h : l \in 1..a /\ l + 1 \in 1..a /\ (l + 1) - (k + 1) + 1 = l - k + 1
        BY <2>2, <3>1
      <4> QED
        BY <4>1 DEF Moved
    <3> HIDE DEF U
    <3> QED
      BY <2>4, <3>1, <3>2, <3>3, <3>4, EvalShift
  <2>7. PICK u \in Int, v \in Int : u = EvalCom(U(k), x) /\ v = EvalCom(Z(k), x)
    BY <2>4, EvalInt
  <2>8. PICK w \in Int : w = EvalCom(U(k + 1), x)
    BY <2>4, EvalInt
  <2> HIDE DEF Z, U, E
  <2>9. v * x \cong (u * E) * x
    BY <1>1, <2>3, <2>7, IntClosed, CongWith
  <2>10. (u * E) * x = (u * x) * E
    BY <1>1
  <2>11. w * E \cong (u * x) * E
    BY <1>1, <2>6, <2>7, <2>8, IntClosed, CongWith
  <2>12. EvalCom(Z(k + 1), x) \cong w * E
    BY <2>5, <2>7, <2>9, <2>10, <2>11, CongTrans
  <2> QED
    BY <2>1, <2>8, <2>12
<1> HIDE DEF Z, U
<1>5. G \in SUBSET Nat
  OBVIOUS
<1> HIDE DEF G
<1>6. G = Nat
  BY <1>3, <1>4, <1>5, Induct
<1>7. ASSUME NEW k \in 1..a PROVE EvalCom(Z(k), x) \cong EvalCom(U(k), x) * E
  <2>1. k - 1 \in Nat /\ (k - 1) + 1 = k
    OBVIOUS
  <2> QED
    BY <1>6, <2>1 DEF G
<1> QED
  BY <1>2, <1>7 DEF Z, U

(* The product takes the product of the values.                            *)
LEMMA EvalMul ==
  ASSUME NEW a \in Nat, a > 0, NEW c \in Nat, NEW n \in Nat, n = a + c - 1,
         NEW p \in [1..a -> Int], NEW r \in [1..c -> Int], NEW x \in Int,
         NEW m \in [1..n -> Int], \A l \in 1..n : m[l] = SumOf([i \in Terms(l, a, c) |-> p[i] * r[l - i + 1]])
  PROVE  EvalCom(m, x) \cong EvalCom(p, x) * EvalCom(r, x)
<1>0. PICK f : f = [l \in 1..n |-> [i \in Terms(l, a, c) |-> p[i] * r[l - i + 1]]]
  OBVIOUS
<1> DEFINE M(k) == [l \in 1..n |-> SumOn(f[l], Terms(l, k, c))]
           P(k) == [l \in 1..a |-> IF l \in 1..k THEN p[l] ELSE 0]
           E == EvalCom(r, x)
<1>1. E \in Int
  BY EvalInt
<1>2. \A k \in Nat, l \in 1..n : k <= a => /\ IsFiniteSet(Terms(l, k, c))
                                           /\ \A i \in Terms(l, k, c) : f[l][i] = p[i] * r[l - i + 1] /\ f[l][i] \in Int
  <2> SUFFICES ASSUME NEW k \in Nat, NEW l \in 1..n, k <= a
               PROVE  /\ IsFiniteSet(Terms(l, k, c))
                      /\ \A i \in Terms(l, k, c) : f[l][i] = p[i] * r[l - i + 1] /\ f[l][i] \in Int
    OBVIOUS
  <2>1. Terms(l, k, c) \subseteq 1..k /\ IsFiniteSet(1..k)
    <3>1. IsFiniteSet(1..k)
      BY FS_Interval
    <3> QED
      BY <3>1 DEF Terms
  <2>2. ASSUME NEW i \in Terms(l, k, c) PROVE f[l][i] = p[i] * r[l - i + 1] /\ f[l][i] \in Int
    <3>1. i \in 1..k /\ i \in 1..a /\ l - i + 1 \in 1..c
      BY <2>2 DEF Terms
    <3>2. i \in Terms(l, a, c)
      BY <3>1 DEF Terms
    <3>3. p[i] \in Int /\ r[l - i + 1] \in Int
      BY <3>1
    <3>4. f[l] = [e \in Terms(l, a, c) |-> p[e] * r[l - e + 1]]
      BY <1>0
    <3>5. f[l][i] = p[i] * r[l - i + 1]
      BY <3>2, <3>4
    <3>6. p[i] * r[l - i + 1] \in Int
      BY <3>3, IntClosed
    <3> QED
      BY <3>5, <3>6
  <2> QED
    BY <2>1, <2>2, FS_Subset
<1>3. \A k \in Nat : k <= a => M(k) \in [1..n -> Int] /\ P(k) \in [1..a -> Int]
  <2> SUFFICES ASSUME NEW k \in Nat, k <= a PROVE M(k) \in [1..n -> Int] /\ P(k) \in [1..a -> Int]
    OBVIOUS
  <2>1. \A l \in 1..n : SumOn(f[l], Terms(l, k, c)) \in Int
    BY <1>2, SumStep, ScalarInt
  <2> QED
    BY <2>1
<1> DEFINE G == {k \in Nat : k <= a => EvalCom(M(k), x) \cong EvalCom(P(k), x) * E}
<1>4. 0 \in G
  <2>1. M(0) \in [1..n -> Int] /\ P(0) \in [1..a -> Int]
    BY <1>3
  <2>2. \A l \in 1..n : M(0)[l] = 0
    <3> SUFFICES ASSUME NEW l \in 1..n PROVE SumOn(f[l], Terms(l, 0, c)) = 0
      OBVIOUS
    <3>1. Terms(l, 0, c) = {}
      BY DEF Terms
    <3>2. IsFiniteSet({}) /\ \A i \in {} : f[l][i] \in Int
      BY FS_EmptySet
    <3>3. SumOn(f[l], {}) = 0
      BY <3>2, SumStep, Zenon
    <3> QED
      BY <3>1, <3>3
  <2>3. \A l \in 1..a : P(0)[l] = 0
    OBVIOUS
  <2> HIDE DEF M, P
  <2>4. EvalCom(M(0), x) \cong 0 * EvalCom(M(0), x) /\ EvalCom(P(0), x) \cong 0 * EvalCom(P(0), x)
    <3>1. \A l \in 1..n : M(0)[l] \cong 0 * M(0)[l]
      BY <2>1, <2>2 DEF \cong
    <3>2. \A l \in 1..a : P(0)[l] \cong 0 * P(0)[l]
      BY <2>1, <2>3 DEF \cong
    <3>3. EvalCom(M(0), x) \cong 0 * EvalCom(M(0), x)
      <4>1. 0 \in Int
        OBVIOUS
      <4> QED
        BY <2>1, <3>1, <4>1, EvalScale, Zenon
    <3>4. EvalCom(P(0), x) \cong 0 * EvalCom(P(0), x)
      <4>1. 0 \in Int
        OBVIOUS
      <4> QED
        BY <2>1, <3>2, <4>1, EvalScale, Zenon
    <3> QED
      BY <3>3, <3>4
  <2>5. EvalCom(M(0), x) \in Int /\ EvalCom(P(0), x) \in Int
    BY <2>1, EvalInt
  <2>6. EvalCom(P(0), x) * E \cong 0 * E /\ EvalCom(M(0), x) \cong 0
    <3>1. 0 * EvalCom(M(0), x) = 0 /\ 0 * EvalCom(P(0), x) = 0
      BY <2>5
    <3>2. EvalCom(P(0), x) \cong 0 /\ EvalCom(M(0), x) \cong 0
      BY <2>4, <3>1
    <3> HIDE DEF E
    <3>3. EvalCom(P(0), x) * E \cong 0 * E
      <4>1. 0 \in Int
        OBVIOUS
      <4> QED
        BY <1>1, <2>5, <3>2, <4>1, CongWith, Zenon
    <3> QED
      BY <3>2, <3>3
  <2>7. 0 * E = 0
    BY <1>1
  <2>8. EvalCom(M(0), x) \cong EvalCom(P(0), x) * E
    BY <2>6, <2>7, CongTrans
  <2> QED
    BY <2>8
<1>5. ASSUME NEW k \in G PROVE k + 1 \in G
  <2> SUFFICES ASSUME k + 1 <= a PROVE EvalCom(M(k + 1), x) \cong EvalCom(P(k + 1), x) * E
    OBVIOUS
  <2>1. k \in Nat /\ k + 1 \in Nat /\ k <= a /\ k + 1 \in 1..a /\ EvalCom(M(k), x) \cong EvalCom(P(k), x) * E
    <3>1. k \in Nat
      OBVIOUS
    <3>2. k + 1 \in Nat /\ k <= a /\ k + 1 \in 1..a
      BY <3>1
    <3> HIDE DEF M, P, E
    <3> QED
      BY <1>5, <3>1, <3>2
  <2>2. PICK Z : Z = Moved(r, k + 1, c, n)
    OBVIOUS
  <2>3. PICK U : U = Moved(<<1>>, k + 1, 1, a)
    OBVIOUS
  <2>4. Z \in [1..n -> Int] /\ EvalCom(Z, x) \cong EvalCom(U, x) * E
    BY <2>1, <2>2, <2>3, EvalMoved
  <2>5. \A l \in 1..a : U[l] = IF l = k + 1 THEN 1 ELSE 0
    <3> SUFFICES ASSUME NEW l \in 1..a PROVE U[l] = IF l = k + 1 THEN 1 ELSE 0
      OBVIOUS
    <3>1. U[l] = IF l - (k + 1) + 1 \in 1..1 THEN <<1>>[l - (k + 1) + 1] ELSE 0
      BY <2>3 DEF Moved
    <3>2. l - (k + 1) + 1 \in 1..1 <=> l = k + 1
      BY <2>1
    <3>3. l = k + 1 => l - (k + 1) + 1 = 1
      BY <2>1
    <3>4. CASE l = k + 1
      <4>1. U[l] = <<1>>[1]
        BY <3>1, <3>2, <3>3, <3>4
      <4> QED
        BY <3>4, <4>1
    <3>5. CASE l # k + 1
      BY <3>1, <3>2, <3>5
    <3> QED
      BY <3>4, <3>5
  <2>6. U \in [1..a -> Int]
    <3>1. DOMAIN U = 1..a /\ U = [l \in 1..a |-> U[l]]
      BY <2>3 DEF Moved
    <3> QED
      BY <2>5, <3>1
  <2>7. \A l \in 1..n : Z[l] = IF l - (k + 1) + 1 \in 1..c THEN r[l - (k + 1) + 1] ELSE 0
    BY <2>2 DEF Moved
  <2>8. PICK b \in Int : b = p[k + 1]
    BY <2>1
  <2>9. \A l \in 1..a : P(k + 1)[l] \cong 1 * P(k)[l] + b * U[l]
    <3> SUFFICES ASSUME NEW l \in 1..a PROVE P(k + 1)[l] \cong 1 * P(k)[l] + b * U[l]
      OBVIOUS
    <3>1. CASE l = k + 1
      <4>1. P(k + 1)[l] = b /\ P(k)[l] = 0 /\ U[l] = 1
        BY <2>1, <2>5, <2>8, <3>1
      <4>2. 1 * 0 + b * 1 = b
        OBVIOUS
      <4> QED
        BY <4>1, <4>2 DEF \cong
    <3>2. CASE l # k + 1
      <4>1. P(k + 1)[l] = P(k)[l] /\ U[l] = 0 /\ P(k)[l] \in Int
        BY <2>1, <2>5, <3>2
      <4> HIDE DEF P
      <4>2. 1 * P(k)[l] + b * 0 = P(k)[l]
        BY <4>1
      <4> QED
        BY <4>1, <4>2 DEF \cong
    <3> QED
      BY <3>1, <3>2
  <2>10. \A l \in 1..n : M(k + 1)[l] \cong 1 * M(k)[l] + b * Z[l]
    <3> SUFFICES ASSUME NEW l \in 1..n PROVE M(k + 1)[l] \cong 1 * M(k)[l] + b * Z[l]
      OBVIOUS
    <3>1. M(k)[l] \in Int /\ M(k + 1)[l] = SumOn(f[l], Terms(l, k + 1, c)) /\ M(k)[l] = SumOn(f[l], Terms(l, k, c))
      <4>1. M(k) \in [1..n -> Int]
        BY <1>3, <2>1
      <4> QED
        BY <4>1
    <3> HIDE DEF M
    <3>2. CASE l - (k + 1) + 1 \in 1..c
      <4>1. k + 1 \in Terms(l, k + 1, c) /\ Terms(l, k, c) = Terms(l, k + 1, c) \ {k + 1}
        <5>1. 1..k = (1..(k + 1)) \ {k + 1} /\ k + 1 \in 1..(k + 1)
          BY <2>1
        <5> QED
          BY <3>2, <5>1 DEF Terms
      <4>2. Z[l] = r[l - (k + 1) + 1] /\ Z[l] \in Int
        BY <2>4, <2>7, <3>2
      <4>3. f[l][k + 1] = b * Z[l]
        <5>1. k + 1 <= a
          BY <2>1
        <5>2. f[l][k + 1] = p[k + 1] * r[l - (k + 1) + 1]
          BY <1>2, <2>1, <4>1, <5>1
        <5> QED
          BY <2>8, <4>2, <5>2
      <4>4. SumOn(f[l], Terms(l, k + 1, c)) \cong f[l][k + 1] + SumOn(f[l], Terms(l, k + 1, c) \ {k + 1})
        BY <1>2, <2>1, <4>1, SumTake
      <4>5. b * Z[l] + M(k)[l] = 1 * M(k)[l] + b * Z[l]
        <5>1. b * Z[l] \in Int
          BY <4>2
        <5> QED
          BY <3>1, <5>1
      <4> QED
        BY <3>1, <4>1, <4>3, <4>4, <4>5
    <3>3. CASE l - (k + 1) + 1 \notin 1..c
      <4>1. Terms(l, k, c) = Terms(l, k + 1, c)
        BY <2>1, <3>3 DEF Terms
      <4>2. Z[l] = 0
        BY <2>7, <3>3
      <4>3. 1 * M(k)[l] + b * 0 = M(k)[l]
        BY <3>1
      <4> QED
        BY <3>1, <4>1, <4>2, <4>3 DEF \cong
    <3> QED
      BY <3>2, <3>3
  <2>11. /\ M(k) \in [1..n -> Int] /\ P(k) \in [1..a -> Int]
         /\ M(k + 1) \in [1..n -> Int] /\ P(k + 1) \in [1..a -> Int]
    BY <1>3, <2>1
  <2> HIDE DEF M, P, E
  <2>12. EvalCom(M(k + 1), x) \cong 1 * EvalCom(M(k), x) + b * EvalCom(Z, x)
    <3>1. 1 \in Int
      OBVIOUS
    <3> QED
      BY <2>4, <2>8, <2>10, <2>11, <3>1, EvalLinear, Zenon
  <2>13. EvalCom(P(k + 1), x) \cong 1 * EvalCom(P(k), x) + b * EvalCom(U, x)
    <3>1. 1 \in Int
      OBVIOUS
    <3> QED
      BY <2>6, <2>8, <2>9, <2>11, <3>1, EvalLinear, Zenon
  <2>14. PICK e1 \in Int, e2 \in Int, e3 \in Int :
           e1 = EvalCom(M(k), x) /\ e2 = EvalCom(Z, x) /\ e3 = EvalCom(M(k + 1), x)
    BY <2>4, <2>11, EvalInt
  <2>15. PICK d1 \in Int, d2 \in Int, d3 \in Int :
           d1 = EvalCom(P(k), x) /\ d2 = EvalCom(U, x) /\ d3 = EvalCom(P(k + 1), x)
    BY <2>6, <2>11, EvalInt
  <2>16. e1 \cong d1 * E /\ e2 \cong d2 * E /\ e3 \cong 1 * e1 + b * e2 /\ d3 \cong 1 * d1 + b * d2
    BY <2>1, <2>4, <2>12, <2>13, <2>14, <2>15
  <2>17. e3 \cong d3 * E
    <3>1. 1 * e1 = e1 /\ 1 * d1 = d1
      OBVIOUS
    <3>2. b * e2 \cong b * (d2 * E)
      BY <1>1, <2>16, IntClosed, CongWith
    <3>3. e1 + b * e2 \cong d1 * E + b * (d2 * E)
      BY <1>1, <2>16, <3>2, IntClosed, CongRing
    <3>4. d3 * E \cong (d1 + b * d2) * E
      BY <1>1, <2>16, <3>1, IntClosed, CongWith
    <3>5. d1 * E + b * (d2 * E) = (d1 + b * d2) * E
      BY <1>1
    <3> QED
      BY <2>16, <3>1, <3>3, <3>4, <3>5, CongTrans
  <2> QED
    BY <2>14, <2>15, <2>17
<1>6. M(a) = m
  <2>1. \A l \in 1..n : SumOn(f[l], Terms(l, a, c)) = m[l]
    <3> SUFFICES ASSUME NEW l \in 1..n PROVE SumOn(f[l], Terms(l, a, c)) = m[l]
      OBVIOUS
    <3>1. f[l] = [i \in Terms(l, a, c) |-> p[i] * r[l - i + 1]]
      BY <1>0
    <3>2. DOMAIN f[l] = Terms(l, a, c) /\ m[l] = SumOf(f[l])
      BY <3>1
    <3> QED
      BY <3>2, SumIsFold
  <2> QED
    BY <2>1
<1>7. P(a) = p
  OBVIOUS
<1>8. G \in SUBSET Nat
  OBVIOUS
<1> HIDE DEF G, M, P
<1>9. G = Nat
  BY <1>4, <1>5, <1>8, Induct
<1>10. EvalCom(M(a), x) \cong EvalCom(P(a), x) * E
  <2>1. a \in G /\ a <= a
    BY <1>9
  <2> QED
    BY <2>1 DEF G
<1> QED
  BY <1>6, <1>7, <1>10

=============================================================================
