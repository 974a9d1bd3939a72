------------------------- MODULE HashmapWalkProofs --------------------------
(***************************************************************************)
(* What the functions of HashmapWalk return, for every length of account   *)
(* ids: a label is read as it was written, and walk, on cells nobody has   *)
(* read since the reset, returns the first accounts in the order of the    *)
(* keys from a start on. tlapm gives no induction over data; in its place  *)
(* the proofs take the least element of a set of counterexamples, a fact   *)
(* that the library has without an operator parameter (WFMin).             *)
(***************************************************************************)
EXTENDS HashmapWalk, SequenceTheorems, FiniteSetTheorems, WellFoundedInduction, TLAPS
-----------------------------------------------------------------------------
(***************************************************************************)
(* Numbers: least elements, induction as a fact about sets, powers of two. *)
(***************************************************************************)
(* A set of natural numbers that is not empty has a least element. *)
LEMMA Least ==
  ASSUME NEW S \in SUBSET Nat, S # {}
  PROVE \E n \in S : \A m \in S : n <= m
<1> DEFINE R == { ss \in Nat \X Nat : ss[1] < ss[2] }
<1>1. \E n \in S : \A m \in S : <<m, n>> \notin R
  <2> HIDE DEF R
  <2>1. IsWellFoundedOn(R, Nat) BY NatLessThanWellFounded DEF R, OpToRel
  <2> QED BY <2>1, WFMin
<1>2. \A m, n \in Nat : m < n => <<m, n>> \in R
  OBVIOUS
<1>3. PICK n \in S : \A m \in S : <<m, n>> \notin R
  BY <1>1
<1>4. \A m \in S : ~(m < n)
  BY <1>2, <1>3
<1> QED BY <1>3, <1>4

(* One that holds 0 and the successor of each of its elements is Nat. *)
LEMMA Induct ==
  ASSUME NEW S \in SUBSET Nat, 0 \in S, \A n \in S : n + 1 \in S
  PROVE S = Nat
<1> DEFINE T == Nat \ S
<1> SUFFICES ASSUME T # {} PROVE FALSE OBVIOUS
<1>1. PICK n \in T : \A m \in T : n <= m
  BY Least
<1>2. n - 1 \in Nat /\ n - 1 \notin T /\ n # 0
  BY <1>1
<1> QED BY <1>2

(* One that is bounded has a greatest element. *)
LEMMA Greatest ==
  ASSUME NEW b \in Nat, NEW S \in SUBSET (0..b), S # {}
  PROVE \E n \in S : \A m \in S : m <= n
<1> DEFINE T == { n \in 0..b : b - n \in S }
<1>1. T # {} /\ T \in SUBSET Nat
  <2>1. PICK m \in S : TRUE OBVIOUS
  <2>2. b - (b - m) = m BY <2>1
  <2>3. b - m \in T BY <2>1, <2>2
  <2>4. T \in SUBSET Nat OBVIOUS
  <2> QED BY <2>3, <2>4
<1>2. PICK n \in T : \A m \in T : n <= m
  BY <1>1, Least
<1>3. b - n \in S OBVIOUS
<1>4. \A m \in S : b - m \in T OBVIOUS
<1>5. \A m \in S : m <= b - n
  BY <1>2, <1>4
<1> QED BY <1>3, <1>5

(* The powers of two, which SMT knows nothing about. *)
LEMMA PowerOfZero == 2^0 = 1
<1>1. IsFiniteSet({}) /\ Cardinality({}) = 0 BY FS_EmptySet
<1>2. Cardinality(SUBSET {}) = 2^0 BY <1>1, FS_SUBSET
<1>3. SUBSET {} = {{}} OBVIOUS
<1> QED BY <1>2, <1>3, FS_Singleton

(* A power of two is a natural number: the subsets of 1..n are that many. *)
LEMMA PowerType ==
  ASSUME NEW n \in Nat
  PROVE 2^n \in Nat
<1>1. IsFiniteSet(1..n) /\ Cardinality(1..n) = n BY FS_Interval
<1>2. IsFiniteSet(SUBSET (1..n)) /\ Cardinality(SUBSET (1..n)) = 2^n BY <1>1, FS_SUBSET
<1> QED BY <1>2, FS_CardinalityType

(* One more element doubles the number of subsets. *)
LEMMA PowerOfSuccessor ==
  ASSUME NEW n \in Nat
  PROVE 2^(n + 1) = 2 * 2^n
<1> DEFINE Old == SUBSET (1..n)
           New == { X \cup {n + 1} : X \in Old }
           f == [X \in Old |-> X \cup {n + 1}]
<1>1. IsFiniteSet(1..n) /\ Cardinality(1..n) = n BY FS_Interval
<1>2. IsFiniteSet(1..n+1) /\ Cardinality(1..n+1) = n+1 BY FS_Interval
<1>3. IsFiniteSet(Old) /\ Cardinality(Old) = 2^n BY <1>1, FS_SUBSET
<1>4. Cardinality(SUBSET (1..n+1)) = 2^(n+1) BY <1>2, FS_SUBSET
<1>5. f \in Bijection(Old, New)
  <2>1. f \in [Old -> New] OBVIOUS
  <2>2. ASSUME NEW X \in Old, NEW Y \in Old, f[X] = f[Y] PROVE X = Y
    <3>1. n + 1 \notin X /\ n + 1 \notin Y OBVIOUS
    <3>2. X = f[X] \ {n + 1} BY <3>1
    <3>3. Y = f[Y] \ {n + 1} BY <3>1
    <3> QED BY <3>2, <3>3, <2>2
  <2>3. \A Y \in New : \E X \in Old : f[X] = Y OBVIOUS
  <2> HIDE DEF f, Old, New
  <2> QED BY <2>1, <2>2, <2>3, Zenon DEF Bijection, Injection, Surjection, IsInjective
<1>6. IsFiniteSet(New) /\ Cardinality(New) = 2^n
  <2> HIDE DEF f, Old, New
  <2>1. ExistsBijection(Old, New) BY <1>5 DEF ExistsBijection
  <2> QED BY <2>1, <1>3, FS_Bijection
<1>7. Old \cap New = {}
  <2>1. \A X \in Old : n + 1 \notin X OBVIOUS
  <2>2. \A X \in New : n + 1 \in X OBVIOUS
  <2> QED BY <2>1, <2>2
<1>8. SUBSET (1..n+1) = Old \cup New
  <2>1. ASSUME NEW X \in SUBSET (1..n+1), n + 1 \notin X PROVE X \in Old
    BY <2>1
  <2>2. ASSUME NEW X \in SUBSET (1..n+1), n + 1 \in X PROVE X \in New
    <3>1. X \ {n + 1} \in Old OBVIOUS
    <3>2. X = (X \ {n + 1}) \cup {n + 1} BY <2>2
    <3> QED BY <3>1, <3>2
  <2>3. Old \subseteq SUBSET (1..n+1) OBVIOUS
  <2>4. New \subseteq SUBSET (1..n+1)
    <3> SUFFICES ASSUME NEW X \in Old PROVE X \cup {n + 1} \subseteq 1..n+1
      OBVIOUS
    <3>1. 1..n \subseteq 1..n+1 /\ n+1 \in 1..n+1 OBVIOUS
    <3> QED BY <3>1
  <2> HIDE DEF Old, New
  <2> QED BY <2>1, <2>2, <2>3, <2>4
<1>9. Cardinality(Old \cup New) = 2^n + 2^n
  <2> HIDE DEF Old, New
  <2>1. Cardinality(Old \cup New) = 2^n + 2^n - Cardinality(Old \cap New)
    BY <1>3, <1>6, FS_Union
  <2>2. Cardinality(Old \cap New) = 0 BY <1>7, FS_EmptySet
  <2>3. 2^n \in Nat BY PowerType
  <2> QED BY <2>1, <2>2, <2>3
<1>10. 2^n \in Nat BY PowerType
<1> HIDE DEF Old, New
<1>11. 2^(n + 1) = 2^n + 2^n BY <1>4, <1>8, <1>9, Zenon
<1> QED BY <1>10, <1>11

(* A number has fewer bits than its value: w bits hold every n <= w. *)
LEMMA PowerAbove ==
  ASSUME NEW n \in Nat
  PROVE n < 2^n
<1> DEFINE S == { m \in Nat : m < 2^m }
<1>1. 0 \in S BY PowerOfZero
<1>2. ASSUME NEW m \in S PROVE m + 1 \in S
  BY PowerOfSuccessor, PowerType
<1>3. S = Nat
  <2> HIDE DEF S
  <2>1. S \in SUBSET Nat BY DEF S
  <2> QED BY <1>1, <1>2, <2>1, Induct
<1> QED BY <1>3
-----------------------------------------------------------------------------
(***************************************************************************)
(* UintBits and Width.                                                     *)
(***************************************************************************)
(* The quotient is the only number whose multiple is that close below v. *)
LEMMA QuotientUnique ==
  ASSUME NEW v \in Nat, NEW b \in Nat \ {0}, NEW q \in Nat, b * q <= v, v < b * q + b
  PROVE v \div b = q
<1> DEFINE d == v \div b
<1>1. d \in Nat /\ b * d <= v /\ v < b * d + b OBVIOUS
<1> HIDE DEF d
<1>2. ASSUME d < q PROVE FALSE
  <2>1. b * (d + 1) <= b * q BY <1>1, <1>2
  <2>2. b * (d + 1) = b * d + b BY <1>1
  <2>3. b * d \in Nat /\ b * q \in Nat BY <1>1
  <2> QED BY <1>1, <2>1, <2>2, <2>3
<1>3. ASSUME q < d PROVE FALSE
  <2>1. b * (q + 1) <= b * d BY <1>1, <1>3
  <2>2. b * (q + 1) = b * q + b BY <1>1
  <2>3. b * d \in Nat /\ b * q \in Nat BY <1>1
  <2> QED BY <1>1, <2>1, <2>2, <2>3
<1>4. d = q BY <1>1, <1>2, <1>3
<1> QED BY <1>4 DEF d

(* Halving before a division is dividing by twice as much. *)
LEMMA HalfFirst ==
  ASSUME NEW v \in Nat, NEW b \in Nat \ {0}
  PROVE (v \div 2) \div b = v \div (2 * b)
<1> DEFINE h == v \div 2
           q == h \div b
<1>1. h \in Nat /\ 2 * h <= v /\ v < 2 * h + 2 OBVIOUS
<1>2. q \in Nat /\ b * q <= h /\ h < b * q + b BY <1>1
<1> HIDE DEF h, q
<1>3. b * q \in Nat /\ 2 * b \in Nat \ {0} BY <1>2
<1>4. (2 * b) * q = 2 * (b * q) BY <1>2
<1>5. (2 * b) * q <= v /\ v < (2 * b) * q + 2 * b
  BY <1>1, <1>2, <1>3, <1>4
<1>6. v \div (2 * b) = q
  <2> DEFINE c == 2 * b
  <2> HIDE DEF c
  <2>1. c \in Nat \ {0} /\ c * q <= v /\ v < c * q + c BY <1>3, <1>5 DEF c
  <2>2. v \div c = q BY <1>2, <2>1, QuotientUnique
  <2> QED BY <2>2 DEF c
<1> QED BY <1>6 DEF h, q

(* A number in w bits is a function to bits. *)
LEMMA UintBitsType ==
  ASSUME NEW v \in Nat, NEW w \in Nat
  PROVE UintBits(v, w) \in [1..w -> Bit]
<1> SUFFICES ASSUME NEW i \in 1..w PROVE (v \div 2^(w - i)) % 2 \in Bit
  BY DEF UintBits
<1>1. w - i \in Nat OBVIOUS
<1>2. 2^(w - i) \in Nat /\ w - i < 2^(w - i)
  <2> DEFINE k == w - i
  <2> HIDE DEF k
  <2>1. k \in Nat BY <1>1 DEF k
  <2>2. 2^k \in Nat /\ k < 2^k BY <2>1, PowerType, PowerAbove
  <2> QED BY <2>2 DEF k
<1>3. \A k \in Nat : k % 2 \in Bit BY DEF Bit
<1>4. \A b \in Nat \ {0} : v \div b \in Nat OBVIOUS
<1>5. 2^(w - i) \in Nat \ {0} BY <1>1, <1>2
<1> QED BY <1>3, <1>4, <1>5

(* The bits of a number are those of its half, then its lowest bit. *)
LEMMA UintBitsStep ==
  ASSUME NEW v \in Nat, NEW w \in Nat
  PROVE /\ \A i \in 1..w : UintBits(v, w + 1)[i] = UintBits(v \div 2, w)[i]
        /\ UintBits(v, w + 1)[w + 1] = v % 2
<1>1. ASSUME NEW i \in 1..w PROVE UintBits(v, w + 1)[i] = UintBits(v \div 2, w)[i]
  <2> DEFINE k == w - i
  <2>1. k \in Nat /\ (w + 1) - i = k + 1 /\ i \in 1..w+1 OBVIOUS
  <2>2. 2^k \in Nat \ {0} /\ 2^(k + 1) = 2 * 2^k
    <3> HIDE DEF k
    <3> QED BY <2>1, PowerType, PowerAbove, PowerOfSuccessor
  <2>3. (v \div 2) \div 2^k = v \div (2 * 2^k) BY <2>2, HalfFirst
  <2>4. UintBits(v, w + 1)[i] = (v \div 2^((w + 1) - i)) % 2 BY <2>1 DEF UintBits
  <2>5. UintBits(v \div 2, w)[i] = ((v \div 2) \div 2^k) % 2 BY DEF UintBits
  <2> HIDE DEF k
  <2> QED BY <2>1, <2>2, <2>3, <2>4, <2>5
<1>2. UintBits(v, w + 1)[w + 1] = v % 2
  <2>1. (w + 1) - (w + 1) = 0 /\ w + 1 \in 1..w+1 OBVIOUS
  <2>2. UintBits(v, w + 1)[w + 1] = (v \div 2^((w + 1) - (w + 1))) % 2 BY <2>1 DEF UintBits
  <2>3. v \div 1 = v OBVIOUS
  <2> QED BY <2>1, <2>2, <2>3, PowerOfZero
<1> QED BY <1>1, <1>2

(* Two numbers of w bits with the same bits are equal:  Value has one      *)
(* choice.                                                                 *)
LEMMA UintBitsInjective ==
  ASSUME NEW w \in Nat, NEW u \in 0..2^w - 1, NEW v \in 0..2^w - 1,
         \A i \in 1..w : UintBits(u, w)[i] = UintBits(v, w)[i]
  PROVE u = v
<1> DEFINE Inj(n) == \A x, y \in 0..2^n - 1 :
                       (\A i \in 1..n : UintBits(x, n)[i] = UintBits(y, n)[i]) => x = y
           S == { n \in Nat : Inj(n) }
<1>1. 0 \in S
  <2>1. 2^0 - 1 = 0 BY PowerOfZero
  <2>2. Inj(0) BY <2>1
  <2> QED BY <2>2
<1>2. ASSUME NEW n \in S PROVE n + 1 \in S
  <2>0. n \in Nat /\ Inj(n) OBVIOUS
  <2>1. ASSUME NEW x \in 0..2^(n+1) - 1, NEW y \in 0..2^(n+1) - 1,
               \A i \in 1..n+1 : UintBits(x, n + 1)[i] = UintBits(y, n + 1)[i]
        PROVE x = y
    <3>1. 2^n \in Nat /\ 2^(n+1) = 2 * 2^n BY <2>0, PowerType, PowerOfSuccessor
    <3>2. x \in Nat /\ y \in Nat BY <3>1
    <3>3. x \div 2 \in 0..2^n - 1 /\ y \div 2 \in 0..2^n - 1 BY <3>1
    <3>4. n + 1 \in 1..n+1 /\ 1..n \subseteq 1..n+1 BY <2>0
    <3>5. x % 2 = y % 2
      <4>1. UintBits(x, n + 1)[n + 1] = x % 2 BY <2>0, <3>2, UintBitsStep
      <4>2. UintBits(y, n + 1)[n + 1] = y % 2 BY <2>0, <3>2, UintBitsStep
      <4>3. UintBits(x, n + 1)[n + 1] = UintBits(y, n + 1)[n + 1] BY <2>1, <3>4
      <4> QED BY <4>1, <4>2, <4>3
    <3>6. \A i \in 1..n : UintBits(x \div 2, n)[i] = UintBits(y \div 2, n)[i]
      BY <2>0, <2>1, <3>2, <3>4, UintBitsStep
    <3>7. x \div 2 = y \div 2 BY <2>0, <3>3, <3>6
    <3> QED BY <3>2, <3>5, <3>7
  <2>2. Inj(n + 1) BY <2>1
  <2> QED BY <2>0, <2>2
<1>3. S = Nat
  <2> HIDE DEF S
  <2>1. S \in SUBSET Nat BY DEF S
  <2> QED BY <1>1, <1>2, <2>1, Induct
<1>4. Inj(w) BY <1>3
<1> QED BY <1>4

(* Any w bits are those of a number:  Value has something to choose. *)
LEMMA UintBitsOnto ==
  ASSUME NEW w \in Nat, NEW s, \A i \in 1..w : s[i] \in Bit
  PROVE \E v \in 0..2^w - 1 : \A i \in 1..w : UintBits(v, w)[i] = s[i]
<1> DEFINE Onto(n) == \E v \in 0..2^n - 1 : \A i \in 1..n : UintBits(v, n)[i] = s[i]
           S == { n \in Nat : n <= w => Onto(n) }
<1>1. 0 \in S
  <2>1. 2^0 - 1 = 0 BY PowerOfZero
  <2>2. Onto(0) BY <2>1
  <2> QED BY <2>2
<1>2. ASSUME NEW n \in S PROVE n + 1 \in S
  <2>0. n \in Nat /\ n + 1 \in Nat OBVIOUS
  <2>1. ASSUME n + 1 <= w PROVE Onto(n + 1)
    <3>1. Onto(n) BY <2>0, <2>1
    <3>2. PICK v \in 0..2^n - 1 : \A i \in 1..n : UintBits(v, n)[i] = s[i] BY <3>1
    <3>3. 2^n \in Nat /\ 2^(n+1) = 2 * 2^n BY <2>0, PowerType, PowerOfSuccessor
    <3>4. s[n + 1] \in {0, 1} BY <2>0, <2>1 DEF Bit
    <3> DEFINE x == 2 * v + s[n + 1]
    <3>5. x \in 0..2^(n+1) - 1 /\ x \in Nat /\ x \div 2 = v /\ x % 2 = s[n + 1]
      BY <3>3, <3>4
    <3> HIDE DEF x
    <3>6. \A i \in 1..n : UintBits(x, n + 1)[i] = s[i]
      BY <2>0, <3>2, <3>5, UintBitsStep
    <3>7. UintBits(x, n + 1)[n + 1] = s[n + 1] BY <2>0, <3>5, UintBitsStep
    <3>8. \A i \in 1..n+1 : i \in 1..n \/ i = n + 1 BY <2>0
    <3> QED BY <3>5, <3>6, <3>7, <3>8
  <2> QED BY <2>0, <2>1
<1>3. S = Nat
  <2> HIDE DEF S
  <2>1. S \in SUBSET Nat BY DEF S
  <2> QED BY <1>1, <1>2, <2>1, Induct
<1>4. Onto(w)
  <2>1. w \in S BY <1>3
  <2> QED BY <2>1
<1> QED BY <1>4

(* Width gives enough bits for every number up to n, which a label length  *)
(* is.                                                                     *)
LEMMA WidthBound ==
  ASSUME NEW n \in Int, n <= KeyLength
  PROVE /\ Width(n) \in Nat
        /\ n < 2^Width(n)
<1> DEFINE Fits(w) == 2^w > n /\ (w = 0 \/ 2^(w - 1) <= n)
<1>0. KeyLength \in Nat BY WalkAssumption DEF KeyLength
<1>1. \E w \in 0..KeyLength : Fits(w)
  <2>1. CASE n < 0
    <3>1. 2^0 > n BY <2>1, PowerOfZero
    <3>2. 0 \in 0..KeyLength BY <1>0
    <3> QED BY <3>1, <3>2
  <2>2. CASE n >= 0
    <3> DEFINE S == { w \in Nat : 2^w > n }
    <3>1. n \in S BY <2>2, PowerAbove, PowerType
    <3>2. PICK w \in S : \A m \in S : w <= m BY <3>1, Least
    <3>3. w \in 0..KeyLength BY <1>0, <3>1, <3>2
    <3>4. ASSUME w # 0 PROVE 2^(w - 1) <= n
      <4>1. w - 1 \in Nat /\ ~(w <= w - 1) BY <3>4
      <4>2. w - 1 \notin S BY <3>2, <4>1
      <4>3. ~(2^(w - 1) > n) BY <4>1, <4>2
      <4>4. 2^(w - 1) \in Nat
        <5> DEFINE k == w - 1
        <5> HIDE DEF k
        <5>1. k \in Nat BY <4>1 DEF k
        <5>2. 2^k \in Nat BY <5>1, PowerType
        <5> QED BY <5>2 DEF k
      <4> QED BY <4>3, <4>4
    <3>5. Fits(w) BY <3>4
    <3> QED BY <3>3, <3>5
  <2> QED BY <2>1, <2>2
<1>2. Width(n) \in 0..KeyLength /\ 2^Width(n) > n
  <2> HIDE DEF Fits
  <2>1. Width(n) = CHOOSE w \in 0..KeyLength : Fits(w) BY DEF Width, Fits
  <2>2. Width(n) \in 0..KeyLength /\ Fits(Width(n)) BY <1>1, <2>1
  <2> QED BY <2>2 DEF Fits
<1>3. 2^Width(n) \in Nat BY <1>0, <1>2, PowerType
<1> QED BY <1>0, <1>2, <1>3
-----------------------------------------------------------------------------
(***************************************************************************)
(* Labels as the writer of the file encodes them.                          *)
(***************************************************************************)
(* A function on 1..n is a sequence of length n. *)
LEMMA SeqOfFunction ==
  ASSUME NEW S, NEW n \in Nat, NEW f \in [1..n -> S]
  PROVE f \in Seq(S) /\ Len(f) = n
<1>1. f \in Seq(S) BY SeqDef
<1>2. DOMAIN f = 1..Len(f) /\ Len(f) \in Nat BY <1>1, LenProperties
<1> QED BY <1>1, <1>2

(* A prefix, element by element. *)
LEMMA PrefixPointwise ==
  ASSUME NEW S, NEW s \in Seq(S), NEW t \in Seq(S)
  PROVE IsPrefix(s, t) <=> Len(s) <= Len(t) /\ \A i \in 1..Len(s) : s[i] = t[i]
<1>1. Len(s) \in Nat /\ Len(t) \in Nat BY LenProperties
<1>2. SubSeq(s, 1, Len(s)) = s BY SubSeqFull
<1>3. ASSUME Len(s) <= Len(t)
      PROVE /\ SubSeq(t, 1, Len(s)) \in Seq(S)
            /\ Len(SubSeq(t, 1, Len(s))) = Len(s)
            /\ \A i \in 1..Len(s) : SubSeq(t, 1, Len(s))[i] = t[i]
  <2>1. \A i \in 1..Len(s) : t[i] \in S BY <1>1, <1>3, ElementOfSeq
  <2> QED BY <1>1, <2>1, SubSeqProperties
<1>4. ASSUME IsPrefix(s, t) PROVE Len(s) <= Len(t) /\ \A i \in 1..Len(s) : s[i] = t[i]
  BY <1>2, <1>3, <1>4 DEF IsPrefix
<1>5. ASSUME Len(s) <= Len(t), \A i \in 1..Len(s) : s[i] = t[i] PROVE IsPrefix(s, t)
  <2>1. s = SubSeq(t, 1, Len(s)) BY <1>3, <1>5, SeqEqual
  <2> QED BY <1>2, <1>5, <2>1 DEF IsPrefix
<1> QED BY <1>4, <1>5

(* The label of hml_same. *)
LEMMA RepeatType ==
  ASSUME NEW b \in Bit, NEW n \in Nat
  PROVE /\ Repeat(b, n) \in Seq(Bit) /\ Len(Repeat(b, n)) = n
        /\ \A i \in 1..n : Repeat(b, n)[i] = b
<1>1. Repeat(b, n) \in [1..n -> Bit] BY DEF Repeat
<1>2. \A i \in 1..n : Repeat(b, n)[i] = b BY DEF Repeat
<1> QED BY <1>1, <1>2, SeqOfFunction

(* The bits of a number as a sequence. *)
LEMMA UintBitsSeq ==
  ASSUME NEW v \in Nat, NEW w \in Nat
  PROVE UintBits(v, w) \in Seq(Bit) /\ Len(UintBits(v, w)) = w
BY UintBitsType, SeqOfFunction

(* What is read from w bits is a number below 2^w that has these bits. *)
LEMMA ValueType ==
  ASSUME NEW bits, NEW pos \in Nat, NEW w \in Nat, \A i \in pos + 1..pos + w : bits[i] \in Bit
  PROVE /\ Value(bits, pos, w) \in 0..2^w - 1
        /\ Value(bits, pos, w) \in Nat
        /\ \A i \in 1..w : UintBits(Value(bits, pos, w), w)[i] = bits[pos + i]
<1> DEFINE s == SubSeq(bits, pos + 1, pos + w)
<1>1. s \in Seq(Bit) /\ Len(s) = w /\ \A i \in 1..w : s[i] = bits[pos + i]
  <2>1. /\ s \in Seq(Bit)
        /\ Len(s) = IF pos + 1 <= pos + w THEN (pos + w) - (pos + 1) + 1 ELSE 0
        /\ \A i \in 1..(pos + w) - (pos + 1) + 1 : s[i] = bits[(pos + 1) + i - 1]
    BY SubSeqProperties
  <2>2. (pos + w) - (pos + 1) + 1 = w OBVIOUS
  <2>3. \A i \in 1..w : (pos + 1) + i - 1 = pos + i OBVIOUS
  <2> HIDE DEF s
  <2> QED BY <2>1, <2>2, <2>3
<1>2. 2^w \in Nat BY PowerType
<1>3. \E v \in 0..2^w - 1 : UintBits(v, w) = s
  <2> HIDE DEF s
  <2>1. \A i \in 1..w : s[i] \in Bit BY <1>1, ElementOfSeq
  <2>2. PICK v \in 0..2^w - 1 : \A i \in 1..w : UintBits(v, w)[i] = s[i] BY <2>1, UintBitsOnto
  <2>3. v \in Nat BY <1>2
  <2>4. UintBits(v, w) = s BY <1>1, <2>2, <2>3, UintBitsSeq, SeqEqual
  <2> QED BY <2>4
<1>4. Value(bits, pos, w) \in 0..2^w - 1 /\ UintBits(Value(bits, pos, w), w) = s
  BY <1>3 DEF Value
<1> HIDE DEF s
<1> QED BY <1>1, <1>2, <1>4

(* A number written in w bits is read back. *)
LEMMA ValueOfUint ==
  ASSUME NEW bits, NEW pos \in Nat, NEW w \in Nat, NEW u \in 0..2^w - 1,
         \A i \in 1..w : bits[pos + i] = UintBits(u, w)[i]
  PROVE /\ Value(bits, pos, w) = u
        /\ \A i \in pos + 1..pos + w : bits[i] \in Bit
<1>1. 2^w \in Nat /\ u \in Nat BY PowerType
<1>2. \A i \in pos + 1..pos + w : bits[i] \in Bit
  <2> SUFFICES ASSUME NEW i \in pos + 1..pos + w PROVE bits[i] \in Bit OBVIOUS
  <2>1. i - pos \in 1..w /\ pos + (i - pos) = i OBVIOUS
  <2>2. UintBits(u, w)[i - pos] \in Bit BY <1>1, <2>1, UintBitsType
  <2> QED BY <2>1, <2>2
<1>3. Value(bits, pos, w) = u
  <2> DEFINE v == Value(bits, pos, w)
  <2>1. v \in 0..2^w - 1 /\ \A i \in 1..w : UintBits(v, w)[i] = bits[pos + i]
    BY <1>2, ValueType
  <2> HIDE DEF v
  <2>2. \A i \in 1..w : UintBits(v, w)[i] = UintBits(u, w)[i] BY <2>1
  <2>3. v = u BY <2>1, <2>2, UintBitsInjective
  <2> QED BY <2>3 DEF v
<1> QED BY <1>2, <1>3

(* The three encodings of a label, bit by bit, at the beginning of a cell. *)
ShortForm(bits, n, label) ==
  /\ 2 * n + 2 <= Len(bits)
  /\ bits[1] = 0 /\ bits[n + 2] = 0
  /\ \A i \in 2..n + 1 : bits[i] = 1
  /\ \A i \in 1..n : bits[n + 2 + i] = label[i]

SameForm(bits, n, w, bit) ==
  /\ 3 + w <= Len(bits)
  /\ bits[1] = 1 /\ bits[2] = 1 /\ bits[3] = bit
  /\ \A i \in 1..w : bits[3 + i] = UintBits(n, w)[i]

LongForm(bits, n, w, label) ==
  /\ 2 + w + n <= Len(bits)
  /\ bits[1] = 1 /\ bits[2] = 0
  /\ \A i \in 1..w : bits[2 + i] = UintBits(n, w)[i]
  /\ \A i \in 1..n : bits[2 + w + i] = label[i]

(* The bits of a cell begin with lb. *)
Begins(bits, lb) ==
  Len(lb) <= Len(bits) /\ \A i \in 1..Len(lb) : bits[i] = lb[i]

(* LabelBits writes hml_short in the form that readCommonPrefix expects. *)
LEMMA ShortLabel ==
  ASSUME NEW label \in Seq(Bit), NEW size
  PROVE LET lb == LabelBits("hml_short", label, size)
            n == Len(label)
        IN lb \in Seq(Bit) /\ Len(lb) = 2 * n + 2 /\ ShortForm(lb, n, label)
<1> DEFINE n == Len(label)
           a == <<0>> \o Repeat(1, n)
           b == a \o <<0>>
<1>1. n \in Nat BY LenProperties
<1>2. 0 \in Bit /\ 1 \in Bit BY DEF Bit
<1>3. <<0>> \in Seq(Bit) /\ Len(<<0>>) = 1 /\ <<0>>[1] = 0 BY <1>2
<1>4. Repeat(1, n) \in Seq(Bit) /\ Len(Repeat(1, n)) = n /\ \A i \in 1..n : Repeat(1, n)[i] = 1
  BY <1>1, <1>2, RepeatType
<1>5. /\ a \in Seq(Bit) /\ Len(a) = n + 1 /\ a[1] = 0 /\ \A i \in 2..n + 1 : a[i] = 1
  <2> HIDE DEF n
  <2>1. /\ a \in Seq(Bit) /\ Len(a) = 1 + n
        /\ \A i \in 1..1 + n : a[i] = IF i <= 1 THEN <<0>>[i] ELSE Repeat(1, n)[i - 1]
    <3>1. /\ a \in Seq(Bit) /\ Len(a) = Len(<<0>>) + Len(Repeat(1, n))
          /\ \A i \in 1..Len(<<0>>) + Len(Repeat(1, n)) :
               a[i] = IF i <= Len(<<0>>) THEN <<0>>[i] ELSE Repeat(1, n)[i - Len(<<0>>)]
      BY <1>3, <1>4, ConcatProperties
    <3> HIDE DEF a
    <3> QED BY <1>3, <1>4, <3>1
  <2> HIDE DEF a
  <2> QED BY <1>1, <1>3, <1>4, <2>1
<1>6. /\ b \in Seq(Bit) /\ Len(b) = n + 2 /\ b[1] = 0 /\ b[n + 2] = 0
      /\ \A i \in 2..n + 1 : b[i] = 1
  <2> HIDE DEF n, a
  <2>1. /\ b \in Seq(Bit) /\ Len(b) = Len(a) + Len(<<0>>)
        /\ \A i \in 1..Len(a) + Len(<<0>>) :
             b[i] = IF i <= Len(a) THEN a[i] ELSE <<0>>[i - Len(a)]
    BY <1>3, <1>5, ConcatProperties
  <2> HIDE DEF b
  <2> QED BY <1>1, <1>3, <1>5, <2>1
<1>7. LabelBits("hml_short", label, size) = b \o label
  BY DEF LabelBits
<1>8. /\ b \o label \in Seq(Bit) /\ Len(b \o label) = Len(b) + Len(label)
      /\ \A i \in 1..Len(b) + Len(label) :
           (b \o label)[i] = IF i <= Len(b) THEN b[i] ELSE label[i - Len(b)]
  <2> HIDE DEF b
  <2> QED BY <1>6, ConcatProperties
<1> DEFINE lb == b \o label
<1>9. lb \in Seq(Bit) /\ Len(lb) = 2 * n + 2
  <2> HIDE DEF b
  <2> QED BY <1>1, <1>6, <1>8
<1>10. lb[1] = 0 /\ lb[n + 2] = 0 /\ \A i \in 2..n + 1 : lb[i] = 1
  <2> HIDE DEF n, b
  <2> QED BY <1>1, <1>6, <1>8 DEF n
<1>11. \A i \in 1..n : lb[n + 2 + i] = label[i]
  <2> HIDE DEF b
  <2> QED BY <1>1, <1>6, <1>8
<1>12. ShortForm(lb, n, label)
  <2> HIDE DEF lb, n
  <2> QED BY <1>1, <1>9, <1>10, <1>11 DEF ShortForm
<1> QED BY <1>7, <1>9, <1>12

(* The same of hml_same, whose label is n times the bit b. *)
LEMMA SameLabel ==
  ASSUME NEW b \in Bit, NEW n \in Nat, NEW w \in Nat
  PROVE LET lb == <<1, 1, b>> \o UintBits(n, w)
        IN lb \in Seq(Bit) /\ Len(lb) = 3 + w /\ SameForm(lb, n, w, b)
<1> DEFINE a == <<1, 1, b>>
           u == UintBits(n, w)
<1>1. a \in Seq(Bit) /\ Len(a) = 3 /\ a[1] = 1 /\ a[2] = 1 /\ a[3] = b BY DEF Bit
<1>2. u \in Seq(Bit) /\ Len(u) = w BY UintBitsSeq
<1> HIDE DEF a, u
<1>3. /\ a \o u \in Seq(Bit) /\ Len(a \o u) = Len(a) + Len(u)
      /\ \A i \in 1..Len(a) + Len(u) : (a \o u)[i] = IF i <= Len(a) THEN a[i] ELSE u[i - Len(a)]
  BY <1>1, <1>2, ConcatProperties
<1>4. \A i \in 1..w : (a \o u)[3 + i] = u[i] BY <1>1, <1>2, <1>3
<1>5. (a \o u)[1] = 1 /\ (a \o u)[2] = 1 /\ (a \o u)[3] = b BY <1>1, <1>2, <1>3
<1>6. Len(a \o u) = 3 + w BY <1>1, <1>2, <1>3
<1>7. SameForm(a \o u, n, w, b) BY <1>4, <1>5, <1>6 DEF SameForm, u
<1> QED BY <1>3, <1>6, <1>7 DEF a, u

(* The same of hml_long. *)
LEMMA LongLabel ==
  ASSUME NEW label \in Seq(Bit), NEW w \in Nat
  PROVE LET n == Len(label)
            lb == <<1, 0>> \o UintBits(n, w) \o label
        IN lb \in Seq(Bit) /\ Len(lb) = 2 + w + n /\ LongForm(lb, n, w, label)
<1> DEFINE n == Len(label)
           a == <<1, 0>>
           u == UintBits(n, w)
           c == a \o u
<1>1. a \in Seq(Bit) /\ Len(a) = 2 /\ a[1] = 1 /\ a[2] = 0 BY DEF Bit
<1>2. n \in Nat BY LenProperties
<1>3. u \in Seq(Bit) /\ Len(u) = w BY <1>2, UintBitsSeq
<1> HIDE DEF a, u
<1>4. /\ c \in Seq(Bit) /\ Len(c) = Len(a) + Len(u)
      /\ \A i \in 1..Len(a) + Len(u) : c[i] = IF i <= Len(a) THEN a[i] ELSE u[i - Len(a)]
  BY <1>1, <1>3, ConcatProperties
<1>5. c \in Seq(Bit) BY <1>4
<1> HIDE DEF c
<1>6. /\ Len(c) = 2 + w /\ c[1] = 1 /\ c[2] = 0
      /\ \A i \in 1..w : c[2 + i] = u[i]
  BY <1>1, <1>3, <1>4
<1>7. /\ c \o label \in Seq(Bit) /\ Len(c \o label) = Len(c) + Len(label)
      /\ \A i \in 1..Len(c) + Len(label) :
           (c \o label)[i] = IF i <= Len(c) THEN c[i] ELSE label[i - Len(c)]
  BY <1>5, ConcatProperties
<1> DEFINE lb == c \o label
<1>8. Len(lb) = 2 + w + n BY <1>2, <1>6, <1>7
<1>9. lb[1] = 1 /\ lb[2] = 0 BY <1>2, <1>6, <1>7
<1>10. \A i \in 1..w : lb[2 + i] = u[i]
  <2> HIDE DEF n
  <2> QED BY <1>2, <1>6, <1>7 DEF n
<1>11. \A i \in 1..n : lb[2 + w + i] = label[i]
  BY <1>2, <1>6, <1>7
<1>12. LongForm(lb, n, w, label)
  <2> HIDE DEF lb, n
  <2> QED BY <1>2, <1>8, <1>9, <1>10, <1>11 DEF LongForm, u
<1> QED BY <1>7, <1>8, <1>12 DEF a, u, c
-----------------------------------------------------------------------------
(***************************************************************************)
(* Labels as readCommonPrefix reads them.                                  *)
(***************************************************************************)
(* Equal bits from pos on are a label read at pos. *)
LEMMA Window ==
  ASSUME NEW bits, NEW pos \in Nat, NEW label \in Seq(Bit),
         \A i \in 1..Len(label) : bits[pos + i] = label[i]
  PROVE /\ SubSeq(bits, pos + 1, pos + Len(label)) = label
        /\ \A i \in pos + 1..pos + Len(label) : bits[i] \in Bit
<1> DEFINE n == Len(label)
           s == SubSeq(bits, pos + 1, pos + n)
<1>1. n \in Nat /\ \A i \in 1..n : label[i] \in Bit BY LenProperties, ElementOfSeq
<1>2. \A i \in pos + 1..pos + n : bits[i] \in Bit
  <2> SUFFICES ASSUME NEW i \in pos + 1..pos + n PROVE bits[i] \in Bit OBVIOUS
  <2> HIDE DEF n
  <2>1. i - pos \in 1..n /\ pos + (i - pos) = i BY <1>1
  <2>2. bits[pos + (i - pos)] = label[i - pos] BY <2>1 DEF n
  <2> QED BY <1>1, <2>1, <2>2
<1>3. s \in Seq(Bit) /\ Len(s) = n /\ \A i \in 1..n : s[i] = bits[pos + i]
  <2> HIDE DEF n
  <2>1. /\ s \in Seq(Bit)
        /\ Len(s) = IF pos + 1 <= pos + n THEN (pos + n) - (pos + 1) + 1 ELSE 0
        /\ \A i \in 1..(pos + n) - (pos + 1) + 1 : s[i] = bits[(pos + 1) + i - 1]
    BY <1>1, <1>2, SubSeqProperties
  <2>2. (pos + n) - (pos + 1) + 1 = n BY <1>1
  <2>3. \A i \in 1..n : (pos + 1) + i - 1 = pos + i BY <1>1
  <2> HIDE DEF s
  <2> QED BY <1>1, <2>1, <2>2, <2>3
<1>4. s = label
  <2> HIDE DEF s
  <2> QED BY <1>3, SeqEqual
<1> QED BY <1>2, <1>4

(* Reading a label whose length is known. *)
LEMMA LabelFollowsRead ==
  ASSUME NEW bits, NEW pos \in Nat, NEW label \in Seq(Bit), Len(bits) \in Nat,
         pos + Len(label) <= Len(bits),
         \A i \in 1..Len(label) : bits[pos + i] = label[i]
  PROVE LabelFollows(bits, pos, Len(label)) = LabelRead(label, pos + Len(label))
<1>1. Len(label) \in Nat BY LenProperties
<1>2. BitsAt(bits, pos, Len(label)) BY Window DEF BitsAt
<1> QED BY <1>2, Window DEF LabelFollows

(* The minimum of the community modules is the least element. *)
LEMMA MinOf ==
  ASSUME NEW S \in SUBSET Int, NEW n \in S, \A m \in S : n <= m
  PROVE Min(S) = n
<1>1. \E x \in S : \A y \in S : x <= y OBVIOUS
<1>2. Min(S) \in S /\ \A y \in S : Min(S) <= y BY <1>1, Zenon DEF Min
<1>3. n <= Min(S) /\ Min(S) <= n BY <1>2
<1>4. n \in Int /\ Min(S) \in Int BY <1>2
<1> QED BY <1>3, <1>4

(* The unary length of hml_short is where the first 0 is, and the label    *)
(* follows it.                                                             *)
LEMMA DecodeShort ==
  ASSUME NEW size, NEW bits, NEW label \in Seq(Bit), Len(bits) \in Nat,
         NEW n \in Nat, n = Len(label), ShortForm(bits, n, label)
  PROVE readCommonPrefix(size, bits, 0) = LabelRead(label, 2 * n + 2)
<1>1. /\ 2 * n + 2 <= Len(bits)
      /\ bits[1] = 0 /\ bits[n + 2] = 0
      /\ \A i \in 2..n + 1 : bits[i] = 1
      /\ \A i \in 1..n : bits[n + 2 + i] = label[i]
  BY DEF ShortForm
<1> DEFINE zeros == { i \in 1 + 1..Len(bits) : bits[i] = 0 }
<1>2. n + 2 \in zeros BY <1>1
<1>3. \A i \in zeros : n + 2 <= i
  <2> SUFFICES ASSUME NEW i \in zeros, i < n + 2 PROVE FALSE BY <1>1
  <2>1. i \in 2..n + 1 /\ bits[i] = 0 BY <1>1
  <2> QED BY <1>1, <2>1
<1>4. Min(zeros) = n + 2
  <2>1. zeros \subseteq Int OBVIOUS
  <2> HIDE DEF zeros
  <2> QED BY <1>2, <1>3, <2>1, MinOf
<1>5. Min(zeros) - 1 - 1 = n BY <1>1, <1>4
<1>6. BitsAt(bits, 1, n)
  <2>1. 1 + n <= Len(bits) /\ 1 + 1 = 2 /\ 1 + n = n + 1 BY <1>1
  <2> QED BY <2>1, <1>1 DEF BitsAt, Bit
<1>7. LabelFollows(bits, n + 2, n) = LabelRead(label, n + 2 + n)
  <2>1. n + 2 \in Nat /\ (n + 2) + Len(label) <= Len(bits) BY <1>1
  <2> QED BY <1>1, <2>1, LabelFollowsRead
<1>8. ReadShort(bits, 1) = LabelFollows(bits, 1 + n + 1, n)
  <2> HIDE DEF zeros
  <2>1. zeros # {} BY <1>2
  <2> QED BY <2>1, <1>5, <1>6 DEF ReadShort, zeros
<1>9. 1 + n + 1 = n + 2 /\ n + 2 + n = 2 * n + 2 BY <1>1
<1>10. BitsAt(bits, 0, 1) BY <1>1 DEF BitsAt, Bit
<1>11. bits[0 + 1] = 0 /\ 0 + 1 = 1 BY <1>1
<1>12. readCommonPrefix(size, bits, 0) = ReadShort(bits, 1)
  BY <1>10, <1>11 DEF readCommonPrefix
<1> QED BY <1>7, <1>8, <1>9, <1>12

(* A label of hml_same is read back from its form. *)
LEMMA DecodeSame ==
  ASSUME NEW size \in Int, size <= KeyLength, NEW bits, NEW label \in Seq(Bit), Len(bits) \in Nat,
         NEW n \in Nat, NEW b \in Bit, label = Repeat(b, n), n < 2^Width(size),
         SameForm(bits, n, Width(size), b)
  PROVE readCommonPrefix(size, bits, 0) = LabelRead(label, 3 + Width(size))
<1> DEFINE w == Width(size)
<1>1. n \in Nat /\ w \in Nat /\ 2^w \in Nat BY WidthBound, PowerType
<1>2. n \in 0..2^w - 1 BY <1>1
<1>3. /\ 3 + w <= Len(bits)
      /\ bits[1] = 1 /\ bits[2] = 1 /\ bits[3] = b
      /\ \A i \in 1..w : bits[3 + i] = UintBits(n, w)[i]
  BY DEF SameForm
<1>4. ReadSame(size, bits, 2) = LabelRead(label, 3 + w)
  <2> HIDE DEF w
  <2>1. Value(bits, 3, w) = n /\ \A i \in 3 + 1..3 + w : bits[i] \in Bit
    BY <1>1, <1>2, <1>3, ValueOfUint
  <2>2. BitsAt(bits, 2, w + 1)
    <3>1. 2 + (w + 1) <= Len(bits) BY <1>1, <1>3
    <3>2. \A i \in 2 + 1..2 + (w + 1) : i = 3 \/ i \in 3 + 1..3 + w BY <1>1
    <3> QED BY <1>3, <2>1, <3>1, <3>2 DEF BitsAt
  <2>3. 2 + 1 = 3 /\ 2 + w + 1 = 3 + w BY <1>1
  <2> QED BY <1>3, <2>1, <2>2, <2>3 DEF ReadSame, w
<1>5. BitsAt(bits, 0, 1) /\ BitsAt(bits, 0, 2)
  <2>1. \A i \in 0 + 1..0 + 2 : i = 1 \/ i = 2 OBVIOUS
  <2>2. 0 + 2 <= Len(bits) /\ 0 + 1 <= Len(bits) BY <1>1, <1>3
  <2> HIDE DEF w
  <2> QED BY <1>3, <2>1, <2>2 DEF BitsAt, Bit
<1>6. bits[0 + 1] = 1 /\ bits[0 + 2] = 1 /\ 0 + 2 = 2 BY <1>3
<1>7. readCommonPrefix(size, bits, 0) = ReadSame(size, bits, 2)
  BY <1>5, <1>6 DEF readCommonPrefix
<1> QED BY <1>4, <1>7

(* A label of hml_long is read back from its form. *)
LEMMA DecodeLong ==
  ASSUME NEW size \in Int, size <= KeyLength, NEW bits, NEW label \in Seq(Bit), Len(bits) \in Nat,
         NEW n \in Nat, n = Len(label), n < 2^Width(size),
         LongForm(bits, n, Width(size), label)
  PROVE readCommonPrefix(size, bits, 0) = LabelRead(label, 2 + Width(size) + n)
<1> DEFINE w == Width(size)
<1>1. n \in Nat /\ w \in Nat /\ 2^w \in Nat BY WidthBound, PowerType
<1>2. n \in 0..2^w - 1 BY <1>1
<1>3. /\ 2 + w + n <= Len(bits)
      /\ bits[1] = 1 /\ bits[2] = 0
      /\ \A i \in 1..w : bits[2 + i] = UintBits(n, w)[i]
      /\ \A i \in 1..n : bits[2 + w + i] = label[i]
  BY DEF LongForm
<1>4. ReadLong(size, bits, 2) = LabelRead(label, 2 + w + n)
  <2> HIDE DEF w
  <2>1. Value(bits, 2, w) = n /\ \A i \in 2 + 1..2 + w : bits[i] \in Bit
    BY <1>1, <1>2, <1>3, ValueOfUint
  <2>2. BitsAt(bits, 2, w)
    <3>1. 2 + w <= Len(bits) BY <1>1, <1>3
    <3> QED BY <2>1, <3>1 DEF BitsAt
  <2>3. LabelFollows(bits, 2 + w, n) = LabelRead(label, 2 + w + n)
    <3>1. 2 + w \in Nat /\ (2 + w) + Len(label) <= Len(bits) BY <1>1, <1>3
    <3> QED BY <1>3, <3>1, LabelFollowsRead
  <2> QED BY <2>1, <2>2, <2>3 DEF ReadLong, w
<1>5. BitsAt(bits, 0, 1) /\ BitsAt(bits, 0, 2)
  <2>1. \A i \in 0 + 1..0 + 2 : i = 1 \/ i = 2 OBVIOUS
  <2>2. 0 + 2 <= Len(bits) /\ 0 + 1 <= Len(bits) BY <1>1, <1>3
  <2> HIDE DEF w
  <2> QED BY <1>3, <2>1, <2>2 DEF BitsAt, Bit
<1>6. bits[0 + 1] = 1 /\ bits[0 + 2] = 0 /\ 0 + 2 = 2 BY <1>3
<1>7. readCommonPrefix(size, bits, 0) = ReadLong(size, bits, 2)
  BY <1>5, <1>6 DEF readCommonPrefix
<1> QED BY <1>4, <1>7

(* A cell that begins with what LabelBits writes as hml_short is read. *)
LEMMA ReadsShort ==
  ASSUME NEW size, NEW bits, NEW label \in Seq(Bit), Len(bits) \in Nat,
         Begins(bits, LabelBits("hml_short", label, size))
  PROVE readCommonPrefix(size, bits, 0)
          = LabelRead(label, Len(LabelBits("hml_short", label, size)))
<1>1. PICK n \in Nat : n = Len(label) BY LenProperties
<1>2. PICK lb \in Seq(Bit) : lb = LabelBits("hml_short", label, size) BY ShortLabel
<1>3. Len(lb) = 2 * n + 2 /\ ShortForm(lb, n, label) BY <1>1, <1>2, ShortLabel
<1>4. Len(lb) <= Len(bits) /\ \A i \in 1..Len(lb) : bits[i] = lb[i] BY <1>2 DEF Begins
<1>5. ShortForm(bits, n, label)
  <2>1. /\ lb[1] = 0 /\ lb[n + 2] = 0
        /\ \A i \in 2..n + 1 : lb[i] = 1
        /\ \A i \in 1..n : lb[n + 2 + i] = label[i]
    BY <1>3 DEF ShortForm
  <2>2. \A i \in 1..2 * n + 2 : bits[i] = lb[i] BY <1>3, <1>4
  <2> QED BY <1>3, <1>4, <2>1, <2>2 DEF ShortForm
<1>6. readCommonPrefix(size, bits, 0) = LabelRead(label, 2 * n + 2)
  BY <1>1, <1>5, DecodeShort, Zenon
<1> QED BY <1>2, <1>3, <1>6

(* A cell that begins with what LabelBits writes as hml_same is read. *)
LEMMA ReadsSame ==
  ASSUME NEW size \in Nat, size <= KeyLength, NEW bits, NEW label \in Seq(Bit), Len(bits) \in Nat,
         NEW n \in Nat, n <= size, NEW b \in Bit, label = Repeat(b, n),
         Begins(bits, <<1, 1, b>> \o UintBits(n, Width(size)))
  PROVE readCommonPrefix(size, bits, 0)
          = LabelRead(label, Len(<<1, 1, b>> \o UintBits(n, Width(size))))
<1>1. PICK w \in Nat : w = Width(size) /\ size < 2^w BY WidthBound
<1>2. n < 2^w /\ 2^w \in Nat BY <1>1, PowerType
<1>3. PICK lb \in Seq(Bit) : lb = <<1, 1, b>> \o UintBits(n, w) BY SameLabel
<1>4. Len(lb) = 3 + w /\ SameForm(lb, n, w, b) BY <1>3, SameLabel
<1>5. Len(lb) <= Len(bits) /\ \A i \in 1..Len(lb) : bits[i] = lb[i] BY <1>1, <1>3 DEF Begins
<1>6. SameForm(bits, n, w, b)
  <2>1. /\ lb[1] = 1 /\ lb[2] = 1 /\ lb[3] = b
        /\ \A i \in 1..w : lb[3 + i] = UintBits(n, w)[i]
    BY <1>4 DEF SameForm
  <2>2. \A i \in 1..3 + w : bits[i] = lb[i] BY <1>4, <1>5
  <2> QED BY <1>4, <1>5, <2>1, <2>2 DEF SameForm
<1>7. readCommonPrefix(size, bits, 0) = LabelRead(label, 3 + w)
  <2>1. size \in Int OBVIOUS
  <2> QED BY <1>1, <1>2, <1>6, <2>1, DecodeSame, Zenon
<1> QED BY <1>1, <1>3, <1>4, <1>7

(* A cell that begins with what LabelBits writes as hml_long is read. *)
LEMMA ReadsLong ==
  ASSUME NEW size \in Nat, size <= KeyLength, NEW bits, NEW label \in Seq(Bit), Len(bits) \in Nat,
         NEW n \in Nat, n = Len(label), n <= size,
         Begins(bits, <<1, 0>> \o UintBits(n, Width(size)) \o label)
  PROVE readCommonPrefix(size, bits, 0)
          = LabelRead(label, Len(<<1, 0>> \o UintBits(n, Width(size)) \o label))
<1>1. PICK w \in Nat : w = Width(size) /\ size < 2^w BY WidthBound
<1>2. n < 2^w /\ 2^w \in Nat BY <1>1, PowerType
<1>3. PICK lb \in Seq(Bit) : lb = <<1, 0>> \o UintBits(n, w) \o label BY LongLabel
<1>4. Len(lb) = 2 + w + n /\ LongForm(lb, n, w, label) BY <1>3, LongLabel
<1>5. Len(lb) <= Len(bits) /\ \A i \in 1..Len(lb) : bits[i] = lb[i] BY <1>1, <1>3 DEF Begins
<1>6. LongForm(bits, n, w, label)
  <2>1. /\ lb[1] = 1 /\ lb[2] = 0
        /\ \A i \in 1..w : lb[2 + i] = UintBits(n, w)[i]
        /\ \A i \in 1..n : lb[2 + w + i] = label[i]
    BY <1>4 DEF LongForm
  <2>2. \A i \in 1..2 + w + n : bits[i] = lb[i] BY <1>4, <1>5
  <2> QED BY <1>4, <1>5, <2>1, <2>2 DEF LongForm
<1>7. readCommonPrefix(size, bits, 0) = LabelRead(label, 2 + w + n)
  <2>1. size \in Int OBVIOUS
  <2> QED BY <1>1, <1>2, <1>6, <2>1, DecodeLong, Zenon
<1> QED BY <1>1, <1>3, <1>4, <1>7

(* LabelBits writes one of the three forms, hml_same only if it fits the   *)
(* label.                                                                  *)
LEMMA LabelBitsCases ==
  ASSUME NEW style, NEW size, NEW label \in Seq(Bit)
  PROVE \/ LabelBits(style, label, size) = LabelBits("hml_short", label, size)
        \/ \E b \in Bit : /\ label = Repeat(b, Len(label))
                         /\ LabelBits(style, label, size) =
                              <<1, 1, b>> \o UintBits(Len(label), Width(size))
        \/ LabelBits(style, label, size) =
             <<1, 0>> \o UintBits(Len(label), Width(size)) \o label
<1> DEFINE n == Len(label)
<1>1. n \in Nat BY LenProperties
<1>2. CASE style = "hml_short" BY <1>2
<1>3. ASSUME style # "hml_short", style = "hml_same", n > 0, NEW b \in Bit, label = Repeat(b, n)
      PROVE LabelBits(style, label, size) = <<1, 1, b>> \o UintBits(n, Width(size))
  <2>1. 1 \in 1..n BY <1>1, <1>3
  <2> HIDE DEF n
  <2>2. Repeat(b, n)[1] = b BY <1>1, <2>1, RepeatType
  <2>3. label[1] = b BY <1>3, <2>2 DEF n
  <2> QED BY <1>3, <2>3 DEF LabelBits, n
<1>4. CASE style # "hml_short" /\ ~(style = "hml_same" /\ n > 0 /\ \E b \in Bit : label = Repeat(b, n))
  BY <1>4 DEF LabelBits
<1> QED BY <1>2, <1>3, <1>4

(* A written label is a sequence of bits. *)
LEMMA LabelBitsType ==
  ASSUME NEW style, NEW size \in Int, size <= KeyLength, NEW label \in Seq(Bit)
  PROVE LabelBits(style, label, size) \in Seq(Bit)
<1>1. PICK n \in Nat : n = Len(label) BY LenProperties
<1>2. PICK w \in Nat : w = Width(size) BY WidthBound
<1>3. LabelBits("hml_short", label, size) \in Seq(Bit) BY ShortLabel
<1>4. \A b \in Bit : <<1, 1, b>> \o UintBits(n, w) \in Seq(Bit) BY SameLabel
<1>5. <<1, 0>> \o UintBits(n, w) \o label \in Seq(Bit) BY <1>1, LongLabel
<1> QED BY <1>1, <1>2, <1>3, <1>4, <1>5, LabelBitsCases

(* readCommonPrefix and readUnary: whatever encoding the writer of the file*)
(* chose for a label, the reader gets the label back and leaves the cursor *)
(* at the end of it, for every length of keys, every label and every cell  *)
(* that begins with it.                                                    *)
LEMMA LabelIsRead ==
  ASSUME NEW style, NEW size \in Nat, size <= KeyLength, NEW label \in Seq(Bit),
         Len(label) <= size, NEW bits, Len(bits) \in Nat,
         Begins(bits, LabelBits(style, label, size))
  PROVE readCommonPrefix(size, bits, 0) = LabelRead(label, Len(LabelBits(style, label, size)))
<1>1. PICK n \in Nat : n = Len(label) BY LenProperties
<1>2. CASE LabelBits(style, label, size) = LabelBits("hml_short", label, size)
  BY <1>2, ReadsShort, Zenon
<1>3. ASSUME NEW b \in Bit, label = Repeat(b, n),
             LabelBits(style, label, size) = <<1, 1, b>> \o UintBits(n, Width(size))
      PROVE readCommonPrefix(size, bits, 0) = LabelRead(label, Len(LabelBits(style, label, size)))
  <2>1. n <= size BY <1>1
  <2>2. Begins(bits, <<1, 1, b>> \o UintBits(n, Width(size))) BY <1>3
  <2>3. readCommonPrefix(size, bits, 0)
          = LabelRead(label, Len(<<1, 1, b>> \o UintBits(n, Width(size))))
    BY <1>3, <2>1, <2>2, ReadsSame, Zenon
  <2> QED BY <1>3, <2>3
<1>4. CASE LabelBits(style, label, size) = <<1, 0>> \o UintBits(n, Width(size)) \o label
  <2>1. n <= size BY <1>1
  <2>2. Begins(bits, <<1, 0>> \o UintBits(n, Width(size)) \o label) BY <1>4
  <2>3. readCommonPrefix(size, bits, 0)
          = LabelRead(label, Len(<<1, 0>> \o UintBits(n, Width(size)) \o label))
    BY <1>1, <2>1, <2>2, ReadsLong, Zenon
  <2> QED BY <1>4, <2>3
<1> QED BY <1>1, <1>2, <1>3, <1>4, LabelBitsCases, Zenon
-----------------------------------------------------------------------------
(***************************************************************************)
(* Keys and their order.                                                   *)
(***************************************************************************)
(* Every key of the file and every start key. *)
KeyBits == { s \in Seq(Bit) : Len(s) = KeyLength }

(* The two bits of addr_std and at least one of the account. *)
LEMMA KeyLengthType == KeyLength \in Nat /\ KeyLength >= 3 /\ AccountBits = KeyLength - 2
BY WalkAssumption DEF KeyLength

(* The bits of a key. *)
LEMMA KeyBitsType ==
  ASSUME NEW k \in KeyBits
  PROVE /\ k \in Seq(Bit) /\ Len(k) = KeyLength
        /\ \A i \in 1..KeyLength : k[i] \in Bit
BY ElementOfSeq DEF KeyBits

(* Keys with the same bits are equal. *)
LEMMA SameBits ==
  ASSUME NEW j \in KeyBits, NEW k \in KeyBits, \A i \in 1..KeyLength : j[i] = k[i]
  PROVE j = k
BY KeyBitsType, SeqEqual

(* The order of keys: they agree up to a bit that is 0 in the first and 1  *)
(* in the second.                                                          *)
LEMMA PrecedesPointwise ==
  ASSUME NEW j \in KeyBits, NEW k \in KeyBits
  PROVE Precedes(j, k) <=> \E i \in 1..KeyLength : /\ \A m \in 1..i - 1 : j[m] = k[m]
                                                   /\ j[i] = 0 /\ k[i] = 1
<1> SUFFICES ASSUME NEW i \in 1..KeyLength
             PROVE SubSeq(j, 1, i - 1) = SubSeq(k, 1, i - 1) <=> \A m \in 1..i - 1 : j[m] = k[m]
  BY Zenon DEF Precedes
<1>0. KeyLength \in Nat BY KeyLengthType
<1>1. \A s \in KeyBits : /\ SubSeq(s, 1, i - 1) \in Seq(Bit)
                         /\ Len(SubSeq(s, 1, i - 1)) = i - 1
                         /\ \A m \in 1..i - 1 : SubSeq(s, 1, i - 1)[m] = s[m]
  <2> SUFFICES ASSUME NEW s \in KeyBits
               PROVE /\ SubSeq(s, 1, i - 1) \in Seq(Bit)
                     /\ Len(SubSeq(s, 1, i - 1)) = i - 1
                     /\ \A m \in 1..i - 1 : SubSeq(s, 1, i - 1)[m] = s[m]
    OBVIOUS
  <2>1. \A m \in 1..i - 1 : s[m] \in Bit BY <1>0, KeyBitsType
  <2>2. /\ SubSeq(s, 1, i - 1) \in Seq(Bit)
        /\ Len(SubSeq(s, 1, i - 1)) = IF 1 <= i - 1 THEN (i - 1) - 1 + 1 ELSE 0
        /\ \A m \in 1..(i - 1) - 1 + 1 : SubSeq(s, 1, i - 1)[m] = s[1 + m - 1]
    BY <1>0, <2>1, SubSeqProperties
  <2>3. (i - 1) - 1 + 1 = i - 1 /\ \A m \in 1..i - 1 : 1 + m - 1 = m BY <1>0
  <2> QED BY <1>0, <2>2, <2>3
<1>2. ASSUME SubSeq(j, 1, i - 1) = SubSeq(k, 1, i - 1), NEW m \in 1..i - 1 PROVE j[m] = k[m]
  BY <1>1, <1>2
<1>3. ASSUME \A m \in 1..i - 1 : j[m] = k[m] PROVE SubSeq(j, 1, i - 1) = SubSeq(k, 1, i - 1)
  <2> DEFINE s == SubSeq(j, 1, i - 1)
             t == SubSeq(k, 1, i - 1)
  <2>1. s \in Seq(Bit) /\ t \in Seq(Bit) /\ Len(s) = i - 1 /\ Len(t) = i - 1
        /\ \A m \in 1..i - 1 : s[m] = j[m] /\ t[m] = k[m]
    BY <1>1
  <2> HIDE DEF s, t
  <2>2. s = t BY <1>3, <2>1, SeqEqual
  <2> QED BY <2>2 DEF s, t
<1> QED BY <1>2, <1>3

(* No key is before itself. *)
LEMMA PrecedesIrreflexive ==
  ASSUME NEW k \in KeyBits
  PROVE ~Precedes(k, k)
BY PrecedesPointwise

(* The order of keys is transitive. *)
LEMMA PrecedesTransitive ==
  ASSUME NEW j \in KeyBits, NEW k \in KeyBits, NEW l \in KeyBits, Precedes(j, k), Precedes(k, l)
  PROVE Precedes(j, l)
<1>0. KeyLength \in Nat BY KeyLengthType
<1>1. PICK a \in 1..KeyLength : (\A m \in 1..a - 1 : j[m] = k[m]) /\ j[a] = 0 /\ k[a] = 1
  BY PrecedesPointwise
<1>2. PICK b \in 1..KeyLength : (\A m \in 1..b - 1 : k[m] = l[m]) /\ k[b] = 0 /\ l[b] = 1
  BY PrecedesPointwise
<1>3. CASE a < b
  <2>1. \A m \in 1..a - 1 : m \in 1..b - 1 BY <1>0, <1>3
  <2>2. a \in 1..b - 1 BY <1>0, <1>3
  <2>3. (\A m \in 1..a - 1 : j[m] = l[m]) /\ j[a] = 0 /\ l[a] = 1 BY <1>1, <1>2, <2>1, <2>2
  <2> QED BY <2>3, PrecedesPointwise
<1>4. CASE b < a
  <2>1. \A m \in 1..b - 1 : m \in 1..a - 1 BY <1>0, <1>4
  <2>2. b \in 1..a - 1 BY <1>0, <1>4
  <2>3. (\A m \in 1..b - 1 : j[m] = l[m]) /\ j[b] = 0 /\ l[b] = 1 BY <1>1, <1>2, <2>1, <2>2
  <2> QED BY <2>3, PrecedesPointwise
<1>5. a # b BY <1>1, <1>2
<1> QED BY <1>0, <1>3, <1>4, <1>5

(* Of two different keys one is before the other. *)
LEMMA PrecedesTotal ==
  ASSUME NEW j \in KeyBits, NEW k \in KeyBits, j # k
  PROVE Precedes(j, k) \/ Precedes(k, j)
<1>0. KeyLength \in Nat BY KeyLengthType
<1> DEFINE D == { i \in 1..KeyLength : j[i] # k[i] }
<1>1. D # {} BY SameBits
<1>2. D \in SUBSET Nat BY <1>0
<1>3. PICK i \in D : \A m \in D : i <= m
  <2> HIDE DEF D
  <2> QED BY <1>1, <1>2, Least
<1>4. \A m \in 1..i - 1 : j[m] = k[m] BY <1>0, <1>3
<1>5. i \in 1..KeyLength /\ j[i] # k[i] BY <1>3
<1>6. j[i] \in {0, 1} /\ k[i] \in {0, 1} BY <1>5, KeyBitsType DEF Bit
<1>7. CASE j[i] = 0
  <2>1. k[i] = 1 BY <1>5, <1>6, <1>7
  <2> QED BY <1>4, <1>5, <1>7, <2>1, PrecedesPointwise
<1>8. CASE j[i] = 1
  <2>1. k[i] = 0 BY <1>5, <1>6, <1>8
  <2>2. \A m \in 1..i - 1 : k[m] = j[m] BY <1>4
  <2> QED BY <1>5, <1>8, <2>1, <2>2, PrecedesPointwise
<1> QED BY <1>6, <1>7, <1>8

(* The key of an account: two constant bits and the bits of the account. *)
LEMMA KeyType ==
  ASSUME NEW a \in Accounts
  PROVE /\ a \in Seq(Bit) /\ Len(a) = AccountBits
        /\ Key(a) \in KeyBits
        /\ \A i \in 1..AccountBits : Key(a)[i + 2] = a[i]
        /\ Key(a)[1] = 1 /\ Key(a)[2] = 0
<1>0. KeyLength \in Nat /\ AccountBits \in Nat /\ KeyLength = 2 + AccountBits
  BY WalkAssumption DEF KeyLength
<1>1. a \in Seq(Bit) /\ Len(a) = AccountBits BY <1>0, SeqOfFunction DEF Accounts
<1>2. AddrStd \in Seq(Bit) /\ Len(AddrStd) = 2 /\ AddrStd[1] = 1 /\ AddrStd[2] = 0 BY DEF AddrStd, Bit
<1>3. /\ Key(a) \in Seq(Bit) /\ Len(Key(a)) = Len(AddrStd) + Len(a)
      /\ \A i \in 1..Len(AddrStd) + Len(a) :
           Key(a)[i] = IF i <= Len(AddrStd) THEN AddrStd[i] ELSE a[i - Len(AddrStd)]
  BY <1>1, <1>2, ConcatProperties DEF Key
<1>4. Key(a) \in KeyBits BY <1>0, <1>1, <1>2, <1>3 DEF KeyBits
<1>5. \A i \in 1..AccountBits : Key(a)[i + 2] = a[i] BY <1>0, <1>1, <1>2, <1>3
<1>6. Key(a)[1] = 1 /\ Key(a)[2] = 0 BY <1>0, <1>1, <1>2, <1>3
<1> QED BY <1>1, <1>4, <1>5, <1>6

(* Different accounts have different keys. *)
LEMMA KeyInjective ==
  ASSUME NEW a \in Accounts, NEW b \in Accounts, Key(a) = Key(b)
  PROVE a = b
<1>1. \A i \in 1..AccountBits : a[i] = b[i] BY KeyType
<1> QED BY <1>1, KeyType, SeqEqual

(* bitsToAccountID undoes accountIDToBitString. *)
LEMMA KeyIsKey ==
  ASSUME NEW a \in Accounts
  PROVE IsKey(Key(a)) /\ AccountOf(Key(a)) = a
<1>0. KeyLength \in Nat /\ AccountBits \in Nat /\ KeyLength = 2 + AccountBits
  BY WalkAssumption DEF KeyLength
<1>1. AddrStd \in Seq(Bit) /\ Len(AddrStd) = 2 /\ AddrStd[1] = 1 /\ AddrStd[2] = 0 BY DEF AddrStd, Bit
<1>2. Key(a) \in Seq(Bit) /\ Len(Key(a)) = KeyLength BY KeyType, KeyBitsType
<1>3. IsPrefix(AddrStd, Key(a))
  <2>1. \A i \in 1..Len(AddrStd) : AddrStd[i] = Key(a)[i]
    <3>1. \A i \in 1..Len(AddrStd) : i = 1 \/ i = 2 BY <1>1
    <3> QED BY <1>1, <3>1, KeyType
  <2> QED BY <1>0, <1>1, <1>2, <2>1, PrefixPointwise
<1>4. AccountOf(Key(a)) = a
  <2>1. \A i \in 1..Len(a) : Key(a)[2 + i] = a[i] BY KeyType, <1>0
  <2>2. SubSeq(Key(a), 2 + 1, 2 + Len(a)) = a BY <2>1, KeyType, Window
  <2>3. 2 + 1 = 3 /\ 2 + Len(a) = KeyLength BY <1>0, KeyType
  <2> QED BY <2>2, <2>3 DEF AccountOf
<1> QED BY <1>2, <1>3, <1>4 DEF IsKey
-----------------------------------------------------------------------------
(***************************************************************************)
(* The shape of the tree.                                                  *)
(***************************************************************************)
(* The first n bits of a key. *)
LEMMA FirstBits ==
  ASSUME NEW k \in KeyBits, NEW n \in 0..KeyLength
  PROVE /\ SubSeq(k, 1, n) \in Seq(Bit)
        /\ Len(SubSeq(k, 1, n)) = n
        /\ \A i \in 1..n : SubSeq(k, 1, n)[i] = k[i]
        /\ IsPrefix(SubSeq(k, 1, n), k)
<1>0. KeyLength \in Nat BY KeyLengthType
<1>1. \A i \in 1..n : k[i] \in Bit BY <1>0, KeyBitsType
<1>2. /\ SubSeq(k, 1, n) \in Seq(Bit)
      /\ Len(SubSeq(k, 1, n)) = IF 1 <= n THEN n - 1 + 1 ELSE 0
      /\ \A i \in 1..n - 1 + 1 : SubSeq(k, 1, n)[i] = k[1 + i - 1]
  BY <1>0, <1>1, SubSeqProperties
<1>3. n - 1 + 1 = n /\ \A i \in 1..n : 1 + i - 1 = i BY <1>0
<1>4. Len(SubSeq(k, 1, n)) = n /\ \A i \in 1..n : SubSeq(k, 1, n)[i] = k[i] BY <1>0, <1>2, <1>3
<1>5. IsPrefix(SubSeq(k, 1, n), k)
  <2> DEFINE s == SubSeq(k, 1, n)
  <2>1. s \in Seq(Bit) /\ Len(s) = n /\ \A i \in 1..n : s[i] = k[i] BY <1>2, <1>4
  <2> HIDE DEF s
  <2>2. IsPrefix(s, k) BY <1>0, <2>1, KeyBitsType, PrefixPointwise
  <2> QED BY <2>2 DEF s
<1> QED BY <1>2, <1>4, <1>5

(* The keys below p, bit by bit. *)
LEMMA BelowPointwise ==
  ASSUME NEW keys \in SUBSET KeyBits, NEW p \in Seq(Bit)
  PROVE \A k : k \in Below(keys, p) <=>
                 k \in keys /\ Len(p) <= KeyLength /\ \A i \in 1..Len(p) : p[i] = k[i]
BY KeyBitsType, PrefixPointwise DEF Below

(* One more bit of a key, as addBit adds it. *)
LEMMA Extended ==
  ASSUME NEW p \in Seq(Bit), NEW b \in Bit
  PROVE /\ p \o <<b>> \in Seq(Bit)
        /\ Len(p \o <<b>>) = Len(p) + 1
        /\ \A i \in 1..Len(p) : (p \o <<b>>)[i] = p[i]
        /\ (p \o <<b>>)[Len(p) + 1] = b
        /\ Append(p, b) = p \o <<b>>
<1>1. Len(p) \in Nat BY LenProperties
<1>2. <<b>> \in Seq(Bit) /\ Len(<<b>>) = 1 /\ <<b>>[1] = b OBVIOUS
<1>3. /\ p \o <<b>> \in Seq(Bit) /\ Len(p \o <<b>>) = Len(p) + Len(<<b>>)
      /\ \A i \in 1..Len(p) + Len(<<b>>) :
           (p \o <<b>>)[i] = IF i <= Len(p) THEN p[i] ELSE <<b>>[i - Len(p)]
  BY <1>2, ConcatProperties
<1> QED BY <1>1, <1>2, <1>3, AppendIsConcat

(* What Stem promises. *)
IsStem(keys, p, s) ==
  /\ s \in Seq(Bit) /\ Len(p) <= Len(s) /\ Len(s) <= KeyLength
  /\ \A i \in 1..Len(p) : s[i] = p[i]
  /\ Below(keys, s) = Below(keys, p)
  /\ Len(s) = KeyLength \/ Forks(keys, s)

(* Where the keys below p part, or the end of the only one: the longest    *)
(* common prefix is a prefix of each of them.                              *)
LEMMA StemExists ==
  ASSUME NEW keys \in SUBSET KeyBits, NEW p \in Seq(Bit), NEW k \in Below(keys, p)
  PROVE \E n \in Len(p)..KeyLength :
          /\ Below(keys, SubSeq(k, 1, n)) = Below(keys, p)
          /\ n = KeyLength \/ Forks(keys, SubSeq(k, 1, n))
<1>0. KeyLength \in Nat /\ Len(p) \in Nat BY KeyLengthType, LenProperties
<1>1. k \in keys /\ k \in KeyBits /\ Len(p) <= KeyLength /\ \A i \in 1..Len(p) : p[i] = k[i]
  <2>1. k \in Below(keys, p) OBVIOUS
  <2>2. k \in keys /\ k \in KeyBits BY DEF Below
  <2>3. IsPrefix(p, k) BY DEF Below
  <2> QED BY <2>2, <2>3, KeyBitsType, PrefixPointwise
<1> DEFINE Common(n) == \A j \in Below(keys, p) : \A i \in 1..n : j[i] = k[i]
           N == { n \in 0..KeyLength : Len(p) <= n /\ Common(n) }
<1>2. Len(p) \in N
  <2>1. Common(Len(p)) BY <1>1, BelowPointwise
  <2> HIDE DEF Common
  <2> QED BY <1>0, <1>1, <2>1
<1>3. PICK n \in N : \A m \in N : m <= n
  <2>1. N \in SUBSET (0..KeyLength) /\ N # {} BY <1>2
  <2> HIDE DEF N
  <2> QED BY <1>0, <2>1, Greatest
<1>4. n \in 0..KeyLength /\ Len(p) <= n /\ Common(n) BY <1>3
<1> DEFINE s == SubSeq(k, 1, n)
<1>5. s \in Seq(Bit) /\ Len(s) = n /\ \A i \in 1..n : s[i] = k[i] BY <1>1, <1>4, FirstBits
<1> HIDE DEF s
<1>6. ASSUME NEW j \in Below(keys, p) PROVE j \in Below(keys, s)
  <2>1. j \in keys BY BelowPointwise
  <2>2. \A i \in 1..n : j[i] = k[i] BY <1>4
  <2> QED BY <1>4, <1>5, <2>1, <2>2, BelowPointwise
<1>7. ASSUME NEW j \in Below(keys, s) PROVE j \in Below(keys, p)
  <2>1. j \in keys /\ \A i \in 1..n : s[i] = j[i] BY <1>5, BelowPointwise
  <2>2. \A i \in 1..Len(p) : i \in 1..n BY <1>0, <1>4
  <2>3. \A i \in 1..Len(p) : p[i] = j[i] BY <1>1, <1>5, <2>1, <2>2
  <2> QED BY <1>1, <2>1, <2>3, BelowPointwise
<1>8. ASSUME n # KeyLength PROVE Forks(keys, s)
  <2>1. n + 1 \in 0..KeyLength /\ Len(p) <= n + 1 /\ ~(n + 1 <= n) BY <1>0, <1>4, <1>8
  <2>2. ~Common(n + 1)
    <3>1. n + 1 \notin N BY <1>3, <2>1
    <3> HIDE DEF Common
    <3> QED BY <2>1, <3>1
  <2>3. PICK j \in Below(keys, p) : ~\A i \in 1..n + 1 : j[i] = k[i] BY <2>2
  <2>4. j \in KeyBits /\ j \in keys BY BelowPointwise
  <2>5. \A i \in 1..n : j[i] = k[i] BY <1>4
  <2>6. j[n + 1] # k[n + 1]
    <3>1. \A i \in 1..n + 1 : i \in 1..n \/ i = n + 1 BY <1>4
    <3> QED BY <2>3, <2>5, <3>1
  <2>7. n + 1 \in 1..KeyLength BY <1>4, <2>1
  <2>8. j[n + 1] \in Bit /\ k[n + 1] \in Bit BY <1>1, <2>4, <2>7, KeyBitsType
  <2>9. ASSUME NEW l \in keys, l \in KeyBits, \A i \in 1..n : l[i] = k[i], l[n + 1] \in Bit
        PROVE l \in Below(keys, s \o <<l[n + 1]>>)
    <3> DEFINE b == l[n + 1]
               t == s \o <<b>>
    <3>1. t \in Seq(Bit) /\ Len(t) = n + 1 /\ (\A i \in 1..n : t[i] = s[i]) /\ t[n + 1] = b
      <4>1. b \in Bit BY <2>9
      <4> HIDE DEF b
      <4> QED BY <1>5, <4>1, Extended
    <3> HIDE DEF t
    <3>2. \A i \in 1..n + 1 : i \in 1..n \/ i = n + 1 BY <1>4
    <3>3. \A i \in 1..n + 1 : t[i] = l[i] BY <1>5, <2>9, <3>1, <3>2
    <3>4. l \in Below(keys, t) BY <2>1, <3>1, <3>3, BelowPointwise
    <3> QED BY <3>4 DEF t
  <2>10. j \in Below(keys, s \o <<j[n + 1]>>) BY <2>4, <2>5, <2>8, <2>9
  <2>11. k \in Below(keys, s \o <<k[n + 1]>>) BY <1>1, <2>8, <2>9
  <2>12. (j[n + 1] = 0 /\ k[n + 1] = 1) \/ (j[n + 1] = 1 /\ k[n + 1] = 0) BY <2>6, <2>8 DEF Bit
  <2> QED BY <2>10, <2>11, <2>12 DEF Forks
<1>9. Below(keys, s) = Below(keys, p) BY <1>6, <1>7
<1>10. n \in Len(p)..KeyLength BY <1>0, <1>4
<1> QED BY <1>8, <1>9, <1>10 DEF s

(* The stem of a cell is the common prefix of the keys below it, and ends  *)
(* where they part.                                                        *)
LEMMA StemIsStem ==
  ASSUME NEW keys \in SUBSET KeyBits, NEW p \in Seq(Bit), Below(keys, p) # {}
  PROVE IsStem(keys, p, Stem(keys, p))
<1>0. KeyLength \in Nat /\ Len(p) \in Nat BY KeyLengthType, LenProperties
<1> DEFINE Cand == { SubSeq(j, 1, n) : j \in Below(keys, p), n \in Len(p)..KeyLength }
           Good(s) == Below(keys, s) = Below(keys, p) /\ (Len(s) = KeyLength \/ Forks(keys, s))
<1>1. \E s \in Cand : Good(s)
  <2>1. PICK k \in Below(keys, p) : TRUE OBVIOUS
  <2>2. PICK n \in Len(p)..KeyLength :
          /\ Below(keys, SubSeq(k, 1, n)) = Below(keys, p)
          /\ n = KeyLength \/ Forks(keys, SubSeq(k, 1, n))
    BY StemExists
  <2>3. Len(SubSeq(k, 1, n)) = n
    <3>1. n \in 0..KeyLength /\ k \in KeyBits BY <1>0, BelowPointwise
    <3> QED BY <3>1, FirstBits
  <2>4. SubSeq(k, 1, n) \in Cand OBVIOUS
  <2>5. Good(SubSeq(k, 1, n)) BY <2>2, <2>3
  <2> HIDE DEF Cand, Good
  <2> QED BY <2>4, <2>5
<1> DEFINE stem == Stem(keys, p)
<1>2. stem \in Cand /\ Good(stem)
  <2>1. stem = CHOOSE s \in Cand : Good(s) BY DEF Stem
  <2> HIDE DEF Cand, Good, stem
  <2> QED BY <1>1, <2>1
<1>3. PICK j \in Below(keys, p), n \in Len(p)..KeyLength : stem = SubSeq(j, 1, n) BY <1>2
<1>4. j \in KeyBits /\ (\A i \in 1..Len(p) : p[i] = j[i]) /\ n \in 0..KeyLength /\ Len(p) <= n
  BY <1>0, BelowPointwise
<1> HIDE DEF stem
<1>5. stem \in Seq(Bit) /\ Len(stem) = n /\ \A i \in 1..n : stem[i] = j[i] BY <1>3, <1>4, FirstBits
<1>6. \A i \in 1..Len(p) : stem[i] = p[i]
  <2>1. \A i \in 1..Len(p) : i \in 1..n BY <1>0, <1>4
  <2> QED BY <1>4, <1>5, <2>1
<1>7. IsStem(keys, p, stem) BY <1>0, <1>2, <1>4, <1>5, <1>6 DEF IsStem
<1> QED BY <1>7 DEF stem

(* A cell is named by at most a key, and there are keys below it. *)
LEMMA CellNameType ==
  ASSUME NEW keys \in SUBSET KeyBits, keys # {}, NEW p \in CellNames(keys)
  PROVE p \in Seq(Bit) /\ Len(p) <= KeyLength /\ Below(keys, p) # {}
<1>0. KeyLength \in Nat BY KeyLengthType
<1>1. CASE p = <<>>
  <2>1. <<>> \in Seq(Bit) /\ Len(<<>>) = 0 BY EmptySeq
  <2>2. \A i \in 1..0 : FALSE OBVIOUS
  <2>3. PICK k : k \in keys OBVIOUS
  <2>4. Len(<<>>) <= KeyLength /\ \A i \in 1..Len(<<>>) : <<>>[i] = k[i] BY <1>0, <2>1, <2>2
  <2>5. k \in Below(keys, <<>>) BY <2>1, <2>3, <2>4, BelowPointwise, Zenon
  <2> QED BY <1>0, <1>1, <2>1, <2>5
<1>2. ASSUME NEW k \in keys, NEW n \in 1..KeyLength, p = SubSeq(k, 1, n)
      PROVE p \in Seq(Bit) /\ Len(p) <= KeyLength /\ Below(keys, p) # {}
  <2>1. k \in KeyBits /\ n \in 0..KeyLength BY <1>0
  <2>2. p \in Seq(Bit) /\ Len(p) = n /\ IsPrefix(p, k) BY <1>2, <2>1, FirstBits
  <2> QED BY <1>0, <2>2 DEF Below
<1>3. p = <<>> \/ \E k \in keys : \E n \in 1..KeyLength : p = SubSeq(k, 1, n)
  BY DEF CellNames
<1> QED BY <1>1, <1>2, <1>3

(* Both halves of a fork are cells of the tree. *)
LEMMA ChildIsCell ==
  ASSUME NEW keys \in SUBSET KeyBits, NEW s \in Seq(Bit), Forks(keys, s), NEW b \in Bit
  PROVE s \o <<b>> \in CellNames(keys)
<1>0. KeyLength \in Nat /\ Len(s) \in Nat BY KeyLengthType, LenProperties
<1> DEFINE t == s \o <<b>>
<1>1. PICK k : k \in Below(keys, t)
  BY DEF Forks, Bit
<1>2. /\ t \in Seq(Bit) /\ Len(t) = Len(s) + 1
      /\ \A i \in 1..Len(s) : t[i] = s[i]
  BY Extended
<1> HIDE DEF t
<1>3. k \in keys /\ k \in KeyBits /\ Len(t) <= KeyLength /\ \A i \in 1..Len(t) : t[i] = k[i]
  BY <1>1, <1>2, BelowPointwise
<1>4. Len(t) \in 0..KeyLength /\ Len(t) \in 1..KeyLength BY <1>0, <1>2, <1>3
<1>5. t = SubSeq(k, 1, Len(t))
  <2> DEFINE u == SubSeq(k, 1, Len(t))
  <2>1. u \in Seq(Bit) /\ Len(u) = Len(t) /\ \A i \in 1..Len(t) : u[i] = k[i] BY <1>3, <1>4, FirstBits
  <2> HIDE DEF u
  <2>2. t = u BY <1>2, <1>3, <2>1, SeqEqual
  <2> QED BY <2>2 DEF u
<1>6. Front(t) = s
  <2>1. \A i \in 1..Len(s) : t[0 + i] = s[i] BY <1>2
  <2>2. SubSeq(t, 0 + 1, 0 + Len(s)) = s BY <2>1, Window
  <2>3. 0 + 1 = 1 /\ 0 + Len(s) = Len(t) - 1 BY <1>0, <1>2
  <2> QED BY <2>2, <2>3 DEF Front
<1>7. t \in UNION { { SubSeq(l, 1, n) : n \in 1..KeyLength } : l \in keys }
  <2> DEFINE Starts(l) == { SubSeq(l, 1, n) : n \in 1..KeyLength }
  <2>1. t \in Starts(k) BY <1>4, <1>5
  <2>2. Starts(k) \in { Starts(l) : l \in keys } BY <1>3
  <2> QED BY <2>1, <2>2
<1>8. t \in CellNames(keys) BY <1>6, <1>7 DEF CellNames
<1> QED BY <1>8 DEF t
-----------------------------------------------------------------------------
(***************************************************************************)
(* Types: walk returns a result whatever the cursors are.                  *)
(***************************************************************************)
(* A label was read or was not. *)
ReadResult(r) ==
  \/ r = LabelError
  \/ \E label \in Seq(Bit), pos \in Nat : r = LabelRead(label, pos)

(* LabelFollows reads a label or fails, wherever it starts. *)
LEMMA LabelFollowsType ==
  ASSUME NEW bits, NEW pos \in Nat, NEW n \in Nat, Len(bits) \in Nat
  PROVE ReadResult(LabelFollows(bits, pos, n))
<1>1. CASE ~BitsAt(bits, pos, n) BY <1>1 DEF LabelFollows, ReadResult
<1>2. CASE BitsAt(bits, pos, n)
  <2>1. \A i \in pos + 1..pos + n : bits[i] \in Bit BY <1>2 DEF BitsAt
  <2>2. SubSeq(bits, pos + 1, pos + n) \in Seq(Bit) BY <2>1, SubSeqProperties
  <2>3. pos + n \in Nat OBVIOUS
  <2>4. LabelFollows(bits, pos, n) = LabelRead(SubSeq(bits, pos + 1, pos + n), pos + n)
    BY <1>2 DEF LabelFollows
  <2> QED BY <2>2, <2>3, <2>4 DEF ReadResult
<1> QED BY <1>1, <1>2

(* ReadShort reads a label or fails, wherever it starts. *)
LEMMA ReadShortType ==
  ASSUME NEW bits, NEW pos \in Nat, Len(bits) \in Nat
  PROVE ReadResult(ReadShort(bits, pos))
<1> DEFINE zeros == { i \in pos + 1..Len(bits) : bits[i] = 0 }
           n == Min(zeros) - pos - 1
<1>1. CASE ~(zeros # {} /\ BitsAt(bits, pos, n)) BY <1>1 DEF ReadShort, ReadResult
<1>2. CASE zeros # {} /\ BitsAt(bits, pos, n)
  <2>1. zeros \in SUBSET Nat /\ \A i \in zeros : pos + 1 <= i OBVIOUS
  <2>2. PICK m \in zeros : \A i \in zeros : m <= i
    <3> HIDE DEF zeros
    <3> QED BY <1>2, <2>1, Least
  <2>3. Min(zeros) = m
    <3> HIDE DEF zeros
    <3>1. zeros \in SUBSET Int BY <2>1
    <3> QED BY <2>2, <3>1, MinOf
  <2>4. n \in Nat /\ pos + n + 1 \in Nat BY <2>1, <2>2, <2>3
  <2>5. ReadShort(bits, pos) = LabelFollows(bits, pos + n + 1, n) BY <1>2 DEF ReadShort
  <2> HIDE DEF n
  <2> QED BY <2>4, <2>5, LabelFollowsType
<1> QED BY <1>1, <1>2

(* ReadLong reads a label or fails, wherever it starts. *)
LEMMA ReadLongType ==
  ASSUME NEW size \in Int, size <= KeyLength, NEW bits, NEW pos \in Nat, Len(bits) \in Nat
  PROVE ReadResult(ReadLong(size, bits, pos))
<1>1. PICK w \in Nat : w = Width(size) BY WidthBound
<1>2. CASE ~BitsAt(bits, pos, w) BY <1>1, <1>2 DEF ReadLong, ReadResult
<1>3. CASE BitsAt(bits, pos, w)
  <2>1. Value(bits, pos, w) \in Nat BY <1>3, ValueType DEF BitsAt
  <2>2. ReadLong(size, bits, pos) = LabelFollows(bits, pos + w, Value(bits, pos, w))
    BY <1>1, <1>3 DEF ReadLong
  <2> QED BY <2>1, <2>2, LabelFollowsType
<1> QED BY <1>2, <1>3

(* ReadSame reads a label or fails, wherever it starts. *)
LEMMA ReadSameType ==
  ASSUME NEW size \in Int, size <= KeyLength, NEW bits, NEW pos \in Nat, Len(bits) \in Nat
  PROVE ReadResult(ReadSame(size, bits, pos))
<1>1. PICK w \in Nat : w = Width(size) BY WidthBound
<1>2. CASE ~BitsAt(bits, pos, w + 1) BY <1>1, <1>2 DEF ReadSame, ReadResult
<1>3. CASE BitsAt(bits, pos, w + 1)
  <2>1. \A i \in pos + 1..pos + (w + 1) : bits[i] \in Bit BY <1>3 DEF BitsAt
  <2>2. pos + 1 \in pos + 1..pos + (w + 1) OBVIOUS
  <2>3. \A i \in (pos + 1) + 1..(pos + 1) + w : i \in pos + 1..pos + (w + 1) OBVIOUS
  <2>4. Value(bits, pos + 1, w) \in Nat BY <2>1, <2>3, ValueType
  <2>5. Repeat(bits[pos + 1], Value(bits, pos + 1, w)) \in Seq(Bit)
    BY <2>1, <2>2, <2>4, RepeatType
  <2>6. ReadSame(size, bits, pos)
          = LabelRead(Repeat(bits[pos + 1], Value(bits, pos + 1, w)), pos + w + 1)
    BY <1>1, <1>3 DEF ReadSame
  <2>7. pos + w + 1 \in Nat OBVIOUS
  <2> QED BY <2>5, <2>6, <2>7 DEF ReadResult
<1> QED BY <1>2, <1>3

(* readCommonPrefix reads a label or fails, wherever the cursor is. *)
LEMMA ReadType ==
  ASSUME NEW size \in Int, size <= KeyLength, NEW bits, NEW pos \in Nat, Len(bits) \in Nat
  PROVE ReadResult(readCommonPrefix(size, bits, pos))
<1>1. pos + 1 \in Nat /\ pos + 2 \in Nat OBVIOUS
<1>2. ReadResult(ReadShort(bits, pos + 1)) BY <1>1, ReadShortType
<1>3. ReadResult(ReadLong(size, bits, pos + 2)) BY <1>1, ReadLongType
<1>4. ReadResult(ReadSame(size, bits, pos + 2)) BY <1>1, ReadSameType
<1>5. ReadResult(LabelError) BY DEF ReadResult
<1>6. \/ readCommonPrefix(size, bits, pos) = LabelError
      \/ readCommonPrefix(size, bits, pos) = ReadShort(bits, pos + 1)
      \/ readCommonPrefix(size, bits, pos) = ReadLong(size, bits, pos + 2)
      \/ readCommonPrefix(size, bits, pos) = ReadSame(size, bits, pos + 2)
  BY DEF readCommonPrefix
<1> QED BY <1>2, <1>3, <1>4, <1>5, <1>6

(* The last bits of a key are an account. *)
LEMMA AccountOfType ==
  ASSUME NEW bits \in Seq(Bit), Len(bits) = KeyLength
  PROVE AccountOf(bits) \in Accounts
<1>0. KeyLength \in Nat /\ AccountBits \in Nat /\ KeyLength = 2 + AccountBits
  BY WalkAssumption DEF KeyLength
<1>1. \A i \in 3..KeyLength : bits[i] \in Bit BY <1>0, ElementOfSeq
<1> DEFINE s == SubSeq(bits, 3, KeyLength)
<1>2. s \in Seq(Bit) /\ Len(s) = IF 3 <= KeyLength THEN KeyLength - 3 + 1 ELSE 0
  BY <1>0, <1>1, SubSeqProperties
<1> HIDE DEF s
<1>3. Len(s) = AccountBits BY <1>0, <1>2
<1>4. s \in [1..AccountBits -> Bit] BY <1>2, <1>3, LenProperties
<1> QED BY <1>4 DEF AccountOf, Accounts, s

(* Cells lead to longer names, so that every walk ends. *)
TypedTree(tree) ==
  \A p \in DOMAIN tree :
    /\ Len(p) \in 0..KeyLength
    /\ Len(tree[p].bits) \in Nat
    /\ Len(tree[p].refs) \in Nat
    /\ \A i \in 1..Len(tree[p].refs) :
         tree[p].refs[i] \in DOMAIN tree /\ Len(p) < Len(tree[p].refs[i])

(* What walk returns. *)
Results(tree) == [ok : BOOLEAN, accounts : Seq(Accounts), cursors : Cursors(tree)]

(* Both ways of making a result make one. *)
LEMMA ResultTypes ==
  ASSUME NEW tree, NEW c \in Cursors(tree), NEW a \in Seq(Accounts)
  PROVE Found(a, c) \in Results(tree) /\ WalkError(c) \in Results(tree)
BY EmptySeq DEF Found, WalkError, Results

(* A leaf returns a result. *)
LEMMA LeafType ==
  ASSUME NEW tree, NEW startKey, NEW bits \in Seq(Bit), NEW p \in DOMAIN tree,
         NEW c \in Cursors(tree)
  PROVE Leaf(tree, startKey, bits, p, c) \in Results(tree)
<1>1. <<>> \in Seq(Accounts) BY EmptySeq
<1>2. Found(<<>>, c) \in Results(tree) /\ WalkError(c) \in Results(tree) BY <1>1, ResultTypes
<1>3. ASSUME IsKey(bits)
      PROVE Found(<<AccountOf(bits)>>, [c EXCEPT ![p].bit = c[p].bit + 1]) \in Results(tree)
  <2>1. AccountOf(bits) \in Accounts BY <1>3, AccountOfType DEF IsKey
  <2>2. <<AccountOf(bits)>> \in Seq(Accounts) BY <2>1
  <2>3. [c EXCEPT ![p].bit = c[p].bit + 1] \in Cursors(tree) BY DEF Cursors
  <2> QED BY <2>2, <2>3, ResultTypes
<1>4. \/ Leaf(tree, startKey, bits, p, c) = Found(<<>>, c)
      \/ Leaf(tree, startKey, bits, p, c) = WalkError(c)
      \/ IsKey(bits) /\ Leaf(tree, startKey, bits, p, c)
           = Found(<<AccountOf(bits)>>, [c EXCEPT ![p].bit = c[p].bit + 1])
  BY DEF Leaf
<1> QED BY <1>2, <1>3, <1>4

(* A reference leads to a cell with a longer name: walk ends. *)
LEMMA NextRefType ==
  ASSUME NEW tree, TypedTree(tree), NEW p \in DOMAIN tree, NEW c \in Cursors(tree)
  PROVE /\ NextRef(tree, p, c).ok \in BOOLEAN
        /\ NextRef(tree, p, c).cursors \in Cursors(tree)
        /\ NextRef(tree, p, c).ok =>
             /\ NextRef(tree, p, c).cell \in DOMAIN tree
             /\ Len(p) < Len(NextRef(tree, p, c).cell)
<1>1. c[p].ref + 1 \in Nat /\ c[p].ref + 1 >= 1 BY DEF Cursors
<1>2. CASE c[p].ref + 1 <= Len(tree[p].refs)
  <2>1. c[p].ref + 1 \in 1..Len(tree[p].refs) BY <1>1, <1>2 DEF TypedTree
  <2>2. [c EXCEPT ![p].ref = c[p].ref + 1] \in Cursors(tree) BY <1>1 DEF Cursors
  <2>3. NextRef(tree, p, c) = [ok |-> TRUE, cell |-> tree[p].refs[c[p].ref + 1],
                               cursors |-> [c EXCEPT ![p].ref = c[p].ref + 1]]
    BY <1>2 DEF NextRef
  <2> QED BY <2>1, <2>2, <2>3 DEF TypedTree
<1>3. CASE ~(c[p].ref + 1 <= Len(tree[p].refs))
  BY <1>3 DEF NextRef
<1> QED BY <1>2, <1>3

(* g and h are the same function, and typed, below the cell p. *)
Agree(g, h, tree, p) ==
  \A y \in Visits(tree) : Len(p) < Len(y.cell) => g[y] = h[y] /\ g[y] \in Results(tree)

(* Branches asks w only for cells with longer names than its own. *)
LEMMA BranchesLocal ==
  ASSUME NEW tree, TypedTree(tree), NEW startKey, NEW bits \in Seq(Bit), NEW p \in DOMAIN tree,
         NEW count \in Int, NEW c \in Cursors(tree), NEW g, NEW h, Agree(g, h, tree, p)
  PROVE /\ Branches(g, tree, startKey, bits, p, count, c)
             = Branches(h, tree, startKey, bits, p, count, c)
        /\ Branches(g, tree, startKey, bits, p, count, c) \in Results(tree)
<1> DEFINE first == NextRef(tree, p, c)
           skip == SkipLeft(startKey, bits)
           lvisit == Visit(addBit(bits, 0), first.cell, count, first.cursors)
           left(w) == IF skip THEN Found(<<>>, first.cursors) ELSE w[lvisit]
           second(w) == NextRef(tree, p, left(w).cursors)
           rvisit(w) == Visit(addBit(bits, 1), second(w).cell,
                              count - Len(left(w).accounts), second(w).cursors)
           right(w) == w[rvisit(w)]
           result(w) ==
             CASE ~first.ok -> WalkError(c)
               [] first.ok /\ ~left(w).ok -> left(w)
               [] first.ok /\ left(w).ok /\ ~skip /\ Enough(left(w).accounts, count) -> left(w)
               [] OTHER ->
                    IF ~second(w).ok THEN WalkError(left(w).cursors)
                    ELSE IF ~right(w).ok THEN right(w)
                    ELSE Found(left(w).accounts \o right(w).accounts, right(w).cursors)
<1>1. \A w : Branches(w, tree, startKey, bits, p, count, c) = result(w)
  BY DEF Branches
<1>2. /\ first.ok \in BOOLEAN /\ first.cursors \in Cursors(tree)
      /\ first.ok => first.cell \in DOMAIN tree /\ Len(p) < Len(first.cell)
  BY NextRefType
<1>3. addBit(bits, 0) \in Seq(Bit) /\ addBit(bits, 1) \in Seq(Bit)
  BY Extended DEF addBit, Bit
<1>4. WalkError(c) \in Results(tree) BY EmptySeq, ResultTypes
<1>5. CASE ~first.ok
  <2>1. \A w : result(w) = WalkError(c) BY <1>5
  <2> QED BY <1>1, <1>4, <2>1
<1>6. CASE first.ok
  <2>1. lvisit \in Visits(tree) /\ lvisit.cell = first.cell
    BY <1>2, <1>3, <1>6 DEF Visit, Visits
  <2>2. left(g) = left(h) /\ left(g) \in Results(tree)
    <3>1. CASE skip
      <4>1. <<>> \in Seq(Accounts) BY EmptySeq
      <4>2. Found(<<>>, first.cursors) \in Results(tree) BY <1>2, <4>1, ResultTypes
      <4> QED BY <3>1, <4>2
    <3>2. CASE ~skip
      <4> HIDE DEF lvisit, first
      <4>1. g[lvisit] = h[lvisit] /\ g[lvisit] \in Results(tree) BY <1>2, <1>6, <2>1 DEF Agree
      <4> QED BY <3>2, <4>1
    <3> QED BY <3>1, <3>2
  <2> DEFINE l == left(g)
  <2>3. l \in Results(tree) /\ l = left(h) BY <2>2
  <2>4. l.ok \in BOOLEAN /\ l.accounts \in Seq(Accounts) /\ l.cursors \in Cursors(tree)
    <3> HIDE DEF l
    <3> QED BY <2>3 DEF Results
  <2> HIDE DEF left, l, first
  <2> DEFINE s == NextRef(tree, p, l.cursors)
             v == Visit(addBit(bits, 1), s.cell, count - Len(l.accounts), s.cursors)
  <2>5. second(g) = s /\ second(h) = s /\ rvisit(g) = v /\ rvisit(h) = v
    BY <2>3 DEF l
  <2>6. /\ s.ok \in BOOLEAN /\ s.cursors \in Cursors(tree)
        /\ s.ok => s.cell \in DOMAIN tree /\ Len(p) < Len(s.cell)
    BY <2>4, NextRefType
  <2>7. ASSUME s.ok PROVE g[v] = h[v] /\ g[v] \in Results(tree)
    <3>1. count - Len(l.accounts) \in Int BY <2>4, LenProperties
    <3>2. v \in Visits(tree) /\ v.cell = s.cell
      <4> HIDE DEF s
      <4> QED BY <1>3, <2>6, <2>7, <3>1 DEF Visit, Visits
    <3> HIDE DEF v, s
    <3> QED BY <2>6, <2>7, <3>2 DEF Agree
  <2>8. ASSUME s.ok, g[v].ok PROVE Found(l.accounts \o g[v].accounts, g[v].cursors) \in Results(tree)
    <3> DEFINE r == g[v]
    <3>1. r \in Results(tree) BY <2>7, <2>8
    <3> HIDE DEF r
    <3>2. r.accounts \in Seq(Accounts) /\ r.cursors \in Cursors(tree) BY <3>1 DEF Results
    <3>3. l.accounts \o r.accounts \in Seq(Accounts) BY <2>4, <3>2, ConcatProperties
    <3>4. Found(l.accounts \o r.accounts, r.cursors) \in Results(tree) BY <3>2, <3>3, ResultTypes
    <3> QED BY <3>4 DEF r
  <2>9. WalkError(l.cursors) \in Results(tree) BY <2>4, EmptySeq, ResultTypes
  <2> DEFINE out(w) ==
        CASE ~l.ok -> l
          [] l.ok /\ ~skip /\ Enough(l.accounts, count) -> l
          [] OTHER ->
               IF ~s.ok THEN WalkError(l.cursors)
               ELSE IF ~w[v].ok THEN w[v]
               ELSE Found(l.accounts \o w[v].accounts, w[v].cursors)
  <2>10. result(g) = out(g) /\ result(h) = out(h)
    <3> HIDE DEF s, v, second, rvisit, skip
    <3>1. left(g) = l /\ left(h) = l BY <2>3 DEF l
    <3> QED BY <1>6, <2>5, <3>1
  <2>11. out(g) = out(h) /\ out(g) \in Results(tree)
    <3> HIDE DEF s, v, skip
    <3> QED BY <2>3, <2>4, <2>6, <2>7, <2>8, <2>9
  <2> HIDE DEF out, result
  <2> QED BY <1>1, <2>10, <2>11
<1> QED BY <1>2, <1>5, <1>6
-----------------------------------------------------------------------------
(***************************************************************************)
(* The recursion of walk has a solution, which is walk.                    *)
(***************************************************************************)
(* So does WalkCell, whatever the cursors it is given. *)
LEMMA WalkCellLocal ==
  ASSUME NEW tree, TypedTree(tree), NEW startKey \in KeyBits, NEW x \in Visits(tree),
         NEW g, NEW h, Agree(g, h, tree, x.cell)
  PROVE /\ WalkCell(g, tree, startKey, x) = WalkCell(h, tree, startKey, x)
        /\ WalkCell(g, tree, startKey, x) \in Results(tree)
<1> DEFINE p == x.cell
           size == Len(startKey) - Len(x.prefix)
           read == readCommonPrefix(size, tree[p].bits, x.cursors[p].bit)
           bits == concatBitStrings(x.prefix, read.label)
           cur == [x.cursors EXCEPT ![p].bit = read.pos]
           result(w) ==
             CASE ~read.ok -> WalkError(x.cursors)
               [] read.ok /\ Len(read.label) = size -> Leaf(tree, startKey, bits, p, cur)
               [] OTHER ->
                    CASE compareBitStrings(startKey, bits) = "error" -> WalkError(cur)
                      [] compareBitStrings(startKey, bits) = "greater" -> Found(<<>>, cur)
                      [] OTHER -> Branches(w, tree, startKey, bits, p, x.count, cur)
<1>1. \A w : WalkCell(w, tree, startKey, x) = result(w) BY DEF WalkCell
<1>2. /\ x.prefix \in Seq(Bit) /\ p \in DOMAIN tree /\ x.count \in Int
      /\ x.cursors \in Cursors(tree)
  BY DEF Visits
<1>3. size \in Int /\ size <= KeyLength
  BY <1>2, LenProperties, KeyBitsType, KeyLengthType
<1>4. Len(tree[p].bits) \in Nat /\ x.cursors[p].bit \in Nat
  BY <1>2 DEF TypedTree, Cursors
<1>5. ReadResult(read)
  <2> HIDE DEF size, p
  <2> QED BY <1>3, <1>4, ReadType
<1> HIDE DEF result
<1>6. CASE read = LabelError
  <2>1. ~read.ok BY <1>6 DEF LabelError
  <2>2. \A w : result(w) = WalkError(x.cursors)
    <3> HIDE DEF read, bits, cur
    <3> QED BY <2>1 DEF result
  <2>3. WalkError(x.cursors) \in Results(tree) BY <1>2, EmptySeq, ResultTypes
  <2> QED BY <1>1, <2>2, <2>3
<1>7. ASSUME NEW label \in Seq(Bit), NEW pos \in Nat, read = LabelRead(label, pos)
      PROVE /\ result(g) = result(h)
            /\ result(g) \in Results(tree)
  <2>1. read.ok /\ read.label = label /\ read.pos = pos BY <1>7 DEF LabelRead
  <2>2. bits \in Seq(Bit)
    <3> HIDE DEF read
    <3> QED BY <1>2, <2>1, ConcatProperties DEF concatBitStrings
  <2>3. cur \in Cursors(tree)
    <3> HIDE DEF read
    <3> QED BY <1>2, <2>1 DEF Cursors
  <2> HIDE DEF read, bits, cur, p
  <2>4. Leaf(tree, startKey, bits, p, cur) \in Results(tree) BY <1>2, <2>2, <2>3, LeafType
  <2>5. WalkError(cur) \in Results(tree) /\ Found(<<>>, cur) \in Results(tree)
    BY <2>3, EmptySeq, ResultTypes
  <2>6. /\ Branches(g, tree, startKey, bits, p, x.count, cur)
             = Branches(h, tree, startKey, bits, p, x.count, cur)
        /\ Branches(g, tree, startKey, bits, p, x.count, cur) \in Results(tree)
    <3>1. Agree(g, h, tree, p) BY DEF p
    <3> QED BY <1>2, <2>2, <2>3, <3>1, BranchesLocal
  <2> QED BY <2>1, <2>4, <2>5, <2>6 DEF result
<1> QED BY <1>1, <1>5, <1>6, <1>7 DEF ReadResult

(* There is a function with the equation of walk: the one made cell by cell*)
(* from the longest names up.                                              *)
LEMMA WalkExists ==
  ASSUME NEW tree, TypedTree(tree), NEW startKey \in KeyBits
  PROVE \E w : /\ w = [x \in Visits(tree) |-> WalkCell(w, tree, startKey, x)]
               /\ \A x \in Visits(tree) : w[x] \in Results(tree)
<1> DEFINE D == Visits(tree)
           Body(w, x) == WalkCell(w, tree, startKey, x)
           Deep(x, n) == KeyLength - Len(x.cell) < n
           Solves(w, n) == \A x \in D : Deep(x, n) => w[x] = Body(w, x) /\ w[x] \in Results(tree)
           S == { n \in Nat : \E w : Solves(w, n) }
<1>0. KeyLength \in Nat BY KeyLengthType
<1>1. \A x \in D : x.cell \in DOMAIN tree /\ Len(x.cell) \in 0..KeyLength
  BY DEF TypedTree, Visits
<1>2. ASSUME NEW n \in Nat, NEW w, Solves(w, n)
      PROVE /\ Solves([x \in D |-> Body(w, x)], n + 1)
            /\ \A x \in D : Deep(x, n + 1) => Body([y \in D |-> Body(w, y)], x) = Body(w, x)
  <2> DEFINE h == [x \in D |-> Body(w, x)]
  <2>1. ASSUME NEW x \in D, Deep(x, n + 1)
        PROVE Body(h, x) = Body(w, x) /\ Body(w, x) \in Results(tree)
    <3>1. ASSUME NEW y \in D, Len(x.cell) < Len(y.cell)
          PROVE w[y] = h[y] /\ w[y] \in Results(tree)
      <4>1. Len(x.cell) \in Nat /\ Len(y.cell) \in Nat BY <1>1
      <4>2. Deep(y, n) BY <1>0, <2>1, <3>1, <4>1
      <4>3. w[y] = Body(w, y) /\ w[y] \in Results(tree) BY <1>2, <4>2
      <4>4. h[y] = Body(w, y) OBVIOUS
      <4> QED BY <4>3, <4>4
    <3> HIDE DEF h
    <3>2. Agree(w, h, tree, x.cell) BY <3>1 DEF Agree
    <3> QED BY <3>2, WalkCellLocal
  <2>2. ASSUME NEW x \in D, Deep(x, n + 1)
        PROVE h[x] = Body(h, x) /\ h[x] \in Results(tree)
    <3>1. h[x] = Body(w, x) OBVIOUS
    <3> HIDE DEF h, Body
    <3> QED BY <2>1, <2>2, <3>1
  <2>3. Solves(h, n + 1)
    <3> HIDE DEF h, Body, Deep, D
    <3> QED BY <2>2
  <2>4. \A x \in D : Deep(x, n + 1) => Body(h, x) = Body(w, x)
    <3> HIDE DEF h, Body, Deep, D
    <3> QED BY <2>1
  <2> QED BY <2>3, <2>4
<1>3. 0 \in S
  <2>1. \A x \in D : ~Deep(x, 0) BY <1>0, <1>1
  <2>2. \A w : Solves(w, 0)
    <3> HIDE DEF Deep, D
    <3> QED BY <2>1
  <2> QED BY <2>2
<1>4. ASSUME NEW n \in S PROVE n + 1 \in S
  <2>1. n \in Nat /\ n + 1 \in Nat OBVIOUS
  <2>2. PICK w : Solves(w, n) OBVIOUS
  <2> HIDE DEF Solves, Body, D
  <2>3. Solves([x \in D |-> Body(w, x)], n + 1) BY <1>2, <2>1, <2>2
  <2> QED BY <2>1, <2>3
<1>5. S = Nat
  <2> HIDE DEF S
  <2>1. S \in SUBSET Nat BY DEF S
  <2> QED BY <1>3, <1>4, <2>1, Induct
<1>6. \A x \in D, n \in Nat : n > KeyLength => Deep(x, n) BY <1>0, <1>1
<1>7. PICK w : Solves(w, KeyLength + 1)
  <2> HIDE DEF Solves
  <2>1. KeyLength + 1 \in S
    <3> HIDE DEF S
    <3> QED BY <1>0, <1>5
  <2> QED BY <2>1
<1> DEFINE h == [x \in D |-> Body(w, x)]
<1>8. \A x \in D : Body(h, x) = Body(w, x) /\ h[x] \in Results(tree)
  <2>1. KeyLength + 1 \in Nat /\ (KeyLength + 1) + 1 \in Nat
        /\ KeyLength + 1 > KeyLength /\ (KeyLength + 1) + 1 > KeyLength BY <1>0
  <2>2. \A x \in D : Deep(x, (KeyLength + 1) + 1) BY <1>6, <2>1
  <2> HIDE DEF Deep, Body, D
  <2>3. /\ Solves(h, (KeyLength + 1) + 1)
        /\ \A x \in D : Deep(x, (KeyLength + 1) + 1) => Body(h, x) = Body(w, x)
    BY <1>2, <1>7, <2>1
  <2> QED BY <2>2, <2>3
<1>9. h = [x \in D |-> Body(h, x)]
  <2>1. \A x \in D : Body(h, x) = Body(w, x) BY <1>8
  <2> DEFINE E(x) == Body(h, x)
  <2>2. [x \in D |-> E(x)] = [x \in D |-> Body(w, x)]
    <3>1. \A x \in D : E(x) = Body(w, x) BY <2>1
    <3> HIDE DEF E, Body, D
    <3> QED BY <3>1
  <2> QED BY <2>2
<1> QED BY <1>8, <1>9

(* walk does what its body says, for every tree of cells whose references  *)
(* lead to longer names and every state of the cursors. walk is a CHOOSE   *)
(* over the functions with its equation, so this is what makes the         *)
(* recursion mean anything.                                                *)
LEMMA WalkUnfolds ==
  ASSUME NEW tree, TypedTree(tree), NEW startKey \in KeyBits, NEW x \in Visits(tree)
  PROVE walk(tree, startKey)[x] = WalkCell(walk(tree, startKey), tree, startKey, x)
<1> DEFINE F(w) == [v \in Visits(tree) |-> WalkCell(w, tree, startKey, v)]
<1>1. walk(tree, startKey) = CHOOSE w : w = F(w) BY DEF walk
<1>2. \E w : w = F(w) BY WalkExists
<1>3. walk(tree, startKey) = F(walk(tree, startKey))
  <2> HIDE DEF F
  <2> QED BY <1>1, <1>2
<1> QED BY <1>3
-----------------------------------------------------------------------------
(***************************************************************************)
(* Starts of sorted sets of accounts.                                      *)
(***************************************************************************)
(* compareBitStrings is the order of the keys, seen from a prefix. *)
LEMMA Compare ==
  ASSUME NEW k \in KeyBits, NEW s \in Seq(Bit), Len(s) <= KeyLength
  PROVE \/ /\ compareBitStrings(k, s) = "less"
           /\ \A j \in KeyBits : (\A i \in 1..Len(s) : j[i] = s[i]) => Precedes(k, j)
        \/ /\ compareBitStrings(k, s) = "greater"
           /\ \A j \in KeyBits : (\A i \in 1..Len(s) : j[i] = s[i]) => Precedes(j, k)
        \/ /\ compareBitStrings(k, s) = "starts with"
           /\ \A i \in 1..Len(s) : k[i] = s[i]
<1>0. KeyLength \in Nat /\ Len(s) \in Nat BY KeyLengthType, LenProperties
<1>1. DOMAIN k = 1..KeyLength /\ DOMAIN s = 1..Len(s) BY KeyBitsType, LenProperties
<1>2. DOMAIN k \cap DOMAIN s = 1..Len(s) BY <1>0, <1>1
<1> DEFINE differ == { i \in DOMAIN k \cap DOMAIN s : k[i] # s[i] }
<1>3. CASE differ = {}
  <2>1. \A i \in 1..Len(s) : k[i] = s[i] BY <1>2, <1>3
  <2>2. ~(Len(k) < Len(s)) BY <1>0, KeyBitsType
  <2>3. compareBitStrings(k, s) = "starts with" BY <1>3, <2>2 DEF compareBitStrings
  <2> QED BY <2>1, <2>3
<1>4. CASE differ # {}
  <2>1. differ \in SUBSET (1..Len(s)) BY <1>2
  <2>2. PICK m \in differ : \A i \in differ : m <= i
    <3> HIDE DEF differ
    <3>1. differ \in SUBSET Nat BY <1>0, <2>1
    <3> QED BY <1>4, <3>1, Least
  <2>3. Min(differ) = m
    <3> HIDE DEF differ
    <3>1. differ \in SUBSET Int BY <1>0, <2>1
    <3> QED BY <2>2, <3>1, MinOf
  <2>4. compareBitStrings(k, s) = IF k[m] = 0 THEN "less" ELSE "greater"
    BY <1>4, <2>3 DEF compareBitStrings
  <2>5. m \in 1..Len(s) /\ m \in 1..KeyLength /\ k[m] # s[m] BY <1>0, <2>1, <2>2
  <2>6. \A i \in 1..m - 1 : i \in 1..Len(s) /\ k[i] = s[i]
    <3> SUFFICES ASSUME NEW i \in 1..m - 1 PROVE i \in 1..Len(s) /\ k[i] = s[i] OBVIOUS
    <3>1. i \in 1..Len(s) /\ ~(m <= i) BY <1>0, <2>5
    <3> QED BY <1>2, <2>2, <3>1
  <2>7. k[m] \in {0, 1} /\ s[m] \in {0, 1} BY <2>5, KeyBitsType, ElementOfSeq DEF Bit
  <2> HIDE DEF differ
  <2>8. CASE k[m] = 0
    <3>1. s[m] = 1 BY <2>5, <2>7, <2>8
    <3>2. ASSUME NEW j \in KeyBits, \A i \in 1..Len(s) : j[i] = s[i] PROVE Precedes(k, j)
      <4>1. (\A i \in 1..m - 1 : k[i] = j[i]) /\ k[m] = 0 /\ j[m] = 1
        BY <2>5, <2>6, <2>8, <3>1, <3>2
      <4> QED BY <2>5, <4>1, PrecedesPointwise
    <3> QED BY <2>4, <2>8, <3>2
  <2>9. CASE k[m] = 1
    <3>1. s[m] = 0 BY <2>5, <2>7, <2>9
    <3>2. ASSUME NEW j \in KeyBits, \A i \in 1..Len(s) : j[i] = s[i] PROVE Precedes(j, k)
      <4>1. (\A i \in 1..m - 1 : j[i] = k[i]) /\ j[m] = 0 /\ k[m] = 1
        BY <2>5, <2>6, <2>9, <3>1, <3>2
      <4> QED BY <2>5, <4>1, PrecedesPointwise
    <3>3. compareBitStrings(k, s) = "greater" BY <2>4, <2>9
    <3> QED BY <3>2, <3>3
  <2> QED BY <2>7, <2>8, <2>9
<1> QED BY <1>3, <1>4

(* The accounts of s are in the order of their keys. *)
Increasing(s) ==
  \A i, j \in 1..Len(s) : i < j => Precedes(Key(s[i]), Key(s[j]))

(* s is the first n of the accounts S, or all of them. *)
FirstOf(s, S, n) ==
  /\ s \in Seq(S)
  /\ Increasing(s)
  /\ Len(s) <= n
  /\ \A a \in S : \/ \E i \in 1..Len(s) : s[i] = a
                  \/ Len(s) = n /\ \A i \in 1..Len(s) : Precedes(Key(s[i]), Key(a))

(* The first n of nothing. *)
LEMMA FirstOfNone ==
  ASSUME NEW n \in Nat
  PROVE FirstOf(<<>>, {}, n)
<1>1. <<>> \in Seq({}) /\ Len(<<>>) = 0 BY EmptySeq
<1>2. \A i \in 1..0 : FALSE OBVIOUS
<1> QED BY <1>1, <1>2 DEF FirstOf, Increasing

(* The first n of one account. *)
LEMMA FirstOfOne ==
  ASSUME NEW a, NEW n \in Nat \ {0}
  PROVE FirstOf(<<a>>, {a}, n)
<1> DEFINE s == <<a>>
<1>1. s \in Seq({a}) /\ Len(s) = 1 /\ s[1] = a OBVIOUS
<1> HIDE DEF s
<1>2. Increasing(s) BY <1>1 DEF Increasing
<1>3. 1 \in 1..Len(s) BY <1>1
<1>4. FirstOf(s, {a}, n) BY <1>1, <1>2, <1>3 DEF FirstOf
<1> QED BY <1>4 DEF s

(* If the left half gave n accounts, they are the first n of both halves. *)
LEMMA FirstOfFull ==
  ASSUME NEW S, NEW T, NEW s, NEW n \in Nat, FirstOf(s, S, n), Len(s) = n,
         \A a \in S, b \in T : Precedes(Key(a), Key(b))
  PROVE FirstOf(s, S \cup T, n)
<1>1. s \in Seq(S) /\ s \in Seq(S \cup T) BY SeqMonotonic DEF FirstOf
<1>2. \A i \in 1..Len(s) : s[i] \in S BY <1>1, ElementOfSeq
<1> QED BY <1>1, <1>2 DEF FirstOf

(* If it gave fewer, the right half is asked for the others. *)
LEMMA FirstOfConcat ==
  ASSUME NEW S, NEW T, NEW s, NEW t, NEW n \in Nat,
         FirstOf(s, S, n), Len(s) # n, FirstOf(t, T, n - Len(s)),
         \A a \in S, b \in T : Precedes(Key(a), Key(b))
  PROVE FirstOf(s \o t, S \cup T, n)
<1>1. s \in Seq(S) /\ s \in Seq(S \cup T) /\ t \in Seq(T) /\ t \in Seq(S \cup T)
  BY SeqMonotonic DEF FirstOf
<1>2. Len(s) \in Nat /\ Len(t) \in Nat /\ Len(s) < n /\ Len(t) <= n - Len(s)
  BY <1>1, LenProperties DEF FirstOf
<1> DEFINE u == s \o t
<1>3. /\ u \in Seq(S \cup T) /\ Len(u) = Len(s) + Len(t)
      /\ \A i \in 1..Len(s) + Len(t) : u[i] = IF i <= Len(s) THEN s[i] ELSE t[i - Len(s)]
  BY <1>1, ConcatProperties
<1> HIDE DEF u
<1>4. \A i \in 1..Len(s) : s[i] \in S BY <1>1, ElementOfSeq
<1>5. \A i \in 1..Len(t) : t[i] \in T BY <1>1, ElementOfSeq
<1>6. \A i \in 1..Len(s) : i \in 1..Len(u) /\ u[i] = s[i] BY <1>2, <1>3
<1>7. ASSUME NEW i \in 1..Len(t) PROVE i + Len(s) \in 1..Len(u) /\ u[i + Len(s)] = t[i]
  <2>1. /\ i + Len(s) \in 1..Len(s) + Len(t)
        /\ ~(i + Len(s) <= Len(s)) /\ (i + Len(s)) - Len(s) = i
    BY <1>2
  <2> QED BY <1>3, <2>1
<1>8. \A i \in 1..Len(u) : \/ i \in 1..Len(s) /\ u[i] = s[i]
                           \/ i - Len(s) \in 1..Len(t) /\ u[i] = t[i - Len(s)] /\ i > Len(s)
  BY <1>2, <1>3
<1>9. ASSUME NEW i \in 1..Len(u), NEW j \in 1..Len(u), i < j
      PROVE Precedes(Key(u[i]), Key(u[j]))
  <2>1. CASE j <= Len(s)
    <3>1. i \in 1..Len(s) /\ j \in 1..Len(s) BY <1>2, <1>9, <2>1
    <3> QED BY <1>6, <1>9, <3>1 DEF FirstOf, Increasing
  <2>2. CASE i > Len(s)
    <3>1. i - Len(s) \in 1..Len(t) /\ j - Len(s) \in 1..Len(t) /\ i - Len(s) < j - Len(s)
          /\ u[i] = t[i - Len(s)] /\ u[j] = t[j - Len(s)]
      BY <1>2, <1>3, <1>9, <2>2
    <3> QED BY <3>1 DEF FirstOf, Increasing
  <2>3. CASE i <= Len(s) /\ j > Len(s)
    <3>1. i \in 1..Len(s) /\ j - Len(s) \in 1..Len(t) /\ u[i] = s[i] /\ u[j] = t[j - Len(s)]
      BY <1>2, <1>3, <1>9, <2>3
    <3> QED BY <1>4, <1>5, <3>1
  <2> QED BY <1>2, <2>1, <2>2, <2>3
<1>10. ASSUME NEW a \in S PROVE \E i \in 1..Len(u) : u[i] = a
  <2>1. PICK i \in 1..Len(s) : s[i] = a BY DEF FirstOf
  <2> QED BY <1>6, <2>1
<1>11. ASSUME NEW a \in T
       PROVE \/ \E i \in 1..Len(u) : u[i] = a
             \/ Len(u) = n /\ \A i \in 1..Len(u) : Precedes(Key(u[i]), Key(a))
  <2>1. CASE \E i \in 1..Len(t) : t[i] = a BY <1>7, <2>1
  <2>2. CASE Len(t) = n - Len(s) /\ \A i \in 1..Len(t) : Precedes(Key(t[i]), Key(a))
    <3>1. Len(u) = n BY <1>2, <1>3, <2>2
    <3>2. \A i \in 1..Len(u) : Precedes(Key(u[i]), Key(a)) BY <1>4, <1>8, <2>2
    <3> QED BY <3>1, <3>2
  <2> QED BY <2>1, <2>2 DEF FirstOf
<1>12. Len(u) <= n BY <1>2, <1>3
<1>13. Increasing(u) BY <1>9 DEF Increasing
<1>14. FirstOf(u, S \cup T, n) BY <1>3, <1>10, <1>11, <1>12, <1>13 DEF FirstOf
<1> QED BY <1>14 DEF u
-----------------------------------------------------------------------------
(***************************************************************************)
(* The cells of a tree and their labels.                                   *)
(***************************************************************************)
(* The label of the cell p, and its bits in the file. *)
StemLabel(keys, p) == SubSeq(Stem(keys, p), Len(p) + 1, Len(Stem(keys, p)))

CellLabelBits(keys, style, p) == LabelBits(style, StemLabel(keys, p), KeyLength - Len(p))

(* The label of a cell leads from its name to its stem. *)
LEMMA StemLabelType ==
  ASSUME NEW keys \in SUBSET KeyBits, NEW p \in Seq(Bit), Below(keys, p) # {}
  PROVE /\ StemLabel(keys, p) \in Seq(Bit)
        /\ Len(StemLabel(keys, p)) = Len(Stem(keys, p)) - Len(p)
        /\ p \o StemLabel(keys, p) = Stem(keys, p)
<1> DEFINE s == Stem(keys, p)
           t == StemLabel(keys, p)
<1>0. KeyLength \in Nat /\ Len(p) \in Nat BY KeyLengthType, LenProperties
<1>1. IsStem(keys, p, s) BY StemIsStem
<1> HIDE DEF s
<1>2. /\ s \in Seq(Bit) /\ Len(p) <= Len(s) /\ Len(s) \in Nat
      /\ \A i \in 1..Len(p) : s[i] = p[i]
  BY <1>1, LenProperties DEF IsStem
<1>3. /\ t \in Seq(Bit) /\ Len(t) = Len(s) - Len(p)
      /\ \A i \in 1..Len(t) : t[i] = s[Len(p) + i]
  <2> DEFINE m == Len(p) + 1
             n == Len(s)
             u == SubSeq(s, m, n)
  <2>1. m \in Int /\ n \in Int /\ \A i \in m..n : s[i] \in Bit
    BY <1>0, <1>2, ElementOfSeq
  <2>2. /\ u \in Seq(Bit) /\ Len(u) = IF m <= n THEN n - m + 1 ELSE 0
        /\ \A i \in 1..n - m + 1 : u[i] = s[m + i - 1]
    <3> HIDE DEF m, n
    <3> QED BY <2>1, SubSeqProperties
  <2>3. t = u BY DEF StemLabel, s
  <2> HIDE DEF u, t
  <2>4. Len(u) = Len(s) - Len(p) BY <1>0, <1>2, <2>2
  <2>5. \A i \in 1..Len(u) : i \in 1..n - m + 1 /\ m + i - 1 = Len(p) + i BY <1>0, <1>2, <2>4
  <2>6. \A i \in 1..Len(u) : u[i] = s[Len(p) + i]
    <3> HIDE DEF m, n
    <3> QED BY <2>2, <2>5
  <2> QED BY <2>2, <2>3, <2>4, <2>6
<1> HIDE DEF t
<1>4. p \o t = s
  <2> DEFINE u == p \o t
  <2>1. /\ u \in Seq(Bit) /\ Len(u) = Len(p) + Len(t)
        /\ \A i \in 1..Len(p) + Len(t) : u[i] = IF i <= Len(p) THEN p[i] ELSE t[i - Len(p)]
    BY <1>3, ConcatProperties
  <2> HIDE DEF u
  <2>2. Len(u) = Len(s) BY <1>0, <1>2, <1>3, <2>1
  <2>3. ASSUME NEW i \in 1..Len(s) PROVE u[i] = s[i]
    <3>1. CASE i <= Len(p)
      <4>1. i \in 1..Len(p) BY <1>0, <1>2, <3>1
      <4> QED BY <1>2, <2>1, <2>2, <3>1, <4>1
    <3>2. CASE i > Len(p)
      <4>1. i - Len(p) \in 1..Len(t) /\ Len(p) + (i - Len(p)) = i BY <1>0, <1>2, <1>3, <3>2
      <4>2. u[i] = t[i - Len(p)] BY <1>0, <2>1, <2>2, <3>2
      <4> QED BY <1>3, <4>1, <4>2
    <3> QED BY <1>0, <3>1, <3>2
  <2>4. u = s BY <1>2, <2>1, <2>2, <2>3, SeqEqual
  <2> QED BY <2>4 DEF u
<1> QED BY <1>3, <1>4 DEF s, t

(* It is written as a sequence of bits. *)
LEMMA CellBitsType ==
  ASSUME NEW keys \in SUBSET KeyBits, NEW style, NEW p \in Seq(Bit), Len(p) <= KeyLength,
         Below(keys, p) # {}
  PROVE CellLabelBits(keys, style, p) \in Seq(Bit)
<1>1. StemLabel(keys, p) \in Seq(Bit) BY StemLabelType
<1>2. KeyLength - Len(p) \in Int /\ KeyLength - Len(p) <= KeyLength
  BY KeyLengthType, LenProperties
<1> QED BY <1>1, <1>2, LabelBitsType DEF CellLabelBits

(* The cell of p with the label of the rest of its stem. *)
LEMMA CellShape ==
  ASSUME NEW keys \in SUBSET KeyBits, NEW style, NEW p \in Seq(Bit), Len(p) <= KeyLength,
         Below(keys, p) # {}
  PROVE LET cell == CellAt(keys, style, p)
            stem == Stem(keys, p)
            lb   == CellLabelBits(keys, style, p)
        IN /\ Len(stem) = KeyLength =>
                /\ cell.bits = lb \o <<Data>> /\ cell.refs = <<>>
                /\ Len(cell.bits) = Len(lb) + 1 /\ cell.bits[Len(lb) + 1] = Data
           /\ Len(stem) # KeyLength =>
                /\ cell.bits = lb /\ cell.refs = <<stem \o <<0>>, stem \o <<1>> >>
                /\ Len(cell.bits) = Len(lb)
           /\ Begins(cell.bits, lb)
           /\ Len(lb) \in Nat
<1> DEFINE cell == CellAt(keys, style, p)
           stem == Stem(keys, p)
           lb == CellLabelBits(keys, style, p)
<1>1. cell = IF Len(stem) = KeyLength
             THEN [bits |-> lb \o <<Data>>, refs |-> <<>>]
             ELSE [bits |-> lb, refs |-> <<stem \o <<0>>, stem \o <<1>> >>]
  BY DEF CellAt, CellLabelBits, StemLabel
<1>2. lb \in Seq(Bit) BY CellBitsType
<1>3. Len(lb) \in Nat BY <1>2, LenProperties
<1> HIDE DEF cell, stem, lb
<1>4. CASE Len(stem) = KeyLength
  <2> DEFINE b == lb \o <<Data>>
  <2>1. cell.bits = b /\ cell.refs = <<>> BY <1>1, <1>4
  <2>2. /\ Len(b) = Len(lb) + 1
        /\ \A i \in 1..Len(lb) + 1 : b[i] = IF i <= Len(lb) THEN lb[i] ELSE <<Data>>[i - Len(lb)]
    <3> DEFINE d == <<Data>>
    <3>1. d \in Seq(Bit \cup {Data}) /\ Len(d) = 1 OBVIOUS
    <3>2. lb \in Seq(Bit \cup {Data}) BY <1>2, SeqMonotonic
    <3> HIDE DEF d
    <3>3. /\ Len(lb \o d) = Len(lb) + Len(d)
          /\ \A i \in 1..Len(lb) + Len(d) : (lb \o d)[i] = IF i <= Len(lb) THEN lb[i] ELSE d[i - Len(lb)]
      BY <3>1, <3>2, ConcatProperties
    <3>4. /\ Len(lb \o d) = Len(lb) + 1
          /\ \A i \in 1..Len(lb) + 1 : (lb \o d)[i] = IF i <= Len(lb) THEN lb[i] ELSE d[i - Len(lb)]
      BY <3>1, <3>3
    <3> QED BY <3>4 DEF d
  <2>3. <<Data>>[1] = Data OBVIOUS
  <2> HIDE DEF b
  <2>4. b[Len(lb) + 1] = Data BY <1>3, <2>2, <2>3
  <2>5. Begins(b, lb) BY <1>3, <2>2 DEF Begins
  <2>6. cell.bits = lb \o <<Data>> BY <2>1 DEF b
  <2> QED BY <1>3, <1>4, <2>1, <2>2, <2>4, <2>5, <2>6 DEF cell, stem, lb
<1>5. CASE Len(stem) # KeyLength
  <2>1. cell.bits = lb /\ cell.refs = <<stem \o <<0>>, stem \o <<1>> >> BY <1>1, <1>5
  <2>2. Begins(lb, lb) BY <1>3 DEF Begins
  <2> QED BY <1>3, <1>5, <2>1, <2>2 DEF cell, stem, lb
<1> QED BY <1>4, <1>5

(* Every cell starts with its label, whatever its encoding. *)
LEMMA CellRead ==
  ASSUME NEW keys \in SUBSET KeyBits, NEW style, NEW p \in Seq(Bit), Len(p) <= KeyLength,
         Below(keys, p) # {}
  PROVE readCommonPrefix(KeyLength - Len(p), CellAt(keys, style, p).bits, 0)
          = LabelRead(StemLabel(keys, p), Len(CellLabelBits(keys, style, p)))
<1> DEFINE size == KeyLength - Len(p)
           label == StemLabel(keys, p)
           bits == CellAt(keys, style, p).bits
<1>1. label \in Seq(Bit) /\ Len(label) = Len(Stem(keys, p)) - Len(p) BY StemLabelType
<1>2. Len(Stem(keys, p)) <= KeyLength /\ Len(Stem(keys, p)) \in Nat
  BY StemIsStem, LenProperties DEF IsStem
<1>3. size \in Nat /\ size <= KeyLength /\ Len(label) <= size
  BY <1>1, <1>2, KeyLengthType, LenProperties
<1>4. Begins(bits, LabelBits(style, label, size)) BY CellShape DEF CellLabelBits
<1>5. Len(bits) \in Nat
  <2>1. Len(CellLabelBits(keys, style, p)) \in Nat BY CellShape
  <2>2. \/ Len(bits) = Len(CellLabelBits(keys, style, p)) + 1
        \/ Len(bits) = Len(CellLabelBits(keys, style, p))
    BY CellShape
  <2> HIDE DEF bits
  <2> QED BY <2>1, <2>2
<1> HIDE DEF size, label, bits
<1>6. readCommonPrefix(size, bits, 0) = LabelRead(label, Len(LabelBits(style, label, size)))
  BY <1>1, <1>3, <1>4, <1>5, LabelIsRead, Zenon
<1> QED BY <1>6 DEF size, label, bits, CellLabelBits

(* The tree of a file is one that walk unfolds on. *)
LEMMA TreeIsTyped ==
  ASSUME NEW keys \in SUBSET KeyBits, keys # {}, NEW style
  PROVE TypedTree(TreeOf(keys, style))
<1> DEFINE tree == TreeOf(keys, style)
<1>1. DOMAIN tree = CellNames(keys) BY DEF TreeOf
<1>2. ASSUME NEW p \in CellNames(keys)
      PROVE /\ Len(p) \in 0..KeyLength
            /\ Len(tree[p].bits) \in Nat
            /\ Len(tree[p].refs) \in Nat
            /\ \A i \in 1..Len(tree[p].refs) :
                 tree[p].refs[i] \in CellNames(keys) /\ Len(p) < Len(tree[p].refs[i])
  <2>1. p \in Seq(Bit) /\ Len(p) <= KeyLength /\ Below(keys, p) # {} BY CellNameType
  <2>2. Len(p) \in 0..KeyLength BY <2>1, KeyLengthType, LenProperties
  <2>3. tree[p] = CellAt(keys, style, p) BY DEF TreeOf
  <2> DEFINE stem == Stem(keys, p)
             cell == CellAt(keys, style, p)
             n == Len(CellLabelBits(keys, style, p))
  <2>4. /\ stem \in Seq(Bit) /\ Len(p) <= Len(stem) /\ Len(stem) \in Nat
        /\ Len(stem) = KeyLength \/ Forks(keys, stem)
    BY <2>1, StemIsStem, LenProperties DEF IsStem
  <2>5. n \in Nat BY <2>1, CellShape
  <2>6. CASE Len(stem) = KeyLength
    <3>1. Len(cell.bits) = n + 1 /\ cell.refs = <<>> BY <2>1, <2>6, CellShape
    <3>2. Len(cell.refs) = 0 BY <3>1, EmptySeq
    <3>3. \A i \in 1..0 : FALSE OBVIOUS
    <3> HIDE DEF n, cell, tree
    <3> QED BY <2>2, <2>3, <2>5, <3>1, <3>2, <3>3 DEF cell
  <2>7. CASE Len(stem) # KeyLength
    <3>1. Len(cell.bits) = n /\ cell.refs = <<stem \o <<0>>, stem \o <<1>> >>
      BY <2>1, <2>7, CellShape
    <3>2. Forks(keys, stem) BY <2>4, <2>7
    <3>3. \A b \in Bit : /\ stem \o <<b>> \in CellNames(keys)
                         /\ Len(stem \o <<b>>) = Len(stem) + 1
      BY <2>4, <3>2, ChildIsCell, Extended
    <3>4. 0 \in Bit /\ 1 \in Bit BY DEF Bit
    <3> HIDE DEF n, cell, tree, stem
    <3> DEFINE c0 == stem \o <<0>>
               c1 == stem \o <<1>>
    <3>5. /\ c0 \in CellNames(keys) /\ Len(p) < Len(c0)
          /\ c1 \in CellNames(keys) /\ Len(p) < Len(c1)
      BY <2>2, <2>4, <3>3, <3>4
    <3>6. cell.refs = <<c0, c1>> BY <3>1
    <3> HIDE DEF c0, c1
    <3>7. Len(cell.refs) = 2 /\ cell.refs[1] = c0 /\ cell.refs[2] = c1 BY <3>6
    <3>8. \A i \in 1..2 : i = 1 \/ i = 2 OBVIOUS
    <3>9. \A i \in 1..Len(cell.refs) :
             cell.refs[i] \in CellNames(keys) /\ Len(p) < Len(cell.refs[i])
      BY <3>5, <3>7, <3>8
    <3>10. tree[p] = cell BY <2>3 DEF cell
    <3>11. Len(cell.bits) \in Nat /\ Len(cell.refs) \in Nat
      <4>1. Len(cell.bits) = n BY <3>1
      <4> QED BY <2>5, <3>7, <4>1
    <3> QED BY <2>2, <3>9, <3>10, <3>11
  <2> QED BY <2>6, <2>7
<1> HIDE DEF tree
<1>3. TypedTree(tree) BY <1>1, <1>2 DEF TypedTree
<1> QED BY <1>3 DEF tree
-----------------------------------------------------------------------------
(***************************************************************************)
(* Wanted accounts: those of the answer that are below a cell.             *)
(***************************************************************************)
(* The names that begin with that of a reference of a fork. *)
LEMMA ChildPrefix ==
  ASSUME NEW s \in Seq(Bit), NEW q \in Seq(Bit), NEW b \in Bit
  PROVE IsPrefix(s \o <<b>>, q) <=> /\ Len(s) < Len(q) /\ q[Len(s) + 1] = b
                                    /\ \A i \in 1..Len(s) : q[i] = s[i]
<1>0. Len(s) \in Nat /\ Len(q) \in Nat BY LenProperties
<1> DEFINE t == s \o <<b>>
<1>1. /\ t \in Seq(Bit) /\ Len(t) = Len(s) + 1
      /\ (\A i \in 1..Len(s) : t[i] = s[i]) /\ t[Len(s) + 1] = b
  BY Extended
<1> HIDE DEF t
<1>2. IsPrefix(t, q) <=> Len(t) <= Len(q) /\ \A i \in 1..Len(t) : t[i] = q[i]
  BY <1>1, PrefixPointwise
<1>3. \A i \in 1..Len(t) : i \in 1..Len(s) \/ i = Len(s) + 1 BY <1>0, <1>1
<1>4. \A i \in 1..Len(s) : i \in 1..Len(t) BY <1>0, <1>1
<1>5. Len(s) + 1 \in 1..Len(t) /\ (Len(t) <= Len(q) <=> Len(s) < Len(q)) BY <1>0, <1>1
<1>6. IsPrefix(t, q) <=> /\ Len(s) < Len(q) /\ q[Len(s) + 1] = b
                         /\ \A i \in 1..Len(s) : q[i] = s[i]
  BY <1>1, <1>2, <1>3, <1>4, <1>5
<1> QED BY <1>6 DEF t

(* The cells below the references of p are below p, and in one half. *)
LEMMA ForkPrefixes ==
  ASSUME NEW p \in Seq(Bit), NEW s \in Seq(Bit), Len(p) <= Len(s), \A i \in 1..Len(p) : s[i] = p[i],
         NEW q \in Seq(Bit)
  PROVE /\ \A b \in Bit : IsPrefix(s \o <<b>>, q) => IsPrefix(p, q) /\ q # p
        /\ ~(IsPrefix(s \o <<0>>, q) /\ IsPrefix(s \o <<1>>, q))
<1>0. Len(p) \in Nat /\ Len(s) \in Nat /\ Len(q) \in Nat BY LenProperties
<1>1. ASSUME NEW b \in Bit, IsPrefix(s \o <<b>>, q) PROVE IsPrefix(p, q) /\ q # p
  <2>1. Len(s) < Len(q) /\ \A i \in 1..Len(s) : q[i] = s[i] BY <1>1, ChildPrefix
  <2>2. \A i \in 1..Len(p) : i \in 1..Len(s) BY <1>0
  <2>3. Len(p) <= Len(q) /\ Len(p) # Len(q) /\ \A i \in 1..Len(p) : p[i] = q[i]
    BY <1>0, <2>1, <2>2
  <2>4. IsPrefix(p, q) BY <2>3, PrefixPointwise
  <2> QED BY <2>3, <2>4
<1>2. 0 \in Bit /\ 1 \in Bit BY DEF Bit
<1>3. ~(IsPrefix(s \o <<0>>, q) /\ IsPrefix(s \o <<1>>, q)) BY <1>2, ChildPrefix
<1> QED BY <1>1, <1>3

(* Every cell is on the way to itself. *)
LEMMA PrefixOfItself ==
  ASSUME NEW p \in Seq(Bit)
  PROVE IsPrefix(p, p)
BY LenProperties, PrefixPointwise

(* The keys of the airdrop. *)
KeysOf(airdrop) == { Key(a) : a \in airdrop }

(* The accounts below a cell that a listing from start has. *)
Wanted(airdrop, start, p) == { a \in NotBefore(airdrop, start) : IsPrefix(p, Key(a)) }

(* They are keys. *)
LEMMA KeysOfType ==
  ASSUME NEW airdrop \in SUBSET Accounts
  PROVE KeysOf(airdrop) \in SUBSET KeyBits
BY KeyType DEF KeysOf

(* The order of keys is asymmetric. *)
LEMMA NotBoth ==
  ASSUME NEW j \in KeyBits, NEW k \in KeyBits, Precedes(j, k)
  PROVE ~Precedes(k, j)
BY PrecedesIrreflexive, PrecedesTransitive

(* What is below a cell is below its stem. *)
LEMMA WantedBelowStem ==
  ASSUME NEW airdrop \in SUBSET Accounts, NEW start \in Accounts, NEW p \in Seq(Bit),
         NEW s, IsStem(KeysOf(airdrop), p, s), NEW a \in airdrop
  PROVE IsPrefix(p, Key(a)) <=> \A i \in 1..Len(s) : Key(a)[i] = s[i]
<1>1. Key(a) \in KeysOf(airdrop) /\ KeysOf(airdrop) \in SUBSET KeyBits
  BY KeysOfType DEF KeysOf
<1>2. IsPrefix(p, Key(a)) <=> Key(a) \in Below(KeysOf(airdrop), p) BY <1>1 DEF Below
<1>3. Below(KeysOf(airdrop), p) = Below(KeysOf(airdrop), s) /\ s \in Seq(Bit) /\ Len(s) <= KeyLength
  BY DEF IsStem
<1>4. Key(a) \in Below(KeysOf(airdrop), s) <=> \A i \in 1..Len(s) : s[i] = Key(a)[i]
  BY <1>1, <1>3, BelowPointwise
<1> QED BY <1>2, <1>3, <1>4

(* The account of a leaf. *)
LEMMA LeafAccount ==
  ASSUME NEW airdrop \in SUBSET Accounts, NEW start \in Accounts, NEW p \in Seq(Bit),
         Below(KeysOf(airdrop), p) # {},
         NEW s, IsStem(KeysOf(airdrop), p, s), Len(s) = KeyLength
  PROVE \E a \in airdrop : /\ Key(a) = s
                           /\ \A b \in Wanted(airdrop, start, p) : b = a
                           /\ ~Precedes(s, Key(start)) => a \in Wanted(airdrop, start, p)
<1>1. PICK k : k \in Below(KeysOf(airdrop), p) OBVIOUS
<1>2. PICK a \in airdrop : k = Key(a) BY <1>1 DEF Below, KeysOf
<1>3. IsPrefix(p, Key(a)) BY <1>1, <1>2 DEF Below
<1>4. s \in KeyBits BY DEF IsStem, KeyBits
<1>5. ASSUME NEW b \in airdrop, IsPrefix(p, Key(b)) PROVE Key(b) = s
  <2>1. \A i \in 1..KeyLength : Key(b)[i] = s[i] BY <1>5, WantedBelowStem
  <2>2. Key(b) \in KeyBits BY KeyType
  <2> QED BY <1>4, <2>1, <2>2, SameBits
<1>6. Key(a) = s BY <1>3, <1>5
<1>7. ASSUME NEW b \in Wanted(airdrop, start, p) PROVE b = a
  <2>1. b \in airdrop /\ IsPrefix(p, Key(b)) BY DEF Wanted, NotBefore
  <2>2. Key(b) = Key(a) BY <1>5, <1>6, <2>1
  <2> QED BY <2>1, <2>2, KeyInjective
<1>8. ~Precedes(s, Key(start)) => a \in Wanted(airdrop, start, p)
  BY <1>3, <1>6 DEF Wanted, NotBefore
<1> QED BY <1>6, <1>7, <1>8

(* The accounts below a fork, left before right. *)
LEMMA ForkAccounts ==
  ASSUME NEW airdrop \in SUBSET Accounts, NEW start \in Accounts, NEW p \in Seq(Bit),
         NEW s, IsStem(KeysOf(airdrop), p, s), Len(s) # KeyLength
  PROVE LET left  == Wanted(airdrop, start, s \o <<0>>)
            right == Wanted(airdrop, start, s \o <<1>>)
        IN /\ Wanted(airdrop, start, p) = left \cup right
           /\ \A a \in left, b \in right : Precedes(Key(a), Key(b))
<1>0. /\ s \in Seq(Bit) /\ Len(s) \in Nat /\ KeyLength \in Nat /\ Len(s) < KeyLength
      /\ Len(p) <= Len(s) /\ \A i \in 1..Len(p) : s[i] = p[i]
  BY KeyLengthType, LenProperties DEF IsStem
<1>1. Len(s) + 1 \in 1..KeyLength BY <1>0
<1>2. ASSUME NEW a \in airdrop, NEW b \in Bit
      PROVE IsPrefix(s \o <<b>>, Key(a)) <=>
              IsPrefix(p, Key(a)) /\ Key(a)[Len(s) + 1] = b
  <2>1. Key(a) \in KeyBits /\ Key(a) \in Seq(Bit) /\ Len(Key(a)) = KeyLength BY KeyType, KeyBitsType
  <2>2. IsPrefix(s \o <<b>>, Key(a)) <=>
           /\ Len(s) < Len(Key(a)) /\ Key(a)[Len(s) + 1] = b
           /\ \A i \in 1..Len(s) : Key(a)[i] = s[i]
    BY <1>0, <2>1, ChildPrefix
  <2>3. IsPrefix(p, Key(a)) <=> \A i \in 1..Len(s) : Key(a)[i] = s[i] BY WantedBelowStem
  <2> QED BY <1>0, <2>1, <2>2, <2>3
<1>3. \A a \in airdrop : Key(a)[Len(s) + 1] \in Bit BY <1>1, KeyType, KeyBitsType
<1>4. 0 \in Bit /\ 1 \in Bit /\ \A b \in Bit : b = 0 \/ b = 1 BY DEF Bit
<1>5. Wanted(airdrop, start, p)
        = Wanted(airdrop, start, s \o <<0>>) \cup Wanted(airdrop, start, s \o <<1>>)
  <2>1. \A a \in airdrop : IsPrefix(p, Key(a)) <=>
          IsPrefix(s \o <<0>>, Key(a)) \/ IsPrefix(s \o <<1>>, Key(a))
    BY <1>2, <1>3, <1>4
  <2> QED BY <2>1 DEF Wanted, NotBefore
<1>6. ASSUME NEW a \in Wanted(airdrop, start, s \o << 0 >>), NEW b \in Wanted(airdrop, start, s \o << 1 >>)
      PROVE Precedes(Key(a), Key(b))
  <2>1. a \in airdrop /\ b \in airdrop /\ IsPrefix(s \o <<0>>, Key(a)) /\ IsPrefix(s \o <<1>>, Key(b))
    BY DEF Wanted, NotBefore
  <2>2. IsPrefix(p, Key(a)) /\ Key(a)[Len(s) + 1] = 0 /\ IsPrefix(p, Key(b)) /\ Key(b)[Len(s) + 1] = 1
    BY <1>2, <1>4, <2>1
  <2>3. \A i \in 1..Len(s) : Key(a)[i] = s[i] /\ Key(b)[i] = s[i] BY <2>1, <2>2, WantedBelowStem
  <2>4. \A i \in 1..(Len(s) + 1) - 1 : Key(a)[i] = Key(b)[i]
    <3>1. (Len(s) + 1) - 1 = Len(s) BY <1>0
    <3> QED BY <2>3, <3>1
  <2>5. Key(a) \in KeyBits /\ Key(b) \in KeyBits BY <2>1, KeyType
  <2> QED BY <1>1, <2>2, <2>4, <2>5, PrecedesPointwise
<1> QED BY <1>5, <1>6

(* Nothing wanted is below a cell that the start is behind. *)
LEMMA NothingWanted ==
  ASSUME NEW airdrop \in SUBSET Accounts, NEW start \in Accounts, NEW p,
         \A a \in airdrop : IsPrefix(p, Key(a)) => Precedes(Key(a), Key(start))
  PROVE Wanted(airdrop, start, p) = {}
BY DEF Wanted, NotBefore

(* The left half of a fork is skipped only if nothing in it is wanted. *)
LEMMA SkippedHalf ==
  ASSUME NEW airdrop \in SUBSET Accounts, NEW start \in Accounts,
         NEW s \in Seq(Bit), Len(s) < KeyLength, SkipLeft(Key(start), s)
  PROVE Wanted(airdrop, start, s \o <<0>>) = {}
<1>0. Len(s) \in Nat /\ KeyLength \in Nat BY KeyLengthType, LenProperties
<1>1. Key(start) \in KeyBits BY KeyType
<1>2. compareBitStrings(Key(start), s) = "starts with" /\ Key(start)[Len(s) + 1] = 1
  BY DEF SkipLeft
<1>3. \A i \in 1..Len(s) : Key(start)[i] = s[i]
  <2>1. Len(s) <= KeyLength BY <1>0
  <2>2. "starts with" # "less" /\ "starts with" # "greater" OBVIOUS
  <2> QED BY <1>1, <1>2, <2>1, <2>2, Compare
<1>4. ASSUME NEW a \in airdrop, IsPrefix(s \o << 0 >>, Key(a)) PROVE Precedes(Key(a), Key(start))
  <2>1. Key(a) \in KeyBits /\ Key(a) \in Seq(Bit) BY KeyType, KeyBitsType
  <2>2. 0 \in Bit BY DEF Bit
  <2>3. Key(a)[Len(s) + 1] = 0 /\ \A i \in 1..Len(s) : Key(a)[i] = s[i]
    BY <1>0, <1>4, <2>1, <2>2, ChildPrefix
  <2>4. \A i \in 1..(Len(s) + 1) - 1 : Key(a)[i] = Key(start)[i]
    <3>1. (Len(s) + 1) - 1 = Len(s) BY <1>0
    <3> QED BY <1>3, <2>3, <3>1
  <2>5. Len(s) + 1 \in 1..KeyLength BY <1>0
  <2> QED BY <1>1, <1>2, <2>1, <2>3, <2>4, <2>5, PrecedesPointwise
<1> QED BY <1>4, NothingWanted
-----------------------------------------------------------------------------
(***************************************************************************)
(* Cursors, and the answer at a leaf.                                      *)
(***************************************************************************)
(* The cursor of q is within the cell. *)
InCell(tree, c, q) ==
  c[q].bit <= Len(tree[q].bits) /\ c[q].ref <= Len(tree[q].refs)

(* No cell below p has been read. *)
Unread(tree, p, c) == \A q \in DOMAIN tree : IsPrefix(p, q) => c[q] = AtStart

(* Only the cursor of p may be different. *)
Elsewhere(tree, p, c, d) == \A q \in DOMAIN tree : q # p => d[q] = c[q]

(* A walk from p moves the cursors below p only, and no further than the   *)
(* cells.                                                                  *)
MovesBelow(tree, p, c, d) ==
  /\ d \in Cursors(tree)
  /\ \A q \in DOMAIN tree : IF IsPrefix(p, q) THEN InCell(tree, d, q) ELSE d[q] = c[q]

(* The result r of a walk from p is right: no error, the first "count"     *)
(* wanted accounts below p, and only cursors below p were moved.           *)
Answers(tree, airdrop, start, p, count, c, r) ==
  /\ r.ok
  /\ FirstOf(r.accounts, Wanted(airdrop, start, p), count)
  /\ MovesBelow(tree, p, c, r.cursors)

(* A cursor at the start is within its cell. *)
LEMMA UnreadInCell ==
  ASSUME NEW tree, TypedTree(tree), NEW c, NEW q \in DOMAIN tree, c[q] = AtStart
  PROVE InCell(tree, c, q)
BY DEF TypedTree, InCell, AtStart

(* Moving the own cursor of p moves the cursors below p only. *)
LEMMA OwnCursor ==
  ASSUME NEW tree, TypedTree(tree), NEW p \in DOMAIN tree, p \in Seq(Bit),
         NEW c, NEW d \in Cursors(tree), Unread(tree, p, c), InCell(tree, d, p),
         Elsewhere(tree, p, c, d)
  PROVE MovesBelow(tree, p, c, d)
<1>1. IsPrefix(p, p) BY PrefixOfItself
<1>2. \A q \in DOMAIN tree : c[q] = AtStart /\ q # p => InCell(tree, d, q)
  <2>1. \A q \in DOMAIN tree : c[q] = AtStart => InCell(tree, c, q) BY UnreadInCell
  <2> QED BY <2>1 DEF Elsewhere, InCell
<1> QED BY <1>1, <1>2 DEF MovesBelow, Unread, Elsewhere

(* s continues p. *)
Extends(p, s) == Len(p) <= Len(s) /\ \A i \in 1..Len(p) : s[i] = p[i]

(* The two walks below a fork move different cursors: after the left one   *)
(* nothing in the right half has been read.                                *)
LEMMA HalfCursors ==
  ASSUME NEW tree, TypedTree(tree), DOMAIN tree \subseteq Seq(Bit), NEW p \in DOMAIN tree,
         NEW s \in Seq(Bit), Extends(p, s),
         NEW c \in Cursors(tree), NEW c1 \in Cursors(tree), NEW l \in Cursors(tree),
         NEW c2 \in Cursors(tree), NEW r \in Cursors(tree),
         Unread(tree, p, c), InCell(tree, c1, p), InCell(tree, c2, p),
         Elsewhere(tree, p, c, c1),
         MovesBelow(tree, s \o << 0 >>, c1, l),
         Elsewhere(tree, p, l, c2)
  PROVE /\ Unread(tree, s \o <<0>>, c1)
        /\ MovesBelow(tree, p, c, l)
        /\ l[p] = c1[p]
        /\ Unread(tree, s \o <<1>>, c2)
        /\ MovesBelow(tree, s \o <<1>>, c2, r) => MovesBelow(tree, p, c, r)
<1>0. /\ Len(p) <= Len(s) /\ \A i \in 1..Len(p) : s[i] = p[i]
      /\ \A q \in DOMAIN tree : q # p => c1[q] = c[q]
      /\ \A q \in DOMAIN tree : q # p => c2[q] = l[q]
  BY DEF Extends, Elsewhere
<1> DEFINE P(q) == IsPrefix(p, q)
           P0(q) == IsPrefix(s \o <<0>>, q)
           P1(q) == IsPrefix(s \o <<1>>, q)
<1>1. \A q \in DOMAIN tree : /\ P0(q) => P(q) /\ q # p
                             /\ P1(q) => P(q) /\ q # p
                             /\ ~(P0(q) /\ P1(q))
  <2>1. 0 \in Bit /\ 1 \in Bit BY DEF Bit
  <2> SUFFICES ASSUME NEW q \in DOMAIN tree
               PROVE /\ P0(q) => P(q) /\ q # p
                     /\ P1(q) => P(q) /\ q # p
                     /\ ~(P0(q) /\ P1(q))
    OBVIOUS
  <2>2. q \in Seq(Bit) /\ p \in Seq(Bit) OBVIOUS
  <2>3. /\ \A b \in Bit : IsPrefix(s \o <<b>>, q) => IsPrefix(p, q) /\ q # p
        /\ ~(IsPrefix(s \o <<0>>, q) /\ IsPrefix(s \o <<1>>, q))
    BY <1>0, <2>2, ForkPrefixes
  <2> QED BY <2>1, <2>3
<1>2. P(p) BY PrefixOfItself
<1>3. \A q \in DOMAIN tree : P(q) => c[q] = AtStart BY DEF Unread
<1>4. \A q \in DOMAIN tree : IF P0(q) THEN InCell(tree, l, q) ELSE l[q] = c1[q] BY DEF MovesBelow
<1>5. Unread(tree, s \o <<0>>, c1)
  <2>1. \A q \in DOMAIN tree : P0(q) => c1[q] = AtStart BY <1>0, <1>1, <1>3
  <2> QED BY <2>1 DEF Unread
<1>6. l[p] = c1[p] BY <1>1, <1>4
<1>7. \A q \in DOMAIN tree : c1[q] = l[q] /\ InCell(tree, c1, q) => InCell(tree, l, q) BY DEF InCell
<1>8. MovesBelow(tree, p, c, l)
  <2>1. ASSUME NEW q \in DOMAIN tree, P(q) PROVE InCell(tree, l, q)
    <3>1. CASE P0(q) BY <1>4, <3>1
    <3>2. CASE ~P0(q) /\ q = p BY <1>6, <1>7, <3>2
    <3>3. CASE ~P0(q) /\ q # p
      <4>1. l[q] = AtStart BY <1>0, <1>3, <1>4, <2>1, <3>3
      <4> QED BY <4>1, UnreadInCell
    <3> QED BY <3>1, <3>2, <3>3
  <2>2. ASSUME NEW q \in DOMAIN tree, ~P(q) PROVE l[q] = c[q]
    <3>1. ~P0(q) /\ q # p BY <1>1, <1>2, <2>2
    <3> QED BY <1>0, <1>4, <3>1
  <2> QED BY <2>1, <2>2 DEF MovesBelow
<1>9. Unread(tree, s \o <<1>>, c2)
  <2>1. \A q \in DOMAIN tree : P1(q) => c2[q] = AtStart BY <1>0, <1>1, <1>3, <1>4
  <2> QED BY <2>1 DEF Unread
<1>10. ASSUME MovesBelow(tree, s \o << 1 >>, c2, r) PROVE MovesBelow(tree, p, c, r)
  <2>1. \A q \in DOMAIN tree : IF P1(q) THEN InCell(tree, r, q) ELSE r[q] = c2[q]
    BY <1>10 DEF MovesBelow
  <2>2. ASSUME NEW q \in DOMAIN tree, P(q) PROVE InCell(tree, r, q)
    <3>1. CASE P1(q) BY <2>1, <3>1
    <3>2. CASE ~P1(q) /\ q = p
      <4>1. r[q] = c2[p] BY <2>1, <3>2
      <4> QED BY <3>2, <4>1 DEF InCell
    <3>3. CASE ~P1(q) /\ q # p
      <4>1. r[q] = l[q] BY <1>0, <2>1, <3>3
      <4>2. InCell(tree, l, q) BY <1>8, <2>2 DEF MovesBelow
      <4> QED BY <4>1, <4>2 DEF InCell
    <3> QED BY <3>1, <3>2, <3>3
  <2>3. ASSUME NEW q \in DOMAIN tree, ~P(q) PROVE r[q] = c[q]
    <3>1. ~P0(q) /\ ~P1(q) /\ q # p BY <1>1, <1>2, <2>3
    <3> QED BY <1>0, <1>4, <2>1, <3>1
  <2> QED BY <2>2, <2>3 DEF MovesBelow
<1> QED BY <1>5, <1>6, <1>8, <1>9, <1>10

(* A leaf gives its account if it is not before the start. *)
LEMMA LeafAnswers ==
  ASSUME NEW airdrop \in SUBSET Accounts, NEW start \in Accounts, NEW count \in Nat \ {0},
         NEW tree, TypedTree(tree), NEW p \in DOMAIN tree, p \in Seq(Bit),
         Below(KeysOf(airdrop), p) # {},
         NEW s, IsStem(KeysOf(airdrop), p, s), Len(s) = KeyLength,
         NEW n \in Nat, Len(tree[p].bits) = n + 1, tree[p].bits[n + 1] = Data,
         NEW c \in Cursors(tree), Unread(tree, p, c)
  PROVE Answers(tree, airdrop, start, p, count, c,
                Leaf(tree, Key(start), s, p, [c EXCEPT ![p].bit = n]))
<1> DEFINE cur == [c EXCEPT ![p].bit = n]
           end == [cur EXCEPT ![p].bit = n + 1]
           S == Wanted(airdrop, start, p)
           r == Leaf(tree, Key(start), s, p, cur)
<1>1. PICK a \in airdrop : /\ Key(a) = s
                           /\ \A b \in S : b = a
                           /\ ~Precedes(s, Key(start)) => a \in S
  BY LeafAccount
<1>2. s \in KeyBits /\ s \in Seq(Bit) BY DEF IsStem, KeyBits
<1>3. c[p] = AtStart
  <2>1. IsPrefix(p, p) BY PrefixOfItself
  <2> QED BY <2>1 DEF Unread
<1>4. cur \in Cursors(tree) /\ cur[p].bit = n /\ cur[p].ref = 0
      /\ Elsewhere(tree, p, c, cur)
  BY <1>3 DEF Cursors, AtStart, Elsewhere
<1>5. end \in Cursors(tree) /\ end[p].bit = n + 1 /\ end[p].ref = 0
      /\ Elsewhere(tree, p, c, end)
  <2> HIDE DEF cur
  <2> QED BY <1>4 DEF Cursors, Elsewhere
<1>6. Len(tree[p].refs) \in Nat BY DEF TypedTree
<1> HIDE DEF cur, end
<1>7. MovesBelow(tree, p, c, cur)
  <2>1. InCell(tree, cur, p) BY <1>4, <1>6 DEF InCell
  <2> QED BY <1>4, <2>1, OwnCursor
<1>8. MovesBelow(tree, p, c, end)
  <2>1. InCell(tree, end, p) BY <1>5, <1>6 DEF InCell
  <2> QED BY <1>5, <2>1, OwnCursor
<1>9. IsKey(s) /\ AccountOf(s) = a BY <1>1, KeyIsKey
<1>10. Key(start) \in KeyBits BY KeyType
<1>11. CASE compareBitStrings(Key(start), s) = "greater"
  <2>1. r = Found(<<>>, cur) BY <1>11 DEF Leaf
  <2>2. Precedes(s, Key(start))
    <3>1. "greater" # "less" /\ "greater" # "starts with" OBVIOUS
    <3>2. Len(s) <= KeyLength BY KeyLengthType
    <3>3. \A j \in KeyBits : (\A i \in 1..Len(s) : j[i] = s[i]) => Precedes(j, Key(start))
      BY <1>2, <1>10, <1>11, <3>1, <3>2, Compare
    <3> QED BY <1>2, <3>3
  <2>3. S = {}
    <3>1. a \notin S BY <1>1, <2>2 DEF Wanted, NotBefore
    <3> HIDE DEF S
    <3> QED BY <1>1, <3>1
  <2>4. FirstOf(<<>>, S, count) BY <2>3, FirstOfNone
  <2>5. r.ok /\ r.accounts = <<>> /\ r.cursors = cur BY <2>1 DEF Found
  <2>6. /\ r.ok
        /\ FirstOf(r.accounts, S, count)
        /\ MovesBelow(tree, p, c, r.cursors)
    <3> HIDE DEF r, S
    <3> QED BY <1>7, <2>4, <2>5
  <2>7. Answers(tree, airdrop, start, p, count, c, r)
    <3> HIDE DEF r
    <3> QED BY <2>6 DEF Answers
  <2> QED BY <2>7 DEF cur
<1>12. CASE compareBitStrings(Key(start), s) \in {"less", "starts with"}
  <2>1. r = Found(<<AccountOf(s)>>, end)
    <3>1. compareBitStrings(Key(start), s) # "greater" BY <1>12
    <3>2. n < Len(tree[p].bits) OBVIOUS
    <3> QED BY <1>4, <1>9, <1>12, <3>1, <3>2 DEF Leaf, end
  <2>2. ~Precedes(s, Key(start))
    <3>1. CASE compareBitStrings(Key(start), s) = "less"
      <4>1. "less" # "greater" /\ "less" # "starts with" OBVIOUS
      <4>2. Len(s) <= KeyLength BY KeyLengthType
      <4>3. \A j \in KeyBits : (\A i \in 1..Len(s) : j[i] = s[i]) => Precedes(Key(start), j)
        BY <1>2, <1>10, <3>1, <4>1, <4>2, Compare
      <4>4. Precedes(Key(start), s) BY <1>2, <4>3
      <4> QED BY <1>2, <1>10, <4>4, NotBoth
    <3>2. CASE compareBitStrings(Key(start), s) = "starts with"
      <4>1. "starts with" # "greater" /\ "less" # "starts with" OBVIOUS
      <4>2. Len(s) <= KeyLength BY KeyLengthType
      <4>3. \A i \in 1..Len(s) : Key(start)[i] = s[i]
        BY <1>2, <1>10, <3>2, <4>1, <4>2, Compare
      <4>4. Key(start) = s BY <1>2, <1>10, <4>3, SameBits
      <4> QED BY <1>2, <4>4, PrecedesIrreflexive
    <3> QED BY <1>12, <3>1, <3>2
  <2>3. S = {a}
    <3> HIDE DEF S
    <3> QED BY <1>1, <2>2
  <2>4. FirstOf(<<a>>, S, count) BY <2>3, FirstOfOne
  <2>5. r.ok /\ r.accounts = <<a>> /\ r.cursors = end BY <1>9, <2>1 DEF Found
  <2>6. /\ r.ok
        /\ FirstOf(r.accounts, S, count)
        /\ MovesBelow(tree, p, c, r.cursors)
    <3> HIDE DEF r, S
    <3> QED BY <1>8, <2>4, <2>5
  <2>7. Answers(tree, airdrop, start, p, count, c, r)
    <3> HIDE DEF r
    <3> QED BY <2>6 DEF Answers
  <2> QED BY <2>7 DEF cur
<1>13. compareBitStrings(Key(start), s) \in {"less", "greater", "starts with"}
  <2>1. Len(s) <= KeyLength BY KeyLengthType
  <2> QED BY <1>2, <1>10, <2>1, Compare
<1> QED BY <1>11, <1>12, <1>13 DEF cur
-----------------------------------------------------------------------------
(***************************************************************************)
(* The answer at a fork.                                                   *)
(***************************************************************************)
(* Moving the own cursor of p leaves both halves unread. *)
LEMMA HalfUnread ==
  ASSUME NEW tree, DOMAIN tree \subseteq Seq(Bit), NEW p \in DOMAIN tree,
         NEW s \in Seq(Bit), Extends(p, s),
         NEW b \in Bit, NEW c, NEW d, Unread(tree, p, c),
         Elsewhere(tree, p, c, d)
  PROVE Unread(tree, s \o <<b>>, d)
<1> SUFFICES ASSUME NEW q \in DOMAIN tree, IsPrefix(s \o <<b>>, q) PROVE d[q] = AtStart
  BY DEF Unread
<1>1. q \in Seq(Bit) /\ p \in Seq(Bit) OBVIOUS
<1>2. IsPrefix(p, q) /\ q # p BY <1>1, ForkPrefixes DEF Extends
<1> QED BY <1>2 DEF Unread, Elsewhere

(* A half that is skipped is a walk that moves nothing. *)
LEMMA MovesNothing ==
  ASSUME NEW tree, TypedTree(tree), NEW p, NEW c \in Cursors(tree), Unread(tree, p, c)
  PROVE MovesBelow(tree, p, c, c)
BY UnreadInCell DEF MovesBelow, Unread

(* What the walk of a half has to answer. *)
HalfAnswers(w, tree, airdrop, start, p) ==
  \A m \in Nat \ {0}, d \in Cursors(tree) :
    Unread(tree, p, d) => Answers(tree, airdrop, start, p, m, d, w[Visit(p, p, m, d)])

(* The cursor of p has gone over m references. *)
RefMoved(c, p, m) == [c EXCEPT ![p].ref = m]

(* That moves the cursor of p only. *)
LEMMA SetRef ==
  ASSUME NEW tree, NEW p \in DOMAIN tree, NEW c \in Cursors(tree), NEW m \in Nat,
         NEW d, d = RefMoved(c, p, m)
  PROVE /\ d \in Cursors(tree) /\ d[p].ref = m /\ d[p].bit = c[p].bit
        /\ Elsewhere(tree, p, c, d)
BY DEF Cursors, Elsewhere, RefMoved

(* The cursor of p has gone over m bits. *)
BitMoved(c, p, m) == [c EXCEPT ![p].bit = m]

(* After the label of p has been read nothing below p has been. *)
LEMMA Opened ==
  ASSUME NEW tree, NEW p \in DOMAIN tree, p \in Seq(Bit), NEW c \in Cursors(tree),
         Unread(tree, p, c), NEW n \in Nat
  PROVE /\ BitMoved(c, p, n) \in Cursors(tree)
        /\ BitMoved(c, p, n)[p].bit = n /\ BitMoved(c, p, n)[p].ref = 0
        /\ Elsewhere(tree, p, c, BitMoved(c, p, n))
<1>1. IsPrefix(p, p) BY PrefixOfItself
<1>2. c[p] = AtStart BY <1>1 DEF Unread
<1>3. c[p].ref = 0 BY <1>2 DEF AtStart
<1> QED BY <1>3 DEF Cursors, Elsewhere, BitMoved

(* The next reference is there, and its number is the only thing that      *)
(* moves.                                                                  *)
LEMMA NextRefIs ==
  ASSUME NEW tree, NEW p \in DOMAIN tree, NEW r, tree[p].refs = r,
         NEW c \in Cursors(tree), NEW m \in Nat, m <= Len(r), c[p].ref + 1 = m
  PROVE /\ NextRef(tree, p, c).ok
        /\ NextRef(tree, p, c).cell = r[m]
        /\ NextRef(tree, p, c).cursors \in Cursors(tree)
        /\ NextRef(tree, p, c).cursors[p].ref = m
        /\ NextRef(tree, p, c).cursors[p].bit = c[p].bit
        /\ Elsewhere(tree, p, c, NextRef(tree, p, c).cursors)
<1>1. \A d : d = RefMoved(c, p, m) =>
              /\ d \in Cursors(tree) /\ d[p].ref = m /\ d[p].bit = c[p].bit
              /\ Elsewhere(tree, p, c, d)
  <2> TAKE d
  <2> HAVE d = RefMoved(c, p, m)
  <2> QED BY SetRef
<1>2. PICK d : /\ d = RefMoved(c, p, m)
               /\ d \in Cursors(tree) /\ d[p].ref = m /\ d[p].bit = c[p].bit
               /\ Elsewhere(tree, p, c, d)
  <2>1. \E d : d = RefMoved(c, p, m) OBVIOUS
  <2> QED BY <1>1, <2>1, Zenon
<1>3. NextRef(tree, p, c) = [ok |-> TRUE, cell |-> r[m], cursors |-> d]
  BY <1>2 DEF NextRef, RefMoved
<1> QED BY <1>2, <1>3

(* A fork is answered right if both halves are: what the left half leaves  *)
(* to find, the right half is asked for, and a half before the start is not*)
(* needed.                                                                 *)
LEMMA ForkAnswers ==
  ASSUME NEW airdrop \in SUBSET Accounts, NEW start \in Accounts, NEW count \in Nat \ {0},
         NEW tree, TypedTree(tree), DOMAIN tree \subseteq Seq(Bit), NEW p \in DOMAIN tree,
         NEW s, IsStem(KeysOf(airdrop), p, s), Len(s) # KeyLength,
         s \o << 0 >> \in DOMAIN tree, s \o << 1 >> \in DOMAIN tree,
         tree[p].refs = <<s \o << 0 >>, s \o << 1 >> >>,
         NEW n \in Nat, n = Len(tree[p].bits),
         NEW c \in Cursors(tree), Unread(tree, p, c),
         NEW w, HalfAnswers(w, tree, airdrop, start, s \o << 0 >>),
         HalfAnswers(w, tree, airdrop, start, s \o << 1 >>)
  PROVE Answers(tree, airdrop, start, p, count, c,
                Branches(w, tree, Key(start), s, p, count, BitMoved(c, p, n)))
<1> DEFINE s0 == s \o <<0>>
           s1 == s \o <<1>>
           S0 == Wanted(airdrop, start, s0)
           S1 == Wanted(airdrop, start, s1)
           cur == BitMoved(c, p, n)
           skip == SkipLeft(Key(start), s)
           result == Branches(w, tree, Key(start), s, p, count, cur)
           first == NextRef(tree, p, cur)
           left == IF skip THEN Found(<<>>, first.cursors)
                   ELSE w[Visit(addBit(s, 0), first.cell, count, first.cursors)]
           second == NextRef(tree, p, left.cursors)
           right == w[Visit(addBit(s, 1), second.cell, count - Len(left.accounts), second.cursors)]
<1>1. /\ s \in Seq(Bit) /\ p \in Seq(Bit) /\ Len(s) \in Nat /\ Len(p) <= Len(s)
      /\ Len(s) < KeyLength /\ Extends(p, s)
  BY KeyLengthType, LenProperties DEF IsStem, Extends
<1>2. 0 \in Bit /\ 1 \in Bit BY DEF Bit
<1>3. addBit(s, 0) = s0 /\ addBit(s, 1) = s1 BY <1>1, <1>2, Extended DEF addBit
<1>4. /\ Wanted(airdrop, start, p) = S0 \cup S1
      /\ \A a \in S0, b \in S1 : Precedes(Key(a), Key(b))
  BY <1>1, ForkAccounts
<1>5. skip => S0 = {} BY <1>1, SkippedHalf
<1>6. result = CASE ~first.ok -> WalkError(cur)
                 [] first.ok /\ ~left.ok -> left
                 [] first.ok /\ left.ok /\ ~skip /\ Enough(left.accounts, count) -> left
                 [] OTHER ->
                      IF ~second.ok THEN WalkError(left.cursors)
                      ELSE IF ~right.ok THEN right
                      ELSE Found(left.accounts \o right.accounts, right.cursors)
  BY DEF Branches
<1>7. cur \in Cursors(tree) /\ cur[p].bit = n /\ cur[p].ref = 0
      /\ Elsewhere(tree, p, c, cur)
  BY <1>1, Opened
<1> HIDE DEF cur
<1> DEFINE r == <<s0, s1>>
<1>8. r \in Seq(DOMAIN tree) /\ Len(r) = 2 /\ r[1] = s0 /\ r[2] = s1 OBVIOUS
<1>9. tree[p].refs = r OBVIOUS
<1> HIDE DEF r, s0, s1, S0, S1
<1>10. /\ first.ok /\ first.cell = s0 /\ first.cursors \in Cursors(tree)
       /\ first.cursors[p].ref = 1 /\ first.cursors[p].bit = n
       /\ Elsewhere(tree, p, c, first.cursors)
  <2>1. 1 \in Nat /\ 1 <= Len(r) /\ cur[p].ref + 1 = 1 BY <1>7, <1>8
  <2>2. /\ first.ok /\ first.cell = r[1] /\ first.cursors \in Cursors(tree)
        /\ first.cursors[p].ref = 1 /\ first.cursors[p].bit = cur[p].bit
        /\ Elsewhere(tree, p, cur, first.cursors)
    BY <1>7, <1>9, <2>1, NextRefIs
  <2> HIDE DEF first
  <2> QED BY <1>7, <1>8, <2>2 DEF Elsewhere
<1> HIDE DEF first
<1>11. Unread(tree, s0, first.cursors)
  <2>1. \A b \in Bit : Unread(tree, s \o <<b>>, first.cursors) BY <1>1, <1>10, HalfUnread
  <2> QED BY <1>2, <2>1 DEF s0
<1>12. /\ left.ok /\ FirstOf(left.accounts, S0, count)
       /\ MovesBelow(tree, s0, first.cursors, left.cursors)
       /\ skip => Len(left.accounts) # count
  <2>1. CASE skip
    <3>1. left = Found(<<>>, first.cursors) BY <2>1
    <3>2. left.ok /\ left.accounts = <<>> /\ left.cursors = first.cursors BY <3>1 DEF Found
    <3>3. S0 = {} BY <1>5, <2>1
    <3>4. FirstOf(<<>>, S0, count) BY <3>3, FirstOfNone
    <3>5. MovesBelow(tree, s0, first.cursors, first.cursors) BY <1>10, <1>11, MovesNothing
    <3>6. Len(<<>>) # count OBVIOUS
    <3> HIDE DEF left
    <3> QED BY <3>2, <3>4, <3>5, <3>6
  <2>2. CASE ~skip
    <3>1. left = w[Visit(s0, s0, count, first.cursors)] BY <1>3, <1>10, <2>2
    <3>2. HalfAnswers(w, tree, airdrop, start, s0) BY DEF s0
    <3>3. Answers(tree, airdrop, start, s0, count, first.cursors, left)
      <4> HIDE DEF left
      <4> QED BY <1>10, <1>11, <3>1, <3>2 DEF HalfAnswers
    <3> HIDE DEF left
    <3> QED BY <2>2, <3>3 DEF Answers, S0
  <2> QED BY <2>1, <2>2
<1> HIDE DEF left
<1>13. left.cursors \in Cursors(tree) BY <1>12 DEF MovesBelow
<1>14. InCell(tree, first.cursors, p)
  <2>1. 1 <= Len(tree[p].refs) /\ n <= Len(tree[p].bits) BY <1>8, <1>9
  <2> QED BY <1>10, <2>1 DEF InCell
<1>15. left.cursors[p] = first.cursors[p]
  <2>1. ~IsPrefix(s0, p)
    <3>1. \A b \in Bit : IsPrefix(s \o <<b>>, p) => IsPrefix(p, p) /\ p # p
      BY <1>1, ForkPrefixes DEF Extends
    <3> QED BY <1>2, <3>1 DEF s0
  <2> QED BY <1>12, <2>1 DEF MovesBelow
<1>16. /\ second.ok /\ second.cell = s1 /\ second.cursors \in Cursors(tree)
       /\ second.cursors[p].ref = 2 /\ second.cursors[p].bit = n
       /\ Elsewhere(tree, p, left.cursors, second.cursors)
  <2>1. left.cursors[p].ref = 1 /\ left.cursors[p].bit = n BY <1>10, <1>15
  <2>2. 2 \in Nat /\ 2 <= Len(r) /\ left.cursors[p].ref + 1 = 2 BY <1>8, <2>1
  <2>3. /\ second.ok /\ second.cell = r[2] /\ second.cursors \in Cursors(tree)
        /\ second.cursors[p].ref = 2 /\ second.cursors[p].bit = left.cursors[p].bit
        /\ Elsewhere(tree, p, left.cursors, second.cursors)
    BY <1>9, <1>13, <2>2, NextRefIs
  <2> HIDE DEF second
  <2> QED BY <1>8, <2>1, <2>3
<1> HIDE DEF second
<1>17. InCell(tree, second.cursors, p)
  <2>1. 2 <= Len(tree[p].refs) /\ n <= Len(tree[p].bits) BY <1>8, <1>9
  <2> QED BY <1>16, <2>1 DEF InCell
<1>18. ASSUME NEW d \in Cursors(tree)
       PROVE /\ MovesBelow(tree, p, c, left.cursors)
             /\ Unread(tree, s1, second.cursors)
             /\ MovesBelow(tree, s1, second.cursors, d) => MovesBelow(tree, p, c, d)
  <2>1. MovesBelow(tree, s \o <<0>>, first.cursors, left.cursors) BY <1>12 DEF s0
  <2>2. /\ MovesBelow(tree, p, c, left.cursors)
        /\ Unread(tree, s \o <<1>>, second.cursors)
        /\ MovesBelow(tree, s \o <<1>>, second.cursors, d) => MovesBelow(tree, p, c, d)
    <3> DEFINE c1 == first.cursors
               l == left.cursors
               c2 == second.cursors
    <3>1. c1 \in Cursors(tree) /\ l \in Cursors(tree) /\ c2 \in Cursors(tree)
          /\ InCell(tree, c1, p) /\ InCell(tree, c2, p)
          /\ MovesBelow(tree, s \o <<0>>, c1, l)
      BY <1>10, <1>13, <1>14, <1>16, <1>17, <2>1
    <3>2. /\ Elsewhere(tree, p, c, c1)
          /\ Elsewhere(tree, p, l, c2)
      BY <1>10, <1>16
    <3> HIDE DEF c1, l, c2
    <3>3. /\ MovesBelow(tree, p, c, l)
          /\ Unread(tree, s \o <<1>>, c2)
          /\ MovesBelow(tree, s \o <<1>>, c2, d) => MovesBelow(tree, p, c, d)
      BY <1>1, <3>1, <3>2, HalfCursors
    <3> QED BY <3>3 DEF c1, l, c2
  <2> QED BY <2>2 DEF s1
<1>19. left.accounts \in Seq(S0) /\ Len(left.accounts) \in Nat /\ Len(left.accounts) <= count
  BY <1>12, LenProperties DEF FirstOf
<1>20. CASE ~skip /\ Len(left.accounts) = count
  <2>1. result = left BY <1>6, <1>10, <1>12, <1>20 DEF Enough
  <2>2. FirstOf(left.accounts, S0 \cup S1, count) BY <1>4, <1>12, <1>20, FirstOfFull
  <2>3. MovesBelow(tree, p, c, left.cursors) BY <1>13, <1>18
  <2>4. Answers(tree, airdrop, start, p, count, c, left) BY <1>4, <1>12, <2>2, <2>3 DEF Answers
  <2> QED BY <2>1, <2>4 DEF cur
<1>21. CASE Len(left.accounts) # count
  <2> DEFINE m == count - Len(left.accounts)
  <2>1. m \in Nat \ {0} BY <1>19, <1>21
  <2>2. right = w[Visit(s1, s1, m, second.cursors)] BY <1>3, <1>16
  <2> HIDE DEF right, m
  <2>3. Answers(tree, airdrop, start, s1, m, second.cursors, right)
    <3>1. HalfAnswers(w, tree, airdrop, start, s1) BY DEF s1
    <3> QED BY <1>13, <1>16, <1>18, <2>1, <2>2, <3>1 DEF HalfAnswers
  <2>4. right.ok /\ FirstOf(right.accounts, S1, m) BY <2>3 DEF Answers, S1
  <2>5. MovesBelow(tree, s1, second.cursors, right.cursors) BY <2>3 DEF Answers
  <2>6. MovesBelow(tree, p, c, right.cursors)
    <3>1. right.cursors \in Cursors(tree) BY <2>5 DEF MovesBelow
    <3> QED BY <1>18, <2>5, <3>1
  <2>7. FirstOf(left.accounts \o right.accounts, S0 \cup S1, count)
    BY <1>4, <1>12, <1>21, <2>4, FirstOfConcat DEF m
  <2> DEFINE f == Found(left.accounts \o right.accounts, right.cursors)
  <2>8. result = f
    <3> HIDE DEF f
    <3>1. ~(~skip /\ Enough(left.accounts, count)) BY <1>21 DEF Enough
    <3> QED BY <1>6, <1>10, <1>12, <1>16, <2>4, <3>1 DEF f
  <2>9. f.ok /\ f.accounts = left.accounts \o right.accounts /\ f.cursors = right.cursors
    BY DEF Found
  <2> HIDE DEF f
  <2>10. Answers(tree, airdrop, start, p, count, c, f)
    BY <1>4, <2>6, <2>7, <2>9 DEF Answers
  <2> QED BY <2>8, <2>10 DEF cur
<1> QED BY <1>12, <1>20, <1>21
-----------------------------------------------------------------------------
(***************************************************************************)
(* The answer at every cell.                                               *)
(***************************************************************************)
(* A cell all of whose keys are before the start has nothing that is       *)
(* wanted.                                                                 *)
LEMMA BehindStart ==
  ASSUME NEW airdrop \in SUBSET Accounts, NEW start \in Accounts, NEW count \in Nat \ {0},
         NEW tree, TypedTree(tree), NEW p \in DOMAIN tree, p \in Seq(Bit),
         NEW s, IsStem(KeysOf(airdrop), p, s),
         compareBitStrings(Key(start), s) = "greater",
         NEW c \in Cursors(tree), Unread(tree, p, c), NEW n \in Nat, n <= Len(tree[p].bits)
  PROVE Answers(tree, airdrop, start, p, count, c, Found(<<>>, BitMoved(c, p, n)))
<1>1. \A a \in airdrop : IsPrefix(p, Key(a)) => Precedes(Key(a), Key(start))
  <2> SUFFICES ASSUME NEW a \in airdrop, IsPrefix(p, Key(a)) PROVE Precedes(Key(a), Key(start))
    OBVIOUS
  <2>1. Key(start) \in KeyBits /\ Key(a) \in KeyBits BY KeyType
  <2>2. s \in Seq(Bit) /\ Len(s) <= KeyLength BY DEF IsStem
  <2>3. "greater" # "less" /\ "greater" # "starts with" OBVIOUS
  <2>4. \A j \in KeyBits : (\A i \in 1..Len(s) : j[i] = s[i]) => Precedes(j, Key(start))
    BY <2>1, <2>2, <2>3, Compare
  <2>5. \A i \in 1..Len(s) : Key(a)[i] = s[i] BY WantedBelowStem
  <2> QED BY <2>1, <2>4, <2>5
<1> DEFINE S == Wanted(airdrop, start, p)
           cur == BitMoved(c, p, n)
           r == Found(<<>>, cur)
<1>2. S = {} BY <1>1, NothingWanted
<1>3. /\ cur \in Cursors(tree) /\ cur[p].bit = n /\ cur[p].ref = 0
      /\ Elsewhere(tree, p, c, cur)
  BY Opened
<1>4. Len(tree[p].refs) \in Nat BY DEF TypedTree
<1>5. r.ok /\ r.accounts = <<>> /\ r.cursors = cur BY DEF Found
<1> HIDE DEF cur, S, r
<1>6. InCell(tree, cur, p) BY <1>3, <1>4 DEF InCell
<1>7. MovesBelow(tree, p, c, cur) BY <1>3, <1>6, OwnCursor
<1>8. FirstOf(<<>>, S, count) BY <1>2, FirstOfNone
<1>9. Answers(tree, airdrop, start, p, count, c, r) BY <1>5, <1>7, <1>8 DEF Answers, S
<1> QED BY <1>9 DEF r, cur

(* The body of walk is right at p if w is right at the cells below. *)
LEMMA CellAnswers ==
  ASSUME NEW airdrop \in SUBSET Accounts, airdrop # {}, NEW style,
         NEW tree, tree = TreeOf(KeysOf(airdrop), style),
         NEW start \in Accounts, NEW p \in DOMAIN tree, NEW count \in Nat \ {0},
         NEW c \in Cursors(tree), Unread(tree, p, c),
         NEW w, \A q \in DOMAIN tree : Len(p) < Len(q) => HalfAnswers(w, tree, airdrop, start, q)
  PROVE Answers(tree, airdrop, start, p, count, c,
                WalkCell(w, tree, Key(start), Visit(p, p, count, c)))
<1> DEFINE keys == KeysOf(airdrop)
           k == Key(start)
           s == Stem(keys, p)
           label == StemLabel(keys, p)
           n == Len(CellLabelBits(keys, style, p))
           size == KeyLength - Len(p)
           cur == BitMoved(c, p, n)
           result == WalkCell(w, tree, k, Visit(p, p, count, c))
<1>1. keys \in SUBSET KeyBits /\ keys # {}
  <2>1. PICK a : a \in airdrop OBVIOUS
  <2>2. Key(a) \in keys BY <2>1 DEF KeysOf
  <2> QED BY <2>2, KeysOfType
<1>2. DOMAIN tree = CellNames(keys) /\ tree[p] = CellAt(keys, style, p) BY DEF TreeOf
<1> HIDE DEF keys
<1>3. p \in Seq(Bit) /\ Len(p) \in Nat /\ Len(p) <= KeyLength /\ Below(keys, p) # {}
      /\ DOMAIN tree \subseteq Seq(Bit)
  BY <1>1, <1>2, CellNameType, LenProperties
<1>4. TypedTree(tree) BY <1>1, TreeIsTyped DEF keys
<1>5. k \in KeyBits /\ Len(k) = KeyLength /\ KeyLength \in Nat BY KeyType, KeyBitsType, KeyLengthType
<1>6. IsStem(keys, p, s) BY <1>1, <1>3, StemIsStem
<1>7. /\ label \in Seq(Bit) /\ Len(label) = Len(s) - Len(p) /\ p \o label = s
  BY <1>1, <1>3, StemLabelType
<1>8. readCommonPrefix(size, tree[p].bits, 0) = LabelRead(label, n)
  BY <1>1, <1>2, <1>3, CellRead
<1>9. /\ n \in Nat
      /\ Len(s) = KeyLength => Len(tree[p].bits) = n + 1 /\ tree[p].bits[n + 1] = Data
      /\ Len(s) # KeyLength => /\ Len(tree[p].bits) = n
                               /\ tree[p].refs = <<s \o <<0>>, s \o <<1>> >>
  <2> DEFINE cell == CellAt(keys, style, p)
             lb == CellLabelBits(keys, style, p)
  <2>1. /\ Len(s) = KeyLength => Len(cell.bits) = Len(lb) + 1 /\ cell.bits[Len(lb) + 1] = Data
        /\ Len(s) # KeyLength => /\ cell.bits = lb
                                 /\ cell.refs = <<s \o <<0>>, s \o <<1>> >>
        /\ Len(lb) \in Nat
    BY <1>1, <1>3, CellShape
  <2> HIDE DEF cell, lb, s
  <2>2. tree[p] = cell BY <1>2 DEF cell
  <2>3. n = Len(lb) BY DEF lb
  <2> HIDE DEF n
  <2> QED BY <2>1, <2>2, <2>3
<1>10. c[p].bit = 0
  <2>1. IsPrefix(p, p) BY <1>3, PrefixOfItself
  <2> QED BY <2>1 DEF Unread, AtStart
<1> HIDE DEF k, s, label, n
<1>11. result =
         IF Len(label) = size THEN Leaf(tree, k, s, p, cur)
         ELSE CASE compareBitStrings(k, s) = "error" -> WalkError(cur)
                [] compareBitStrings(k, s) = "greater" -> Found(<<>>, cur)
                [] OTHER -> Branches(w, tree, k, s, p, count, cur)
  <2> DEFINE v == Visit(p, p, count, c)
             read == readCommonPrefix(Len(k) - Len(v.prefix), tree[v.cell].bits,
                                      v.cursors[v.cell].bit)
  <2>1. v.prefix = p /\ v.cell = p /\ v.count = count /\ v.cursors = c BY DEF Visit
  <2>2. Len(k) - Len(v.prefix) = size BY <1>5, <2>1
  <2>3. read = LabelRead(label, n) BY <1>8, <1>10, <2>1, <2>2
  <2>4. read.ok /\ read.label = label /\ read.pos = n
    <3> HIDE DEF read
    <3> QED BY <2>3 DEF LabelRead
  <2>5. concatBitStrings(v.prefix, read.label) = s
    <3> HIDE DEF read, v
    <3> QED BY <1>7, <2>1, <2>4 DEF concatBitStrings
  <2>6. [v.cursors EXCEPT ![v.cell].bit = read.pos] = cur
    <3> HIDE DEF read, v
    <3> QED BY <2>1, <2>4 DEF BitMoved
  <2>7. WalkCell(w, tree, k, v) =
          CASE ~read.ok -> WalkError(v.cursors)
            [] read.ok /\ Len(read.label) = Len(k) - Len(v.prefix) ->
                 Leaf(tree, k, concatBitStrings(v.prefix, read.label), v.cell,
                      [v.cursors EXCEPT ![v.cell].bit = read.pos])
            [] OTHER ->
                 CASE compareBitStrings(k, concatBitStrings(v.prefix, read.label)) = "error" ->
                        WalkError([v.cursors EXCEPT ![v.cell].bit = read.pos])
                   [] compareBitStrings(k, concatBitStrings(v.prefix, read.label)) = "greater" ->
                        Found(<<>>, [v.cursors EXCEPT ![v.cell].bit = read.pos])
                   [] OTHER ->
                        Branches(w, tree, k, concatBitStrings(v.prefix, read.label), v.cell, v.count,
                                 [v.cursors EXCEPT ![v.cell].bit = read.pos])
    BY DEF WalkCell
  <2> HIDE DEF v, read, cur, size
  <2>8. result = WalkCell(w, tree, k, v) BY DEF v
  <2> QED BY <2>1, <2>2, <2>4, <2>5, <2>6, <2>7, <2>8
<1> HIDE DEF result
<1>12. Len(s) \in Nat /\ s \in Seq(Bit) /\ Len(s) <= KeyLength /\ Len(p) <= Len(s)
  BY <1>6, LenProperties DEF IsStem
<1>13. CASE Len(s) = KeyLength
  <2>1. result = Leaf(tree, k, s, p, cur) BY <1>3, <1>7, <1>11, <1>13
  <2>2. Answers(tree, airdrop, start, p, count, c,
                Leaf(tree, Key(start), s, p, [c EXCEPT ![p].bit = n]))
    BY <1>3, <1>4, <1>6, <1>9, <1>13, LeafAnswers DEF keys
  <2> QED BY <2>1, <2>2 DEF result, k, BitMoved
<1>14. CASE Len(s) # KeyLength
  <2>1. Len(label) # size BY <1>3, <1>5, <1>7, <1>12, <1>14
  <2>2. compareBitStrings(k, s) \in {"less", "greater", "starts with"}
    BY <1>5, <1>12, Compare
  <2>3. CASE compareBitStrings(k, s) = "greater"
    <3>1. "greater" # "error" OBVIOUS
    <3>2. result = Found(<<>>, cur) BY <1>11, <2>1, <2>3, <3>1
    <3>3. n <= Len(tree[p].bits) BY <1>9, <1>14
    <3>4. Answers(tree, airdrop, start, p, count, c, Found(<<>>, cur))
      BY <1>3, <1>4, <1>6, <1>9, <2>3, <3>3, BehindStart DEF keys, k
    <3> QED BY <3>2, <3>4 DEF result, k
  <2>4. CASE compareBitStrings(k, s) # "greater"
    <3>1. compareBitStrings(k, s) # "error" BY <2>2
    <3>2. result = Branches(w, tree, k, s, p, count, cur) BY <1>11, <2>1, <2>4, <3>1
    <3>3. Forks(keys, s) BY <1>6, <1>14 DEF IsStem
    <3>4. ASSUME NEW b \in Bit
          PROVE s \o <<b>> \in DOMAIN tree /\ HalfAnswers(w, tree, airdrop, start, s \o <<b>>)
      <4>1. s \o <<b>> \in DOMAIN tree BY <1>1, <1>2, <1>12, <3>3, ChildIsCell
      <4>2. Len(s \o <<b>>) = Len(s) + 1 BY <1>12, Extended
      <4>3. Len(p) < Len(s \o <<b>>) BY <1>3, <1>12, <4>2
      <4> QED BY <4>1, <4>3
    <3>5. 0 \in Bit /\ 1 \in Bit BY DEF Bit
    <3>6. s \o <<0>> \in DOMAIN tree /\ s \o <<1>> \in DOMAIN tree
          /\ HalfAnswers(w, tree, airdrop, start, s \o <<0>>)
          /\ HalfAnswers(w, tree, airdrop, start, s \o <<1>>)
      BY <3>4, <3>5
    <3>7. n = Len(tree[p].bits) /\ tree[p].refs = <<s \o <<0>>, s \o <<1>> >> BY <1>9, <1>14
    <3>8. Answers(tree, airdrop, start, p, count, c, Branches(w, tree, Key(start), s, p, count, cur))
      BY <1>3, <1>4, <1>6, <1>9, <1>14, <3>6, <3>7, ForkAnswers DEF keys
    <3> QED BY <3>2, <3>8 DEF result, k
  <2> QED BY <2>3, <2>4
<1> QED BY <1>13, <1>14 DEF result, k

(* walk (enumerate.go) is right, for every airdrop, encoding of its labels,*)
(* start, number of accounts asked for and length of account ids: on cells *)
(* nobody has read since the reset it does not fail and returns the first  *)
(* "count" accounts in the order of the keys, from the start on, although  *)
(* it skips the left half of a fork on one condition and the right half on *)
(* another.  The cell with the longest name at which this failed would have*)
(* its two halves right.                                                   *)
THEOREM WalkAnswers ==
  ASSUME NEW airdrop \in SUBSET Accounts, airdrop # {}, NEW style,
         NEW tree, tree = TreeOf(KeysOf(airdrop), style), NEW start \in Accounts
  PROVE \A p \in DOMAIN tree : HalfAnswers(walk(tree, Key(start)), tree, airdrop, start, p)
<1> DEFINE w == walk(tree, Key(start))
           Right(p) == HalfAnswers(w, tree, airdrop, start, p)
           S == { n \in Nat : \E p \in DOMAIN tree : ~Right(p) /\ n = KeyLength - Len(p) }
<1>0. KeyLength \in Nat BY KeyLengthType
<1>1. KeysOf(airdrop) \in SUBSET KeyBits /\ KeysOf(airdrop) # {}
  <2>1. PICK a : a \in airdrop OBVIOUS
  <2>2. Key(a) \in KeysOf(airdrop) BY <2>1 DEF KeysOf
  <2> QED BY <2>2, KeysOfType
<1>2. TypedTree(tree) BY <1>1, TreeIsTyped
<1>3. \A p \in DOMAIN tree : Len(p) \in 0..KeyLength /\ p \in Seq(Bit)
  <2>1. DOMAIN tree = CellNames(KeysOf(airdrop)) BY DEF TreeOf
  <2> QED BY <1>1, <1>2, <2>1, CellNameType DEF TypedTree
<1> HIDE DEF w
<1>4. ASSUME NEW p \in DOMAIN tree, \A q \in DOMAIN tree : Len(p) < Len(q) => Right(q)
      PROVE Right(p)
  <2>1. ASSUME NEW m \in Nat \ {0}, NEW d \in Cursors(tree), Unread(tree, p, d)
        PROVE Answers(tree, airdrop, start, p, m, d, w[Visit(p, p, m, d)])
    <3>1. Visit(p, p, m, d) \in Visits(tree) BY <1>3 DEF Visit, Visits
    <3>2. Key(start) \in KeyBits BY KeyType
    <3>3. w[Visit(p, p, m, d)] = WalkCell(w, tree, Key(start), Visit(p, p, m, d))
      BY <1>2, <3>1, <3>2, WalkUnfolds DEF w
    <3>4. \A q \in DOMAIN tree : Len(p) < Len(q) => HalfAnswers(w, tree, airdrop, start, q)
      BY <1>4
    <3>5. Answers(tree, airdrop, start, p, m, d, WalkCell(w, tree, Key(start), Visit(p, p, m, d)))
      BY <2>1, <3>4, CellAnswers
    <3> QED BY <3>3, <3>5
  <2> QED BY <2>1 DEF HalfAnswers
<1> HIDE DEF Right
<1>5. S = {}
  <2> SUFFICES ASSUME S # {} PROVE FALSE OBVIOUS
  <2>1. PICK n \in S : \A m \in S : n <= m
    <3>1. S \in SUBSET Nat OBVIOUS
    <3> HIDE DEF S
    <3> QED BY <3>1, Least
  <2>2. PICK p \in DOMAIN tree : ~Right(p) /\ n = KeyLength - Len(p) OBVIOUS
  <2>3. PICK q \in DOMAIN tree : Len(p) < Len(q) /\ ~Right(q) BY <1>4, <2>2
  <2>4. KeyLength - Len(q) \in Nat /\ KeyLength - Len(q) < n BY <1>0, <1>3, <2>2, <2>3
  <2>5. KeyLength - Len(q) \in S BY <2>3, <2>4
  <2> QED BY <2>1, <2>4, <2>5
<1>6. \A p \in DOMAIN tree : Right(p)
  <2> SUFFICES ASSUME NEW p \in DOMAIN tree, ~Right(p) PROVE FALSE OBVIOUS
  <2>1. KeyLength - Len(p) \in Nat BY <1>0, <1>3
  <2>2. KeyLength - Len(p) \in S BY <2>1
  <2> QED BY <1>5, <2>2
<1> QED BY <1>6 DEF Right, w
-----------------------------------------------------------------------------
(***************************************************************************)
(* Pages: the order of accounts, and a listed part of a set of them.       *)
(***************************************************************************)
(* The order of accounts is that of their keys. *)
LEMMA AccountOrder ==
  /\ \A a \in Accounts : ~Precedes(Key(a), Key(a))
  /\ \A a, b \in Accounts : Precedes(Key(a), Key(b)) => ~Precedes(Key(b), Key(a))
  /\ \A a, b, c \in Accounts :
       Precedes(Key(a), Key(b)) /\ Precedes(Key(b), Key(c)) => Precedes(Key(a), Key(c))
  /\ \A a, b \in Accounts : a = b \/ Precedes(Key(a), Key(b)) \/ Precedes(Key(b), Key(a))
<1>1. \A a \in Accounts : ~Precedes(Key(a), Key(a)) BY KeyType, PrecedesIrreflexive
<1>2. ASSUME NEW a \in Accounts, NEW b \in Accounts, Precedes(Key(a), Key(b))
      PROVE ~Precedes(Key(b), Key(a))
  <2>1. Key(a) \in KeyBits /\ Key(b) \in KeyBits BY KeyType
  <2> QED BY <1>2, <2>1, NotBoth
<1>3. ASSUME NEW a \in Accounts, NEW b \in Accounts, NEW c \in Accounts,
             Precedes(Key(a), Key(b)), Precedes(Key(b), Key(c))
      PROVE Precedes(Key(a), Key(c))
  <2>1. Key(a) \in KeyBits /\ Key(b) \in KeyBits /\ Key(c) \in KeyBits BY KeyType
  <2> QED BY <1>3, <2>1, PrecedesTransitive
<1>4. ASSUME NEW a \in Accounts, NEW b \in Accounts
      PROVE a = b \/ Precedes(Key(a), Key(b)) \/ Precedes(Key(b), Key(a))
  <2>1. Key(a) \in KeyBits /\ Key(b) \in KeyBits BY KeyType
  <2>2. Key(a) = Key(b) => a = b BY KeyInjective
  <2> QED BY <2>1, <2>2, PrecedesTotal
<1> QED BY <1>1, <1>2, <1>3, <1>4

(* s is all of S in the order of the keys. *)
Lists(s, S) ==
  /\ s \in Seq(S)
  /\ Increasing(s)
  /\ \A a \in S : \E i \in 1..Len(s) : s[i] = a

(* Those of S before x. *)
Before(S, x) == { a \in S : Precedes(Key(a), Key(x)) }

(* Two lists, the accounts of one before those of the other, joined. *)
LEMMA ListsConcat ==
  ASSUME NEW S, NEW T, NEW s, NEW t, Lists(s, S), Lists(t, T),
         \A a \in S, b \in T : Precedes(Key(a), Key(b))
  PROVE Lists(s \o t, S \cup T)
<1>1. s \in Seq(S) /\ t \in Seq(T) BY DEF Lists
<1>2. Len(s) \in Nat /\ Len(t) \in Nat BY <1>1, LenProperties
<1>3. PICK n \in Nat : n = Len(s) + Len(t) + 1 BY <1>2
<1>4. Len(s) <= n /\ Len(s) # n /\ n - Len(s) \in Nat /\ Len(t) <= n - Len(s) BY <1>2, <1>3
<1>5. FirstOf(s, S, n) /\ FirstOf(t, T, n - Len(s)) BY <1>4 DEF Lists, FirstOf
<1>6. FirstOf(s \o t, S \cup T, n) BY <1>4, <1>5, FirstOfConcat
<1>7. Len(s \o t) = Len(s) + Len(t) BY <1>1, ConcatProperties, SeqMonotonic
<1>8. Len(s \o t) # n BY <1>2, <1>3, <1>7
<1> QED BY <1>6, <1>8 DEF FirstOf, Lists

(* What a page and the account read in excess are. *)
LEMMA PageLists ==
  ASSUME NEW S \in SUBSET Accounts, NEW s, NEW n \in Nat, FirstOf(s, S, n + 1)
  PROVE /\ s \in Seq(S)
        /\ Len(s) # n + 1 => Len(s) <= n /\ Lists(s, S)
        /\ Len(s) = n + 1 => /\ Last(s) \in S
                             /\ Lists(Front(s), Before(S, Last(s)))
                             /\ Len(Front(s)) = n
<1>1. s \in Seq(S) /\ Len(s) \in Nat BY LenProperties DEF FirstOf
<1>2. ASSUME Len(s) # n + 1 PROVE Len(s) <= n /\ Lists(s, S) BY <1>1, <1>2 DEF FirstOf, Lists
<1>3. ASSUME Len(s) = n + 1
      PROVE /\ Last(s) \in S
            /\ Lists(Front(s), Before(S, Last(s)))
            /\ Len(Front(s)) = n
  <2> DEFINE x == s[n + 1]
             f == Front(s)
             B == Before(S, x)
  <2>1. n + 1 \in 1..Len(s) /\ \A i \in 1..n : i \in 1..Len(s) BY <1>3
  <2>2. \A i \in 1..Len(s) : s[i] \in S BY <1>1, ElementOfSeq
  <2>3. x \in S BY <2>1, <2>2
  <2>4. Last(s) = x BY <1>3 DEF Last
  <2>5. \A i \in 1..n : Precedes(Key(s[i]), Key(x))
    <3>1. \A i \in 1..n : i < n + 1 OBVIOUS
    <3> QED BY <2>1, <3>1 DEF FirstOf, Increasing
  <2>6. \A i \in 1..n : s[i] \in B BY <2>1, <2>2, <2>5 DEF Before
  <2>7. f = SubSeq(s, 1, n)
    <3>1. Len(s) - 1 = n BY <1>3
    <3> QED BY <3>1 DEF Front
  <2>8. f \in Seq(B) /\ Len(f) = n /\ \A i \in 1..n : f[i] = s[i]
    <3> HIDE DEF B, f
    <3>1. /\ f \in Seq(B)
          /\ Len(f) = IF 1 <= n THEN n - 1 + 1 ELSE 0
          /\ \A i \in 1..n - 1 + 1 : f[i] = s[1 + i - 1]
      BY <2>6, <2>7, SubSeqProperties
    <3>2. n - 1 + 1 = n /\ \A i \in 1..n : 1 + i - 1 = i OBVIOUS
    <3>3. Len(f) = n BY <3>1, <3>2
    <3>4. \A i \in 1..n : f[i] = s[i] BY <3>1, <3>2
    <3> QED BY <3>1, <3>3, <3>4
  <2> HIDE DEF f
  <2>9. Increasing(f)
    <3>1. \A i, j \in 1..n : i < j => Precedes(Key(s[i]), Key(s[j]))
      BY <2>1 DEF FirstOf, Increasing
    <3> QED BY <2>8, <3>1 DEF Increasing
  <2>10. ASSUME NEW a \in B PROVE \E i \in 1..Len(f) : f[i] = a
    <3>1. a \in S /\ Precedes(Key(a), Key(x)) BY DEF Before
    <3>2. a \in Accounts /\ x \in Accounts BY <2>3, <3>1
    <3>3. ~Precedes(Key(x), Key(a)) /\ a # x BY <3>1, <3>2, AccountOrder
    <3>4. PICK i \in 1..Len(s) : s[i] = a BY <2>1, <3>1, <3>3 DEF FirstOf
    <3>5. i # n + 1 BY <3>3, <3>4
    <3>6. i \in 1..n BY <1>3, <3>5
    <3> QED BY <2>8, <3>4, <3>6
  <2>11. Lists(f, B) BY <2>8, <2>9, <2>10 DEF Lists
  <2> HIDE DEF x
  <2> QED BY <2>3, <2>4, <2>8, <2>11 DEF f
<1> QED BY <1>1, <1>2, <1>3

(* Nothing comes before the account of zeros. *)
LEMMA NothingBeforeZero ==
  ASSUME NEW a \in Accounts
  PROVE ZeroAccount \in Accounts /\ ~Precedes(Key(a), Key(ZeroAccount))
<1>1. ZeroAccount \in Accounts BY DEF ZeroAccount, Accounts, Bit
<1>2. Key(a) \in KeyBits /\ Key(ZeroAccount) \in KeyBits BY <1>1, KeyType
<1>3. Key(a)[1] = 1 /\ Key(ZeroAccount)[2] = 0 BY <1>1, KeyType
<1>4. ASSUME NEW i \in 1..KeyLength, Key(ZeroAccount)[i] = 1, Key(a)[i] = 0 PROVE FALSE
  <2>1. i # 1 /\ i # 2 BY <1>3, <1>4
  <2>2. i - 2 \in 1..AccountBits /\ (i - 2) + 2 = i BY <2>1, KeyLengthType
  <2>3. Key(ZeroAccount)[i] = ZeroAccount[i - 2] BY <1>1, <2>2, KeyType
  <2>4. ZeroAccount[i - 2] = 0 BY <2>2 DEF ZeroAccount
  <2> QED BY <1>4, <2>3, <2>4
<1> QED BY <1>1, <1>2, <1>4, PrecedesPointwise
-----------------------------------------------------------------------------
(***************************************************************************)
(* Ordered, without counting.                                              *)
(***************************************************************************)
(* There are finitely many accounts. *)
LEMMA AccountsFinite == IsFiniteSet(Accounts)
<1> DEFINE B == SUBSET (1..AccountBits)
           Ones(a) == { i \in 1..AccountBits : a[i] = 1 }
           f == [a \in Accounts |-> Ones(a)]
<1>1. AccountBits \in Nat BY WalkAssumption
<1>2. IsFiniteSet(1..AccountBits) BY <1>1, FS_Interval
<1>3. IsFiniteSet(B) BY <1>2, FS_SUBSET
<1>4. f \in [Accounts -> B] OBVIOUS
<1>5. ASSUME NEW a \in Accounts, NEW b \in Accounts, f[a] = f[b] PROVE a = b
  <2>1. Ones(a) = Ones(b) BY <1>5
  <2>2. a \in [1..AccountBits -> Bit] /\ b \in [1..AccountBits -> Bit] BY DEF Accounts
  <2>3. ASSUME NEW i \in 1..AccountBits PROVE a[i] = b[i]
    <3>1. a[i] \in {0, 1} /\ b[i] \in {0, 1} BY <2>2 DEF Bit
    <3>2. a[i] = 1 <=> b[i] = 1 BY <2>1
    <3> QED BY <3>1, <3>2
  <2> QED BY <2>3, KeyType, SeqEqual
<1>6. f \in Injection(Accounts, B)
  <2> HIDE DEF f, B
  <2> QED BY <1>4, <1>5 DEF Injection, IsInjective
<1> QED BY <1>3, <1>6, FS_Injection

(* Nothing is twice in s. *)
Once(s) == \A i, j \in 1..Len(s) : s[i] = s[j] => i = j

(* The first n members of s. *)
FirstMembersOf(s, n) == { s[i] : i \in 1..n }

(* The first n members of a sequence without repetitions are n. *)
LEMMA FirstMembers ==
  ASSUME NEW S, NEW s \in Seq(S), NEW n \in Nat, n <= Len(s),
         Once(s)
  PROVE /\ IsFiniteSet(FirstMembersOf(s, n))
        /\ Cardinality(FirstMembersOf(s, n)) = n
<1> DEFINE T == { s[i] : i \in 1..n }
           f == [i \in 1..n |-> s[i]]
<1>0. Len(s) \in Nat BY LenProperties
<1>1. \A i \in 1..n : i \in 1..Len(s) BY <1>0
<1>2. f \in [1..n -> T] OBVIOUS
<1>3. \A i, j \in 1..n : f[i] = f[j] => i = j BY <1>1 DEF Once
<1>4. \A t \in T : \E i \in 1..n : f[i] = t OBVIOUS
<1>5. f \in Bijection(1..n, T)
  <2> HIDE DEF f, T
  <2> QED BY <1>2, <1>3, <1>4 DEF Bijection, Injection, Surjection, IsInjective
<1> HIDE DEF f, T
<1>6. ExistsBijection(1..n, T) BY <1>5 DEF ExistsBijection
<1>7. IsFiniteSet(1..n) BY FS_Interval
<1>8. IsFiniteSet(T) BY <1>6, <1>7, FS_Bijection
<1>9. Cardinality(T) = n BY <1>6, FS_CountingElements
<1> QED BY <1>8, <1>9 DEF T, FirstMembersOf

(* Accounts in increasing order are different. *)
LEMMA IncreasingOnce ==
  ASSUME NEW s \in Seq(Accounts), Increasing(s)
  PROVE Once(s)
<1> SUFFICES ASSUME NEW i \in 1..Len(s), NEW j \in 1..Len(s), s[i] = s[j], i < j PROVE FALSE
  <2>1. Len(s) \in Nat BY LenProperties
  <2> QED BY <2>1 DEF Once
<1>1. Precedes(Key(s[i]), Key(s[j])) BY DEF Increasing
<1>2. s[i] \in Accounts BY ElementOfSeq
<1> QED BY <1>1, <1>2, AccountOrder

(* An account's place among S. *)
Rank(S, a) == Cardinality(Before(S, a))

(* Accounts in the same place are equal. *)
LEMMA RankUnique ==
  ASSUME NEW S \in SUBSET Accounts, NEW a \in S, NEW b \in S, Rank(S, a) = Rank(S, b)
  PROVE a = b
<1> SUFFICES ASSUME NEW x \in S, NEW y \in S, Rank(S, x) = Rank(S, y), Precedes(Key(x), Key(y))
             PROVE FALSE
  BY AccountOrder
<1>1. x \in Accounts /\ y \in Accounts OBVIOUS
<1>2. Before(S, x) \subseteq Before(S, y) BY <1>1, AccountOrder DEF Before
<1>3. x \in Before(S, y) /\ x \notin Before(S, x) BY <1>1, AccountOrder DEF Before
<1>4. IsFiniteSet(Before(S, y))
  <2>1. Before(S, y) \in SUBSET Accounts BY DEF Before
  <2> QED BY <2>1, AccountsFinite, FS_Subset
<1>5. Before(S, x) \in SUBSET Before(S, y) BY <1>2
<1>6. Before(S, y) = Before(S, x) BY <1>4, <1>5, FS_Subset DEF Rank
<1> QED BY <1>3, <1>6

(* s is a beginning of S in order. *)
Starts(s, S) ==
  /\ s \in Seq(S)
  /\ Increasing(s)
  /\ \A i \in 1..Len(s), a \in S :
       Precedes(Key(a), Key(s[i])) => \E j \in 1..Len(s) : s[j] = a

(* Increasing accounts of S that leave none out between them are a         *)
(* beginning of Ordered(S), and all of it once they are all of S: what a   *)
(* client has been sent is compared with Ordered by looking at its elements*)
(* only.                                                                   *)
LEMMA StartsOrdered ==
  ASSUME NEW S \in SUBSET Accounts, NEW s, Starts(s, S)
  PROVE /\ IsPrefix(s, Ordered(S))
        /\ IsFiniteSet(S) /\ Len(s) \in Nat
        /\ Len(Ordered(S)) = Cardinality(S)
        /\ (\A a \in S : \E i \in 1..Len(s) : s[i] = a) => s = Ordered(S)
        /\ (\E a \in S : \A i \in 1..Len(s) : s[i] # a) => s # Ordered(S)
<1> DEFINE t == Ordered(S)
           n == Len(s)
           m == Cardinality(S)
           R == FirstMembersOf(s, n)
<1>1. s \in Seq(S) /\ s \in Seq(Accounts) /\ n \in Nat BY SeqMonotonic, LenProperties DEF Starts
<1>2. IsFiniteSet(S) /\ m \in Nat BY AccountsFinite, FS_Subset, FS_CardinalityType
<1>3. Once(s) BY <1>1, IncreasingOnce DEF Starts
<1>4. \A i \in 1..n : s[i] \in S BY <1>1, ElementOfSeq
<1>5. IsFiniteSet(R) /\ Cardinality(R) = n
  <2>1. n <= Len(s) BY <1>1
  <2> QED BY <1>1, <1>3, <2>1, FirstMembers
<1>6. R \in SUBSET S BY <1>4 DEF FirstMembersOf
<1>7. n <= m /\ (m = n => S = R) BY <1>2, <1>5, <1>6, FS_Subset
<1>8. ASSUME NEW i \in 1..n PROVE Rank(S, s[i]) = i - 1
  <2> DEFINE Q == FirstMembersOf(s, i - 1)
  <2>1. i - 1 \in Nat /\ i - 1 <= Len(s) /\ \A j \in 1..i - 1 : j \in 1..n /\ j < i BY <1>1
  <2>2. Cardinality(Q) = i - 1 BY <1>1, <1>3, <2>1, FirstMembers
  <2>3. Before(S, s[i]) = Q
    <3>1. ASSUME NEW j \in 1..i - 1 PROVE s[j] \in Before(S, s[i])
      BY <1>4, <2>1 DEF Starts, Increasing, Before
    <3>2. ASSUME NEW a \in Before(S, s[i]) PROVE \E j \in 1..i - 1 : a = s[j]
      <4>1. a \in S /\ Precedes(Key(a), Key(s[i])) BY DEF Before
      <4>2. PICK j \in 1..n : s[j] = a BY <4>1 DEF Starts
      <4>3. ~(i < j) /\ i # j
        <5>1. a \in Accounts /\ s[i] \in Accounts BY <1>4, <4>1
        <5>2. ~Precedes(Key(s[i]), Key(s[j])) /\ s[i] # s[j] BY <4>1, <4>2, <5>1, AccountOrder
        <5> QED BY <5>2 DEF Starts, Increasing
      <4> QED BY <1>1, <4>2, <4>3
    <3> QED BY <3>1, <3>2 DEF FirstMembersOf
  <2> QED BY <2>2, <2>3 DEF Rank
<1> DEFINE At(i) == CHOOSE a \in S : Rank(S, a) = i - 1
<1>9. t = [i \in 1..m |-> At(i)] BY DEF Ordered, Rank, Before
<1>10. ASSUME NEW i \in 1..n PROVE At(i) = s[i]
  <2>1. s[i] \in S /\ Rank(S, s[i]) = i - 1 BY <1>4, <1>8
  <2>2. At(i) \in S /\ Rank(S, At(i)) = i - 1 BY <2>1
  <2> HIDE DEF At
  <2> QED BY <2>1, <2>2, RankUnique
<1> HIDE DEF At, t, R
<1> DEFINE V == S \cup { At(i) : i \in 1..m }
<1>11. t \in [1..m -> V] BY <1>9
<1> HIDE DEF V
<1>12. t \in Seq(V) /\ Len(t) = m BY <1>2, <1>11, SeqOfFunction
<1>13. s \in Seq(V)
  <2>1. S \subseteq V BY DEF V
  <2> QED BY <1>1, <2>1, SeqMonotonic
<1>14. \A i \in 1..n : i \in 1..m /\ s[i] = t[i] BY <1>1, <1>2, <1>7, <1>9, <1>10
<1>15. IsPrefix(s, t) BY <1>7, <1>12, <1>13, <1>14, PrefixPointwise
<1>16. ASSUME \A a \in S : \E i \in 1..n : s[i] = a PROVE s = t
  <2>1. S = R BY <1>6, <1>16 DEF R, FirstMembersOf
  <2>2. m = n BY <1>5, <2>1
  <2> QED BY <1>12, <1>13, <1>14, <2>2, SeqEqual
<1>17. ASSUME NEW a \in S, \A i \in 1..n : s[i] # a PROVE s # t
  <2>1. a \notin R BY <1>17 DEF R, FirstMembersOf
  <2>2. m # n BY <1>7, <2>1
  <2> QED BY <1>12, <2>2
<1> QED BY <1>1, <1>2, <1>12, <1>15, <1>16, <1>17 DEF t
=============================================================================
