------------------------------ MODULE Offsets ------------------------------
(***************************************************************************)
(* Facts about sequences as sets of their elements, and about the least    *)
(* and the greatest of a set of naturals, for the other modules of proofs. *)
(***************************************************************************)
EXTENDS Naturals, SequencesExt, SequenceTheorems, FiniteSetTheorems, TLAPS

(* A set of naturals that is not empty has a least element.                *)
LEMMA LeastNatural ==
  ASSUME NEW S, \A x \in S : x \in Nat, S # {}
  PROVE  \E m \in S : \A n \in S : m <= n
<1> DEFINE R == OpToRel(<, Nat)
<1>1. PICK m \in S : \A n \in S : ~ (<<n, m>> \in R)
  <2>1. S \subseteq Nat /\ IsWellFoundedOn(R, Nat)
    BY NatLessThanWellFounded
  <2> HIDE DEF R
  <2> QED
    BY <2>1, WFMin
<1>2. ASSUME NEW n \in S PROVE m <= n
  <2>1. <<n, m>> \in R <=> n < m
    BY DEF OpToRel
  <2>2. ~ (<<n, m>> \in R)
    BY <1>1
  <2> HIDE DEF R
  <2> QED
    BY <2>1, <2>2
<1> QED
  BY <1>2

(* Of a set of offsets that is bounded and not empty, Max is the greatest. *)
LEMMA GreatestOf ==
  ASSUME NEW b \in Nat, NEW S \in SUBSET (1 .. b), S # {}
  PROVE  \E m \in S : \A o \in S : m >= o
<1> DEFINE Bounds == {n \in Nat : \A o \in S : o <= n}
<1>1. b \in Bounds /\ \A n \in Bounds : n \in Nat /\ \A o \in S : o <= n
  OBVIOUS
<1>2. PICK m \in Bounds : \A n \in Bounds : m <= n
  <2> HIDE DEF Bounds
  <2> QED
    BY <1>1, LeastNatural
<1>3. m \in Nat /\ \A o \in S : o \in Nat /\ o > 0 /\ o <= m
  BY <1>1, <1>2
<1>4. m \in S
  <2>1. SUFFICES ASSUME m \notin S PROVE FALSE
    OBVIOUS
  <2>2. PICK o \in S : TRUE
    OBVIOUS
  <2>3. m - 1 \in Nat /\ \A u \in S : u <= m - 1
    BY <1>3, <2>1, <2>2
  <2>4. m - 1 \in Bounds
    BY <2>3
  <2> QED
    BY <1>2, <1>3, <2>4
<1> QED
  BY <1>3, <1>4

LEMMA GreatestOffset ==
  ASSUME NEW b \in Nat, NEW S \in SUBSET (1 .. b), S # {}
  PROVE  Max(S) \in S
BY GreatestOf DEF Max

LEMMA ElementsOf ==
  ASSUME NEW S, NEW s \in Seq(S)
  PROVE  \A x : x \in ToSet(s) <=> \E n \in 1 .. Len(s) : x = s[n]
BY DEF ToSet

(* The elements of what is taken from the front of a sequence or put at    *)
(* its end.                                                                *)
LEMMA ToSetFacts ==
  ASSUME NEW S, NEW s \in Seq(S)
  PROVE  /\ ToSet(s) \subseteq S
         /\ \A x \in S : ToSet(Append(s, x)) = ToSet(s) \cup {x}
         /\ s # <<>> => /\ Head(s) \in S /\ Tail(s) \in Seq(S)
                        /\ ToSet(s) = ToSet(Tail(s)) \cup {Head(s)}
<1>1. \A x : x \in ToSet(s) <=> \E n \in 1 .. Len(s) : x = s[n]
  BY ElementsOf
<1>2. ASSUME NEW x \in S PROVE ToSet(Append(s, x)) = ToSet(s) \cup {x}
  <2>1. /\ Append(s, x) \in Seq(S)
        /\ Len(Append(s, x)) = Len(s) + 1
        /\ Append(s, x)[Len(s) + 1] = x
        /\ \A n \in 1 .. Len(s) : Append(s, x)[n] = s[n]
    OBVIOUS
  <2>2. \A y : y \in ToSet(Append(s, x)) <=> \E n \in 1 .. Len(s) + 1 : y = Append(s, x)[n]
    BY <2>1 DEF ToSet
  <2>3. /\ \A n \in 1 .. Len(s) + 1 : n \in 1 .. Len(s) \/ n = Len(s) + 1
        /\ Len(s) + 1 \in 1 .. Len(s) + 1
        /\ \A n \in 1 .. Len(s) : n \in 1 .. Len(s) + 1
    OBVIOUS
  <2>4. \A y : y \in ToSet(Append(s, x)) <=> y \in ToSet(s) \/ y = x
    BY <1>1, <2>1, <2>2, <2>3
  <2> QED
    BY <2>4
<1>3. ASSUME s # <<>>
      PROVE  /\ Head(s) \in S /\ Tail(s) \in Seq(S)
             /\ ToSet(s) = ToSet(Tail(s)) \cup {Head(s)}
  <2>0. Len(s) \in Nat /\ Len(s) > 0 /\ Head(s) = s[1]
    BY <1>3
  <2>1. /\ Head(s) \in S /\ Tail(s) \in Seq(S)
        /\ Len(Tail(s)) = Len(s) - 1
        /\ \A n \in 1 .. Len(Tail(s)) : Tail(s)[n] = s[n + 1]
    BY <1>3, HeadTailProperties, Zenon
  <2>2. \A y : y \in ToSet(Tail(s)) <=> \E n \in 1 .. Len(s) - 1 : y = Tail(s)[n]
    <3> DEFINE t == Tail(s)
    <3>1. t \in Seq(S) /\ Len(t) = Len(s) - 1
      BY <2>1
    <3> HIDE DEF t
    <3>2. \A y : y \in ToSet(t) <=> \E n \in 1 .. Len(t) : y = t[n]
      BY <3>1, ElementsOf
    <3>3. \A y : y \in ToSet(t) <=> \E n \in 1 .. Len(s) - 1 : y = t[n]
      BY <3>1, <3>2
    <3> QED
      BY <3>3 DEF t
  <2>3. /\ \A n \in 1 .. Len(s) : n = 1 \/ n - 1 \in 1 .. Len(s) - 1
        /\ 1 \in 1 .. Len(s)
        /\ \A n \in 1 .. Len(s) - 1 : n + 1 \in 1 .. Len(s) /\ Tail(s)[n] = s[n + 1]
    BY <2>0, <2>1
  <2>4. \A n \in 1 .. Len(s) : n - 1 \in 1 .. Len(s) - 1 => Tail(s)[n - 1] = s[n]
    BY <2>0, <2>3
  <2>5. \A y : y \in ToSet(s) => y \in ToSet(Tail(s)) \/ y = Head(s)
    BY <1>1, <2>0, <2>1, <2>2, <2>3, <2>4
  <2>6. \A y : y \in ToSet(Tail(s)) \/ y = Head(s) => y \in ToSet(s)
    BY <1>1, <2>0, <2>1, <2>2, <2>3, <2>4
  <2> QED
    BY <2>1, <2>5, <2>6
<1> QED
  BY <1>1, <1>2, <1>3

LEMMA NothingInEmpty == ToSet(<<>>) = {}
BY DEF ToSet

=============================================================================
