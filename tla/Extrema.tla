------------------------------ MODULE Extrema -------------------------------
(***************************************************************************)
(* Min and Max of sets of naturals: where a scan of a list or of a text    *)
(* stops (strchr, strstr, the loop of put()) is the Min or Max of a set.   *)
(***************************************************************************)
EXTENDS Integers, FiniteSetsExt, SequenceTheorems, WellFoundedInduction, TLAPS

\* A nonempty set of naturals has a least element, the Min of it.
LEMMA LeastElement ==
    ASSUME NEW S, S \subseteq Nat, S # {}
    PROVE  /\ Min(S) \in S
           /\ \A n \in S : Min(S) <= n
<1>1. PICK R : /\ IsWellFoundedOn(R, Nat)
               /\ \A n, m \in Nat : n < m => <<n, m>> \in R
  <2>1. \A n, m \in Nat : n < m => <<n, m>> \in {p \in Nat \X Nat : p[1] < p[2]}
    OBVIOUS
  <2> QED BY <2>1, NatLessThanWellFounded DEF OpToRel
<1>2. IsWellFoundedOn(R, Nat)
  BY <1>1
<1>3. PICK m \in S : \A n \in S : ~ (<<n, m>> \in R)
  BY ONLY <1>2, WFMin, S \subseteq Nat, S # {}, Zenon
<1>4. \A n \in S : ~ (n < m)
  <2> SUFFICES ASSUME NEW n \in S, n < m
               PROVE  FALSE
    OBVIOUS
  <2>1. n \in Nat /\ m \in Nat
    OBVIOUS
  <2> QED BY <2>1, <1>1, <1>3, Zenon
<1>5. \A n \in S : m <= n
  BY <1>4
<1> QED BY <1>5 DEF Min

\* A nonempty set of naturals with a bound has a greatest element, its Max:
\* it lies as far below the bound as any element can.
LEMMA GreatestElement ==
    ASSUME NEW n \in Nat, NEW S, S \subseteq 0..n, S # {}
    PROVE  /\ Max(S) \in S
           /\ \A i \in S : i <= Max(S)
<1> DEFINE Distances == {n - i : i \in S}
<1>1. Distances \subseteq Nat /\ Distances # {}
  <2>1. \A i \in S : n - i \in Nat
    OBVIOUS
  <2>2. PICK i \in S : TRUE
    OBVIOUS
  <2>3. n - i \in Distances
    BY <2>2
  <2> QED BY <2>1, <2>3
<1>2. /\ Min(Distances) \in Distances
      /\ \A d \in Distances : Min(Distances) <= d
  <2> HIDE DEF Distances
  <2> QED BY <1>1, LeastElement
<1>3. PICK m \in S : Min(Distances) = n - m
  BY <1>2
<1>4. \A i \in S : n - m <= n - i
  BY <1>2, <1>3
<1>5. \A i \in S : m >= i
  BY <1>4
<1> QED BY <1>5 DEF Max

\* The first n elements of a sequence.
LEMMA PrefixProperties ==
    ASSUME NEW S, NEW s \in Seq(S), NEW n \in 0..Len(s)
    PROVE  /\ SubSeq(s, 1, n) \in Seq(S)
           /\ Len(SubSeq(s, 1, n)) = n
           /\ \A i \in 1..n : SubSeq(s, 1, n)[i] = s[i]
<1>1. n \in Int /\ \A i \in 1..n : s[i] \in S
  BY ElementOfSeq, LenProperties
<1> QED BY <1>1, SubSeqProperties

\* A sequence in two parts.
LEMMA SplitText ==
    ASSUME NEW S, NEW text \in Seq(S), NEW n \in 0..Len(text)
    PROVE  /\ SubSeq(text, 1, n) \in Seq(S) /\ SubSeq(text, n + 1, Len(text)) \in Seq(S)
           /\ Len(SubSeq(text, 1, n)) = n
           /\ Len(SubSeq(text, n + 1, Len(text))) = Len(text) - n
           /\ \A i \in 1..n : SubSeq(text, 1, n)[i] = text[i]
           /\ \A i \in 1..(Len(text) - n) : SubSeq(text, n + 1, Len(text))[i] = text[n + i]
           /\ text = SubSeq(text, 1, n) \o SubSeq(text, n + 1, Len(text))
<1>1. Len(text) \in Nat /\ n \in Nat /\ \A i \in 1..Len(text) : text[i] \in S
  BY ElementOfSeq, LenProperties
<1>2. /\ SubSeq(text, 1, n) \in Seq(S) /\ Len(SubSeq(text, 1, n)) = n
      /\ \A i \in 1..n : SubSeq(text, 1, n)[i] = text[i]
  BY PrefixProperties
<1>3. \A i \in (n + 1)..Len(text) : text[i] \in S
  BY <1>1
<1>4. /\ SubSeq(text, n + 1, Len(text)) \in Seq(S)
      /\ Len(SubSeq(text, n + 1, Len(text))) = Len(text) - n
      /\ \A i \in 1..(Len(text) - n) : SubSeq(text, n + 1, Len(text))[i] = text[n + i]
  <2>1. /\ SubSeq(text, n + 1, Len(text)) \in Seq(S)
        /\ Len(SubSeq(text, n + 1, Len(text)))
              = IF n + 1 <= Len(text) THEN Len(text) - (n + 1) + 1 ELSE 0
        /\ \A i \in 1..(Len(text) - (n + 1) + 1) :
              SubSeq(text, n + 1, Len(text))[i] = text[(n + 1) + i - 1]
    <3>1. n + 1 \in Int /\ Len(text) \in Int
      BY <1>1
    <3> QED BY <1>3, <3>1, SubSeqProperties
  <2> DEFINE b == SubSeq(text, n + 1, Len(text))
             l == Len(text)
  <2>2. /\ b \in Seq(S) /\ Len(b) = IF n + 1 <= l THEN l - (n + 1) + 1 ELSE 0
        /\ \A i \in 1..(l - (n + 1) + 1) : b[i] = text[(n + 1) + i - 1]
        /\ l \in Nat /\ n \in 0..l
    BY <1>1, <2>1
  <2> HIDE DEF b, l
  <2>3. /\ Len(b) = l - n
        /\ \A i \in 1..(l - n) : i \in 1..(l - (n + 1) + 1) /\ (n + 1) + i - 1 = n + i
    <3>1. l \in Nat /\ n \in 0..l /\ Len(b) = IF n + 1 <= l THEN l - (n + 1) + 1 ELSE 0
      BY <2>2
    <3> QED BY ONLY <3>1
  <2>4. \A i \in 1..(l - n) : b[i] = text[n + i]
    BY <2>2, <2>3
  <2> QED BY <2>2, <2>3, <2>4 DEF b, l
<1>5. text = SubSeq(text, 1, n) \o SubSeq(text, n + 1, Len(text))
  <2>1. 1 \in 1..(Len(text) + 1) /\ n \in (1 - 1)..Len(text) /\ Len(text) \in n..Len(text)
    BY <1>1
  <2> QED BY <2>1, ConcatAdjacentSubSeq, SubSeqFull
<1> QED BY <1>2, <1>4, <1>5
=============================================================================
