--------------------------- MODULE ListClientProofs ---------------------------
(***************************************************************************)
(* What the list program prints, for any dictionary and any buffer, and    *)
(* whatever becomes of the answer and of the connection.                   *)
(*                                                                         *)
(* The program is in one of five stages.  It has read nothing (Asked);     *)
(* what it has read is a prefix of the answer, not all of it, and nothing  *)
(* is printed (Receiving); it has read all of it, and printed it (Listed); *)
(* or the connection ended before that, the whole lines are printed and    *)
(* what is kept has no line feed, so that nothing is ever printed again    *)
(* (Kept): these four are ListInv.  Or the connection ended before         *)
(* anything was read, and the program prints its own request (Mistaken).   *)
(***************************************************************************)
EXTENDS ListClient, Extrema, FiniteSetTheorems

Char == Letter \cup {Nl}

LEMMA Letters == \A c \in Letter : c # Nl /\ c # 1
BY ListAssumption DEF Nl
-----------------------------------------------------------------------------
(* The text of a list.                                                     *)

\* A word is at an odd place, all else is line feeds.
LEMMA TextOfList ==
    ASSUME NEW l \in Seq(Letter)
    PROVE  /\ ListText(l) \in Seq(Char)
           /\ Len(ListText(l)) = IF l = <<>> THEN 2 ELSE 2 * Len(l) + 1
           /\ \A j \in 1..Len(l) : ListText(l)[2 * j - 1] = l[j] /\ ListText(l)[2 * j] = Nl
           /\ l = <<>> => ListText(l)[1] = Nl
           /\ ListText(l)[Len(ListText(l))] = Nl
<1>1. Len(l) \in Nat /\ \A j \in 1..Len(l) : l[j] \in Letter
  BY ElementOfSeq, LenProperties
<1>2. Nl \in Char /\ <<Nl>> \in Seq(Char) /\ Len(<<Nl>>) = 1 /\ <<Nl>>[1] = Nl
  BY DEF Char
<1>3. CASE l = <<>>
  <2>1. Len(l) = 0
    BY <1>3
  <2>2. ListText(l) = <<Nl>> \o <<Nl>>
    BY <1>3 DEF ListText
  <2> DEFINE s == <<Nl>>
             t == s \o s
  <2>3. /\ t \in Seq(Char) /\ Len(t) = Len(s) + Len(s)
        /\ \A i \in 1..(Len(s) + Len(s)) : t[i] = IF i <= Len(s) THEN s[i] ELSE s[i - Len(s)]
    <3>1. s \in Seq(Char)
      BY <1>2
    <3> HIDE DEF s
    <3> QED BY <3>1, ConcatProperties
  <2>4. Len(s) = 1 /\ s[1] = Nl
    OBVIOUS
  <2> HIDE DEF s
  <2>5. t \in Seq(Char) /\ Len(t) = 2 /\ t[1] = Nl /\ t[2] = Nl
    BY <2>3, <2>4
  <2>6. ListText(l) = t
    BY <2>2 DEF s
  <2> HIDE DEF t
  <2> QED BY <1>3, <2>1, <2>5, <2>6
<1>4. CASE l # <<>>
  <2> DEFINE k == Len(l)
             s == Lines(l)
  <2>1. \A i \in 1..(2 * k) :
           /\ i % 2 = 1 => (i + 1) \div 2 \in 1..k
           /\ s[i] = IF i % 2 = 1 THEN l[(i + 1) \div 2] ELSE Nl
    <3>1. k \in Nat
      BY <1>1
    <3>2. \A i \in 1..(2 * k) : i % 2 = 1 => (i + 1) \div 2 \in 1..k
      <4> HIDE DEF k
      <4> QED BY ONLY <3>1
    <3> QED BY <3>2 DEF Lines
  <2>2. s \in Seq(Char) /\ Len(s) = 2 * k
    <3>1. 2 * k \in Nat
      BY <1>1
    <3>2. s \in [1..(2 * k) -> Char]
      <4>1. \A i \in 1..(2 * k) :
               (IF i % 2 = 1 THEN l[(i + 1) \div 2] ELSE Nl) \in Char
        BY <1>1, <1>2, <2>1 DEF Char
      <4> QED BY <4>1 DEF Lines
    <3> HIDE DEF s, k
    <3> QED BY <3>1, <3>2
  <2>3. \A j \in 1..k : s[2 * j - 1] = l[j] /\ s[2 * j] = Nl
    <3> SUFFICES ASSUME NEW j \in 1..k
                 PROVE  s[2 * j - 1] = l[j] /\ s[2 * j] = Nl
      OBVIOUS
    <3>0. k \in Nat
      BY <1>1
    <3>1. /\ 2 * j - 1 \in 1..(2 * k) /\ 2 * j \in 1..(2 * k)
          /\ (2 * j - 1) % 2 = 1 /\ (2 * j) % 2 # 1 /\ ((2 * j - 1) + 1) \div 2 = j
      <4> HIDE DEF k
      <4> QED BY ONLY <3>0, j \in 1..k
    <3> QED BY <2>1, <3>1
  <2>4. ListText(l) = s \o <<Nl>>
    BY <1>4 DEF ListText
  <2> HIDE DEF s
  <2>5. /\ s \o <<Nl>> \in Seq(Char) /\ Len(s \o <<Nl>>) = 2 * k + 1
        /\ \A i \in 1..(2 * k + 1) :
              (s \o <<Nl>>)[i] = IF i <= 2 * k THEN s[i] ELSE <<Nl>>[i - 2 * k]
    <3> DEFINE e == <<Nl>>
    <3>1. e \in Seq(Char) /\ Len(e) = 1
      BY <1>2
    <3> HIDE DEF e, k
    <3>2. /\ s \o e \in Seq(Char) /\ Len(s \o e) = Len(s) + Len(e)
          /\ \A i \in 1..(Len(s) + Len(e)) :
                (s \o e)[i] = IF i <= Len(s) THEN s[i] ELSE e[i - Len(s)]
      BY <2>2, <3>1, ConcatProperties
    <3>3. /\ s \o e \in Seq(Char) /\ Len(s \o e) = 2 * k + 1
          /\ \A i \in 1..(2 * k + 1) :
                (s \o e)[i] = IF i <= 2 * k THEN s[i] ELSE e[i - 2 * k]
      BY <2>2, <3>1, <3>2
    <3> QED BY <3>3 DEF e
  <2>6. k \in Nat /\ 2 * k + 1 \in 1..(2 * k + 1) /\ ~(2 * k + 1 <= 2 * k) /\ (2 * k + 1) - 2 * k = 1
    BY <1>1
  <2>7. \A j \in 1..k : /\ 2 * j - 1 \in 1..(2 * k + 1) /\ 2 * j - 1 <= 2 * k
                        /\ 2 * j \in 1..(2 * k + 1) /\ 2 * j <= 2 * k
    <3> HIDE DEF k
    <3> QED BY ONLY <2>6
  <2>8. (s \o <<Nl>>)[2 * k + 1] = Nl
    BY <1>2, <2>5, <2>6
  <2>9. \A j \in 1..k : (s \o <<Nl>>)[2 * j - 1] = l[j] /\ (s \o <<Nl>>)[2 * j] = Nl
    BY <2>3, <2>5, <2>7
  <2> QED BY <1>4, <2>4, <2>5, <2>8, <2>9
<1> QED BY <1>3, <1>4

\* A place in the text of a list is that of a word, of its line feed, or the last.
LEMMA PlacesOfText ==
    ASSUME NEW l \in Seq(Letter), l # <<>>, NEW i \in 1..Len(ListText(l))
    PROVE  \/ \E j \in 1..Len(l) : i = 2 * j - 1
           \/ \E j \in 1..Len(l) : i = 2 * j
           \/ i = 2 * Len(l) + 1
<1> DEFINE k == Len(l)
<1>1. k \in Nat /\ i \in 1..(2 * k + 1)
  BY TextOfList, LenProperties
<1> HIDE DEF k
<1>2. CASE i % 2 = 1 /\ i # 2 * k + 1
  <2>1. (i + 1) \div 2 \in 1..k /\ i = 2 * ((i + 1) \div 2) - 1
    BY ONLY <1>1, <1>2
  <2> QED BY <2>1 DEF k
<1>3. CASE i % 2 # 1
  <2>1. i \div 2 \in 1..k /\ i = 2 * (i \div 2)
    BY ONLY <1>1, <1>3
  <2> QED BY <2>1 DEF k
<1> QED BY <1>2, <1>3 DEF k

LEMMA PrefixOfPrefix ==
    ASSUME NEW S, NEW t \in Seq(S), NEW m \in 0..Len(t), NEW n \in 0..m
    PROVE  SubSeq(SubSeq(t, 1, m), 1, n) = SubSeq(t, 1, n)
<1> DEFINE s == SubSeq(t, 1, m)
<1>1. Len(t) \in Nat /\ n \in 0..Len(t) /\ \A i \in 1..n : i \in 1..m
  BY LenProperties
<1>2. s \in Seq(S) /\ Len(s) = m /\ \A i \in 1..m : s[i] = t[i]
  BY PrefixProperties
<1> HIDE DEF s
<1>3. /\ SubSeq(s, 1, n) \in Seq(S) /\ Len(SubSeq(s, 1, n)) = n
      /\ \A i \in 1..n : SubSeq(s, 1, n)[i] = s[i]
  BY <1>2, PrefixProperties
<1>4. /\ SubSeq(t, 1, n) \in Seq(S) /\ Len(SubSeq(t, 1, n)) = n
      /\ \A i \in 1..n : SubSeq(t, 1, n)[i] = t[i]
  BY <1>1, PrefixProperties
<1>5. \A i \in 1..n : SubSeq(s, 1, n)[i] = SubSeq(t, 1, n)[i]
  BY <1>1, <1>2, <1>3, <1>4
<1>6. SubSeq(s, 1, n) = SubSeq(t, 1, n)
  BY <1>3, <1>4, <1>5, SeqEqual
<1> QED BY <1>6 DEF s

\* The answer that MidNet sends is as much of it as fits its buffer.
LEMMA SentIs ==
    ASSUME NEW l \in Seq(Letter)
    PROVE  /\ Sent(l) \in Seq(Char) /\ Len(Sent(l)) \in 1..BufferLength
           /\ Len(Sent(l)) <= Len(ListText(l))
           /\ \A n \in 0..Len(Sent(l)) : SubSeq(Sent(l), 1, n) = SubSeq(ListText(l), 1, n)
<1> DEFINE t == ListText(l)
           m == IF Len(t) < BufferLength THEN Len(t) ELSE BufferLength
           s == SubSeq(t, 1, m)
<1>1. t \in Seq(Char) /\ Len(t) \in Nat /\ Len(t) >= 1
  <2>1. Len(l) \in Nat
    BY LenProperties
  <2>2. t \in Seq(Char) /\ Len(t) = IF l = <<>> THEN 2 ELSE 2 * Len(l) + 1
    BY TextOfList
  <2> QED BY <2>1, <2>2
<1> HIDE DEF t
<1>2. m \in 0..Len(t) /\ m \in 1..BufferLength
  BY <1>1, ListAssumption
<1>3. Sent(l) = s
  BY DEF Sent, t
<1> HIDE DEF m
<1>4. s \in Seq(Char) /\ Len(s) = m /\ \A i \in 1..m : s[i] = t[i]
  BY <1>1, <1>2, PrefixProperties
<1> HIDE DEF s
<1>5. ASSUME NEW n \in 0..m
      PROVE  SubSeq(s, 1, n) = SubSeq(t, 1, n)
  BY <1>1, <1>2, PrefixOfPrefix DEF s
<1>6. m <= Len(t)
  BY <1>1, <1>2
<1> QED BY <1>2, <1>3, <1>4, <1>5, <1>6 DEF t

\* The empty line is at the end of the text and nowhere else.
LEMMA EmptyLineIsLast ==
    ASSUME NEW l \in Seq(Letter), NEW i \in 1..(Len(ListText(l)) - 1)
    PROVE  (ListText(l)[i] = Nl /\ ListText(l)[i + 1] = Nl) <=> i = Len(ListText(l)) - 1
<1> DEFINE t == ListText(l)
           k == Len(l)
<1>1. /\ k \in Nat /\ Len(t) = IF l = <<>> THEN 2 ELSE 2 * k + 1
      /\ \A j \in 1..k : t[2 * j - 1] = l[j] /\ t[2 * j] = Nl /\ l[j] \in Letter
      /\ l = <<>> => t[1] = Nl
      /\ t[Len(t)] = Nl
  BY TextOfList, LenProperties, ElementOfSeq
<1>2. CASE l = <<>>
  <2>1. i = 1 /\ Len(t) = 2 /\ i + 1 = Len(t)
    BY <1>1, <1>2
  <2> QED BY <1>1, <1>2, <2>1
<1>3. CASE l # <<>>
  <2>1. i \in 1..Len(t) /\ i # 2 * k + 1 /\ Len(t) = 2 * k + 1
    BY <1>1, <1>3
  <2>2. CASE \E j \in 1..k : i = 2 * j - 1
    <3>1. PICK j \in 1..k : i = 2 * j - 1
      BY <2>2
    <3>2. t[i] # Nl
      BY <1>1, <3>1, Letters
    <3>3. i # Len(t) - 1
      BY <1>1, <2>1, <3>1
    <3> QED BY <3>2, <3>3
  <2>3. CASE \E j \in 1..k : i = 2 * j
    <3>1. PICK j \in 1..k : i = 2 * j
      BY <2>3
    <3>2. CASE j = k
      <4>1. i = Len(t) - 1 /\ i + 1 = Len(t)
        BY <1>1, <2>1, <3>1, <3>2
      <4> QED BY <1>1, <3>1, <4>1
    <3>3. CASE j # k
      <4>1. j + 1 \in 1..k /\ i + 1 = 2 * (j + 1) - 1 /\ i # Len(t) - 1
        <5> HIDE DEF k, t
        <5> QED BY <1>1, <2>1, <3>1, <3>3
      <4>2. t[i + 1] # Nl
        BY <1>1, <4>1, Letters
      <4> QED BY <4>1, <4>2
    <3> QED BY <3>2, <3>3
  <2> QED BY <1>3, <2>1, <2>2, <2>3, PlacesOfText
<1> QED BY <1>2, <1>3

LEMMA EndBounds ==
    ASSUME NEW S, NEW t \in Seq(S)
    PROVE  /\ EndOf(t) # 0 => /\ EndOf(t) \in 1..(Len(t) - 1)
                              /\ t[EndOf(t)] = Nl /\ t[EndOf(t) + 1] = Nl
           /\ EndOf(t) = 0 =>
                 \A i \in 1..(Len(t) - 1) : ~(t[i] = Nl /\ t[i + 1] = Nl)
<1> DEFINE ends == {i \in 1..(Len(t) - 1) : t[i] = Nl /\ t[i + 1] = Nl}
<1>1. ends \subseteq Nat /\ 0 \notin ends
  OBVIOUS
<1>2. EndOf(t) = IF ends = {} THEN 0 ELSE Min(ends)
  BY DEF EndOf
<1>3. ends # {} => Min(ends) \in ends
  <2> HIDE DEF ends
  <2> QED BY <1>1, LeastElement
<1> QED BY <1>1, <1>2, <1>3

\* What was read of an answer has its empty line when it is all of a list.
LEMMA EndOfPrefix ==
    ASSUME NEW l \in Seq(Letter), NEW n \in 0..Len(ListText(l))
    PROVE  EndOf(SubSeq(ListText(l), 1, n))
               = IF n = Len(ListText(l)) THEN n - 1 ELSE 0
<1> DEFINE t == ListText(l)
           s == SubSeq(t, 1, n)
           e == EndOf(s)
<1>1. /\ t \in Seq(Char) /\ Len(t) \in Nat /\ Len(t) >= 2
      /\ \A i \in 1..(Len(t) - 1) : (t[i] = Nl /\ t[i + 1] = Nl) <=> i = Len(t) - 1
  <2>1. t \in Seq(Char) /\ Len(l) \in Nat /\ (l # <<>> => Len(l) # 0)
    BY TextOfList, LenProperties, EmptySeq
  <2>2. Len(t) = IF l = <<>> THEN 2 ELSE 2 * Len(l) + 1
    BY TextOfList
  <2>3. \A i \in 1..(Len(t) - 1) : (t[i] = Nl /\ t[i + 1] = Nl) <=> i = Len(t) - 1
    BY EmptyLineIsLast
  <2> HIDE DEF t
  <2>4. Len(t) \in Nat /\ Len(t) >= 2
    BY <2>1, <2>2
  <2> QED BY <2>1, <2>3, <2>4
<1> HIDE DEF t
<1>2. s \in Seq(Char) /\ Len(s) = n /\ \A i \in 1..n : s[i] = t[i]
  BY <1>1, PrefixProperties DEF t
<1> HIDE DEF s
<1>3. \A i \in 1..(n - 1) : (s[i] = Nl /\ s[i + 1] = Nl) <=> i = Len(t) - 1
  <2> SUFFICES ASSUME NEW i \in 1..(n - 1)
               PROVE  (s[i] = Nl /\ s[i + 1] = Nl) <=> i = Len(t) - 1
    OBVIOUS
  <2>1. i \in 1..n /\ i + 1 \in 1..n /\ i \in 1..(Len(t) - 1)
    BY <1>1 DEF t
  <2> QED BY <1>1, <1>2, <2>1
<1>4. /\ e # 0 => e \in 1..(n - 1) /\ e = Len(t) - 1
      /\ e = 0 => \A i \in 1..(n - 1) : i # Len(t) - 1
  <2>1. /\ e # 0 => e \in 1..(n - 1) /\ s[e] = Nl /\ s[e + 1] = Nl
        /\ e = 0 => \A i \in 1..(n - 1) : ~(s[i] = Nl /\ s[i + 1] = Nl)
    BY <1>2, EndBounds
  <2> HIDE DEF e
  <2> QED BY <1>3, <2>1
<1> HIDE DEF e
<1>5. e = IF n = Len(t) THEN n - 1 ELSE 0
  <2>1. n \in 0..Len(t)
    BY DEF t
  <2>2. CASE n = Len(t)
    <3>1. n - 1 \in 1..(n - 1)
      BY <1>1, <2>2
    <3> QED BY <1>4, <2>2, <3>1
  <2>3. CASE n # Len(t)
    <3>1. \A i \in 1..(n - 1) : i # Len(t) - 1
      BY <1>1, <2>1, <2>3
    <3> QED BY <1>4, <2>3, <3>1
  <2> QED BY <2>2, <2>3
<1> QED BY <1>5 DEF e, s, t
-----------------------------------------------------------------------------
(* What is printed of it.                                                  *)

\* The words of whole lines.
LEMMA WordsOfLines ==
    ASSUME NEW l \in Seq(Letter), l # <<>>, NEW m \in 0..Len(l)
    PROVE  Words(SubSeq(ListText(l), 1, 2 * m)) = SubSeq(l, 1, m)
<1> DEFINE t == ListText(l)
           s == SubSeq(t, 1, 2 * m)
           at == {i \in DOMAIN s : s[i] # Nl}
           UpTo(i) == {j \in at : j <= i}
           Place(n) == CHOOSE i \in at : Cardinality(UpTo(i)) = n
<1>1. /\ Len(l) \in Nat /\ m \in Nat /\ m <= Len(l) /\ 2 * m \in 0..Len(t)
      /\ t \in Seq(Char) /\ Len(t) = 2 * Len(l) + 1
      /\ \A j \in 1..Len(l) : t[2 * j - 1] = l[j] /\ t[2 * j] = Nl /\ l[j] \in Letter
  <2>1. Len(l) \in Nat /\ t \in Seq(Char) /\ Len(t) = 2 * Len(l) + 1
    BY TextOfList, LenProperties
  <2>2. m \in Nat /\ m <= Len(l) /\ 2 * m \in 0..Len(t)
    BY <2>1
  <2> QED BY <2>1, <2>2, TextOfList, ElementOfSeq
<1> HIDE DEF t
<1>2. /\ s \in Seq(Char) /\ Len(s) = 2 * m /\ DOMAIN s = 1..(2 * m)
      /\ \A i \in 1..(2 * m) : s[i] = t[i]
  BY <1>1, PrefixProperties, LenProperties
<1> HIDE DEF s
<1>3. at = {2 * j - 1 : j \in 1..m}
  <2>1. ASSUME NEW i \in at
        PROVE  \E j \in 1..m : i = 2 * j - 1
    <3>1. i \in 1..(2 * m) /\ t[i] # Nl /\ i \in 1..Len(t) /\ i # 2 * Len(l) + 1
      BY <1>1, <1>2, <2>1
    <3>2. \/ \E j \in 1..Len(l) : i = 2 * j - 1
          \/ \E j \in 1..Len(l) : i = 2 * j
      BY <3>1, PlacesOfText DEF t
    <3>3. PICK j \in 1..Len(l) : i = 2 * j - 1
      BY <1>1, <3>1, <3>2
    <3>4. j \in 1..m
      BY <1>1, <3>1, <3>3
    <3> QED BY <3>3, <3>4
  <2>2. ASSUME NEW j \in 1..m
        PROVE  2 * j - 1 \in at
    <3>1. 2 * j - 1 \in 1..(2 * m) /\ j \in 1..Len(l)
      BY <1>1
    <3> QED BY <1>1, <1>2, <3>1, Letters
  <2> HIDE DEF at
  <2> QED BY <2>1, <2>2
<1> HIDE DEF at
<1>4. \A j \in 1..m : Cardinality(UpTo(2 * j - 1)) = j
  <2> SUFFICES ASSUME NEW j \in 1..m
               PROVE  Cardinality(UpTo(2 * j - 1)) = j
    OBVIOUS
  <2> DEFINE f == [i \in 1..j |-> 2 * i - 1]
             R == UpTo(2 * j - 1)
  <2>1. f \in [1..j -> R] /\ \A i \in R : \E h \in 1..j : f[h] = i
    <3>1. \A h \in 1..j : h \in 1..m /\ 2 * h - 1 <= 2 * j - 1
      BY <1>1
    <3>2. \A h \in 1..m : 2 * h - 1 <= 2 * j - 1 => h \in 1..j
      BY <1>1
    <3> QED BY <1>3, <3>1, <3>2
  <2>2. \A h, i \in 1..j : f[h] = f[i] => h = i
    BY <1>1
  <2>3. f \in Bijection(1..j, R)
    <3>1. f \in Injection(1..j, R)
      <4> HIDE DEF f, R
      <4> QED BY <2>1, <2>2 DEF Injection, IsInjective
    <3>2. f \in Surjection(1..j, R)
      <4> HIDE DEF f, R
      <4> QED BY <2>1 DEF Surjection
    <3> HIDE DEF f, R
    <3> QED BY <3>1, <3>2 DEF Bijection
  <2>4. IsFiniteSet(1..j) /\ Cardinality(1..j) = j
    <3>1. j \in Nat /\ 1 \in Int /\ j \in Int /\ 1 <= j
      BY <1>1
    <3> QED BY ONLY <3>1, FS_Interval
  <2> HIDE DEF f, R
  <2>5. Cardinality(R) = Cardinality(1..j)
    BY <2>3, <2>4, FS_Bijection DEF ExistsBijection
  <2> QED BY <2>4, <2>5 DEF R
<1>5. Cardinality(at) = m
  <2>1. CASE m = 0
    <3>1. at = {}
      BY <1>3, <2>1
    <3> QED BY <2>1, <3>1, FS_EmptySet
  <2>2. CASE m # 0
    <3>1. m \in 1..m /\ \A j \in 1..m : 2 * j - 1 <= 2 * m - 1
      BY <1>1, <2>2
    <3>2. UpTo(2 * m - 1) = at
      BY <1>3, <3>1
    <3> QED BY <1>4, <3>1, <3>2
  <2> QED BY <2>1, <2>2
<1>6. \A n \in 1..m : Place(n) = 2 * n - 1
  <2> SUFFICES ASSUME NEW n \in 1..m
               PROVE  Place(n) = 2 * n - 1
    OBVIOUS
  <2>1. 2 * n - 1 \in at /\ Cardinality(UpTo(2 * n - 1)) = n
    BY <1>3, <1>4
  <2>2. ASSUME NEW i \in at, Cardinality(UpTo(i)) = n
        PROVE  i = 2 * n - 1
    <3>1. PICK j \in 1..m : i = 2 * j - 1
      BY <1>3
    <3>2. j = n
      BY <1>4, <2>2, <3>1
    <3> QED BY <3>1, <3>2
  <2> HIDE DEF UpTo
  <2> QED BY <2>1, <2>2
<1>7. Words(s) = [n \in 1..m |-> s[Place(n)]]
  BY <1>5 DEF Words, at
<1> HIDE DEF Place
<1>8. \A n \in 1..m : s[Place(n)] = l[n] /\ l[n] \in Letter
  <2> SUFFICES ASSUME NEW n \in 1..m
               PROVE  s[2 * n - 1] = l[n] /\ l[n] \in Letter
    BY <1>6
  <2>1. 2 * n - 1 \in 1..(2 * m) /\ n \in 1..Len(l)
    BY <1>1
  <2> QED BY <1>1, <1>2, <2>1
<1>9. /\ Words(s) \in Seq(Letter) /\ Len(Words(s)) = m
      /\ \A n \in 1..m : Words(s)[n] = l[n]
  <2>1. Words(s) \in [1..m -> Letter] /\ \A n \in 1..m : Words(s)[n] = l[n]
    BY <1>7, <1>8
  <2> QED BY <1>1, <2>1
<1>10. /\ SubSeq(l, 1, m) \in Seq(Letter) /\ Len(SubSeq(l, 1, m)) = m
       /\ \A n \in 1..m : SubSeq(l, 1, m)[n] = l[n]
  BY PrefixProperties
<1>11. Words(s) = SubSeq(l, 1, m)
  BY <1>9, <1>10, SeqEqual
<1> QED BY <1>11 DEF s, t

\* The reader prints the words of the whole lines of what was read, all of them
\* when all was read.
LEMMA PrintsPrefix ==
    ASSUME NEW l \in Seq(Letter), NEW n \in 0..Len(ListText(l))
    PROVE  \E m \in 0..Len(l) :
              /\ ReaderWrites(SubSeq(ListText(l), 1, n)) = SubSeq(l, 1, m)
              /\ n = Len(ListText(l)) => m = Len(l)
<1> DEFINE t == ListText(l)
           s == SubSeq(t, 1, n)
           e == EndOfBuffer(s)
           ends == {i \in 1..e : s[i] = Nl}
           k == Len(l)
<1>1. /\ t \in Seq(Char) /\ Len(t) \in Nat
      /\ k \in Nat /\ (l # <<>> => k # 0) /\ (l = <<>> => k = 0 /\ t[1] = Nl)
      /\ Len(t) = IF l = <<>> THEN 2 ELSE 2 * k + 1
      /\ \A j \in 1..k : t[2 * j - 1] = l[j] /\ t[2 * j] = Nl /\ l[j] \in Letter
  BY TextOfList, LenProperties, EmptySeq, ElementOfSeq
<1>2. s \in Seq(Char) /\ Len(s) = n /\ \A i \in 1..n : s[i] = t[i]
  BY <1>1, PrefixProperties
<1>3. SubSeq(l, 1, 0) = <<>>
  BY SubSeqEmpty
<1>4. ReaderWrites(s) = IF ends = {} \/ s[1] = Nl THEN <<>> ELSE Words(SubSeq(s, 1, Max(ends)))
  BY DEF ReaderWrites
<1>5. e = IF n = Len(t) THEN n - 1 ELSE n
  <2>1. EndOf(s) = IF n = Len(t) THEN n - 1 ELSE 0
    BY EndOfPrefix
  <2>2. n = Len(t) => n - 1 # 0
    BY <1>1
  <2> HIDE DEF s, t
  <2> QED BY <1>2, <2>1, <2>2 DEF EndOfBuffer
<1>6. n \in 0..Len(t)
  OBVIOUS
<1> HIDE DEF s, t, e
<1>7. CASE l = <<>>
  <2>1. ReaderWrites(s) = <<>>
    <3>1. CASE n = 0
      <4>1. ends = {}
        BY <1>1, <1>5, <1>7, <3>1
      <4> QED BY <1>4, <4>1
    <3>2. CASE n # 0
      <4>1. s[1] = Nl
        BY <1>1, <1>2, <1>6, <1>7, <3>2
      <4> QED BY <1>4, <4>1
    <3> QED BY <3>1, <3>2
  <2>2. 0 \in 0..k /\ k = 0
    BY <1>1, <1>7
  <2> QED BY <1>3, <2>1, <2>2 DEF s, t
<1>8. CASE l # <<>>
  <2> DEFINE m == e \div 2
  <2>1. /\ e \in 0..(2 * k) /\ e <= n /\ n <= 2 * k + 1 /\ n \in Nat
        /\ n = Len(t) => e = 2 * k
    <3>1. k \in Nat /\ Len(t) = 2 * k + 1
      BY <1>1, <1>8
    <3> HIDE DEF k
    <3> QED BY ONLY <1>5, <1>6, <3>1
  <2>2. /\ m \in 0..k /\ 2 * m <= e /\ e <= 2 * m + 1 /\ (e = 2 * k => m = k)
    <3> HIDE DEF k, t
    <3>1. k \in Nat
      BY <1>1
    <3> QED BY ONLY <2>1, <3>1
  <2> HIDE DEF m
  <2>3. /\ \A i \in ends : i \in 0..e /\ \E j \in 1..m : i = 2 * j
        /\ \A j \in 1..m : 2 * j \in ends
    <3>1. ASSUME NEW i \in ends
          PROVE  i \in 0..e /\ \E j \in 1..m : i = 2 * j
      <4>1. /\ i \in 1..n /\ i \in 1..Len(t) /\ i \in 0..e /\ t[i] = Nl /\ i # 2 * k + 1
        BY <1>1, <1>2, <1>6, <1>8, <2>1, <3>1
      <4>2. \/ \E j \in 1..k : i = 2 * j - 1
            \/ \E j \in 1..k : i = 2 * j
        BY <1>8, <4>1, PlacesOfText DEF t
      <4>3. PICK j \in 1..k : i = 2 * j
        BY <1>1, <4>1, <4>2, Letters
      <4>4. j \in 1..m
        <5> HIDE DEF k
        <5> QED BY <1>1, <2>1, <2>2, <4>1, <4>3
      <4> QED BY <4>1, <4>3, <4>4
    <3>2. ASSUME NEW j \in 1..m
          PROVE  2 * j \in ends
      <4>1. 2 * j \in 1..e /\ 2 * j \in 1..n /\ j \in 1..k
        <5> HIDE DEF k
        <5> QED BY <1>1, <2>1, <2>2
      <4> QED BY <1>1, <1>2, <4>1
    <3> HIDE DEF ends
    <3> QED BY <3>1, <3>2
  <2> HIDE DEF ends
  <2>4. CASE m = 0
    <3>1. ends = {}
      BY <2>3, <2>4
    <3> QED BY <1>3, <1>4, <2>1, <2>2, <2>4, <3>1 DEF s, t
  <2>5. CASE m # 0
    <3>1. m \in 1..m /\ 1 \in 1..k /\ 1 \in 1..n /\ 2 * m \in 0..n
      BY <1>1, <2>1, <2>2, <2>5
    <3>2. ends # {} /\ ends \subseteq 0..e /\ e \in Nat
      BY <2>1, <2>3, <3>1
    <3>3. Max(ends) \in ends /\ \A i \in ends : i <= Max(ends)
      BY <3>2, GreatestElement
    <3>4. Max(ends) = 2 * m
      <4>1. PICK j \in 1..m : Max(ends) = 2 * j
        BY <2>3, <3>3
      <4>2. 2 * m <= 2 * j
        BY <2>3, <3>1, <3>3, <4>1
      <4> QED BY <2>2, <4>1, <4>2
    <3>5. s[1] # Nl
      <4>1. t[2 * 1 - 1] = l[1] /\ l[1] \in Letter
        BY <1>1, <3>1
      <4> QED BY <1>2, <3>1, <4>1, Letters
    <3>6. SubSeq(s, 1, 2 * m) = SubSeq(t, 1, 2 * m)
      BY <1>1, <1>6, <3>1, PrefixOfPrefix DEF s
    <3>7. Words(SubSeq(t, 1, 2 * m)) = SubSeq(l, 1, m)
      BY <1>8, <2>2, WordsOfLines DEF t
    <3> QED BY <1>4, <2>1, <2>2, <3>2, <3>4, <3>5, <3>6, <3>7 DEF s, t
  <2> QED BY <2>4, <2>5
<1> QED BY <1>7, <1>8

\* What is printed is not longer than the model keeps track of.
LEMMA WriteAdds ==
    ASSUME NEW words \in Seq(Letter), printed \in Seq(Letter),
           Len(printed) <= MaxWords, Write(words)
    PROVE  /\ words = <<>> => printed' = printed
           /\ printed = <<>> /\ Len(words) <= MaxWords => printed' = words
<1> DEFINE all == printed \o words
           n == IF Len(all) > MaxWords THEN MaxWords + 1 ELSE Len(all)
<1>1. printed' = SubSeq(all, 1, n)
  BY DEF Write
<1>2. MaxWords \in Nat /\ all \in Seq(Letter) /\ Len(all) \in Nat
  BY ListAssumption, ConcatProperties, LenProperties
<1>3. /\ words = <<>> => all = printed
      /\ printed = <<>> => all = words
  BY ConcatEmptySeq
<1>4. ASSUME Len(all) <= MaxWords
      PROVE  printed' = all
  <2>1. n = Len(all)
    BY <1>2, <1>4
  <2> HIDE DEF all, n
  <2> QED BY <1>1, <1>2, <2>1, SubSeqFull
<1> HIDE DEF all
<1> QED BY <1>3, <1>4

\* What the reader keeps of a text without an empty line has no line feed, unless
\* the list is empty.
LEMMA KeepsRest ==
    ASSUME NEW t \in Seq(Char), EndOf(t) = 0, ~(t # <<>> /\ t[1] = Nl),
           Len(t) <= BufferLength, ReaderKeeps(t)
    PROVE  \E used \in 0..Len(t) :
              /\ text' \in Seq(Char) /\ Len(text') = Len(t) - used
              /\ position' = BufferLength - used
              /\ \A i \in 1..Len(text') : text'[i] # Nl
<1> DEFINE feeds == {i \in 1..Len(t) : t[i] = Nl}
           used == IF feeds # {} THEN Max(feeds) ELSE 0
<1>1. text' = SubSeq(t, used + 1, Len(t)) /\ position' = BufferLength - used
  BY DEF ReaderKeeps, SelectLastInSeq
<1>2. Len(t) \in Nat /\ feeds \subseteq 0..Len(t)
  BY LenProperties
<1>3. used \in 0..Len(t) /\ \A i \in feeds : i <= used
  <2>1. feeds # {} => Max(feeds) \in feeds /\ \A i \in feeds : i <= Max(feeds)
    <3> HIDE DEF feeds
    <3> QED BY <1>2, GreatestElement
  <2> QED BY <1>2, <2>1
<1> HIDE DEF used
<1>4. /\ text' \in Seq(Char) /\ Len(text') = Len(t) - used
      /\ \A i \in 1..(Len(t) - used) : text'[i] = t[used + i]
  BY <1>1, <1>3, SplitText
<1>5. \A i \in 1..(Len(t) - used) : t[used + i] # Nl
  <2> SUFFICES ASSUME NEW i \in 1..(Len(t) - used), t[used + i] = Nl
               PROVE  FALSE
    OBVIOUS
  <2>1. used + i \in 1..Len(t) /\ ~(used + i <= used)
    BY <1>2, <1>3
  <2> QED BY <1>3, <2>1
<1> QED BY <1>1, <1>3, <1>4, <1>5
-----------------------------------------------------------------------------
(* The stages of the program.                                              *)

Typed ==
    /\ list \in Seq(Letter)
    /\ coming \in Seq(Letter \cup {Nl})
    /\ behind \in {"nothing", "end", "error"}
    /\ state \in {"start", "select"} \cup Ended
    /\ text \in Seq(Letter \cup {Nl, 1}) /\ Len(text) <= BufferLength
    /\ position \in 0..BufferLength
    /\ printed \in Seq(Letter) /\ Len(printed) <= MaxWords + 1
    /\ turn \in {0, 1}

Asked ==
    /\ position = 0 /\ printed = <<>>
    /\ state \in {"start", "select", "silence", "refused"}
    /\ state = "select" => text = Request
    /\ \/ behind = "nothing" /\ coming = <<>>
       \/ behind \in {"end", "error"} /\ coming \in {Sent(list), <<>>}

Receiving ==
    /\ state \in {"select", "overflow"} /\ printed = <<>>
    /\ position <= Len(Sent(list))
    /\ text = SubSeq(Sent(list), 1, position) /\ EndOf(text) = 0
    /\ coming \in {<<>>, SubSeq(Sent(list), position + 1, Len(Sent(list)))}
    /\ behind = "end" \/ (behind = "error" /\ position > 0)
    /\ position = 0 => coming = <<>>

Listed == state = "listed" /\ printed = list

Kept ==
    /\ state \in {"select", "overflow"} /\ IsPrefix(printed, list)
    /\ \A i \in 1..Len(text) : text[i] # Nl
    /\ Len(text) < position
    /\ coming = <<>> /\ behind = "end"

ListInv ==
    /\ Typed /\ Len(list) <= MaxWords
    /\ Asked \/ Receiving \/ Listed \/ Kept

LEMMA ListInit == Init => ListInv
<1> SUFFICES ASSUME Init PROVE ListInv
  OBVIOUS
<1>1. list \in Seq(Letter) /\ Len(list) <= MaxWords
  <2>1. PICK m \in 0..MaxWords : list \in [1..m -> Letter]
    BY ListAssumption DEF Init, BoundedSeq, SeqOf
  <2>2. m \in Nat /\ m <= MaxWords
    BY ListAssumption
  <2> QED BY <2>1, <2>2
<1>2. /\ coming = <<>> /\ text = <<>> /\ printed = <<>> /\ position = 0 /\ turn = 0
      /\ behind = "nothing" /\ state = "start"
  BY DEF Init
<1>3. BufferLength \in Nat /\ MaxWords \in Nat
  BY ListAssumption
<1>4. \A S : <<>> \in Seq(S) /\ Len(<<>>) = 0
  OBVIOUS
<1>5. Typed
  BY <1>1, <1>2, <1>3, <1>4 DEF Typed
<1>6. Asked
  BY <1>2 DEF Asked
<1> QED BY <1>1, <1>5, <1>6 DEF ListInv

\* What MidNet sends is never empty, and no longer than its buffer.
LEMMA SentFits ==
    ASSUME ListInv
    PROVE  /\ list \in Seq(Letter) /\ Sent(list) \in Seq(Char) /\ Sent(list) # <<>>
           /\ Len(Sent(list)) \in 1..BufferLength /\ BufferLength \in Nat
           /\ Len(Sent(list)) <= Len(ListText(list)) /\ Len(ListText(list)) \in Nat
<1>1. list \in Seq(Letter)
  BY DEF ListInv, Typed
<1>2. /\ Sent(list) \in Seq(Char) /\ Len(Sent(list)) \in 1..BufferLength
      /\ Len(Sent(list)) <= Len(ListText(list)) /\ ListText(list) \in Seq(Char)
  BY <1>1, SentIs, TextOfList
<1>3. Len(<<>>) = 0 /\ BufferLength \in Nat
  BY ListAssumption
<1>4. Sent(list) # <<>>
  BY <1>2, <1>3
<1>5. Len(ListText(list)) \in Nat
  BY <1>2, LenProperties
<1> QED BY <1>1, <1>2, <1>3, <1>4, <1>5

\* The steps of MidNet and of the connection.
LEMMA AnswersKeep ==
    ASSUME ListInv, ServerAnswers
    PROVE  ListInv'
<1>1. /\ state = "select" /\ behind = "nothing" /\ coming' \in {Sent(list), <<>>} /\ behind' = "end"
      /\ list' = list /\ state' = state /\ text' = text /\ position' = position
      /\ printed' = printed /\ turn' = turn
  BY DEF ServerAnswers
<1>2. Asked
  BY <1>1 DEF ListInv, Receiving, Listed, Kept
<1>3. Asked'
  BY <1>1, <1>2 DEF Asked, Sent
<1>4. Typed'
  <2>1. coming' \in Seq(Letter \cup {Nl})
    BY <1>1, SentFits, <<>> \in Seq(Letter \cup {Nl}) DEF Char
  <2> QED BY <1>1, <2>1 DEF ListInv, Typed
<1> QED BY <1>1, <1>3, <1>4 DEF ListInv

LEMMA ResetsKeep ==
    ASSUME ListInv, ServerResets
    PROVE  ListInv'
<1>1. /\ state = "select" /\ behind' = "error" /\ coming' \in {coming, <<>>}
      /\ behind = "nothing" \/ (behind = "end" /\ coming # <<>>)
      /\ list' = list /\ state' = state /\ text' = text /\ position' = position
      /\ printed' = printed /\ turn' = turn
  BY DEF ServerResets
<1>2. Asked \/ Receiving
  BY <1>1 DEF ListInv, Listed, Kept
<1>3. Asked' \/ Receiving'
  <2>1. CASE Asked
    <3>1. Asked'
      BY <1>1, <2>1 DEF Asked, Sent
    <3> QED BY <3>1
  <2>2. CASE Receiving
    <3>1. position \in Nat /\ (position = 0 => coming = <<>>) /\ coming # <<>>
      BY <1>1, <2>2, ListAssumption DEF Receiving, ListInv, Typed
    <3>2. position > 0
      BY <3>1
    <3>3. Receiving'
      BY <1>1, <2>2, <3>2 DEF Receiving, Sent, EndOf
    <3> QED BY <3>3
  <2> QED BY <1>2, <2>1, <2>2
<1>4. <<>> \in Seq(Letter \cup {Nl})
  OBVIOUS
<1>5. Typed'
  BY <1>1, <1>4 DEF ListInv, Typed
<1> QED BY <1>1, <1>3, <1>5 DEF ListInv

LEMMA ConnectKeeps ==
    ASSUME ListInv, Connect
    PROVE  ListInv'
<1>1. /\ state = "start"
      /\ (state' = "select" /\ text' = Request) \/ (state' = "refused" /\ text' = text)
      /\ list' = list /\ coming' = coming /\ behind' = behind /\ position' = position
      /\ printed' = printed /\ turn' = turn
  BY DEF Connect
<1>2. Asked
  BY <1>1 DEF ListInv, Receiving, Listed, Kept
<1>3. Asked'
  BY <1>1, <1>2 DEF Asked, Sent
<1>4. Request \in Seq(Letter \cup {Nl, 1}) /\ Len(Request) <= BufferLength
  BY ListAssumption DEF Request
<1>5. Typed'
  BY <1>1, <1>4 DEF ListInv, Typed, Ended
<1> QED BY <1>1, <1>3, <1>5 DEF ListInv

LEMMA TimeoutKeeps ==
    ASSUME ListInv, Timeout
    PROVE  ListInv'
<1>1. /\ state = "select" /\ coming = <<>> /\ behind = "nothing" /\ state' = "silence"
      /\ list' = list /\ coming' = coming /\ behind' = behind /\ position' = position
      /\ text' = text /\ printed' = printed /\ turn' = turn
  BY DEF Timeout, Nothing
<1>2. Asked
  BY <1>1 DEF ListInv, Receiving, Listed, Kept
<1>3. Asked'
  BY <1>1, <1>2 DEF Asked
<1>4. Typed'
  BY <1>1 DEF ListInv, Typed, Ended
<1> QED BY <1>1, <1>3, <1>4 DEF ListInv

LEMMA OverflowKeeps ==
    ASSUME ListInv, Overflow
    PROVE  ListInv'
<1>1. /\ state = "select" /\ ~(position < BufferLength) /\ state' = "overflow"
      /\ list' = list /\ coming' = coming /\ behind' = behind /\ position' = position
      /\ text' = text /\ printed' = printed /\ turn' = turn
  BY DEF Overflow, HasRoom
<1>2. Receiving \/ Kept
  BY <1>1, ListAssumption DEF ListInv, Asked, Listed
<1>3. Receiving' \/ Kept'
  BY <1>1, <1>2 DEF Receiving, Kept, Sent, EndOf
<1>4. Typed'
  BY <1>1 DEF ListInv, Typed, Ended
<1> QED BY <1>1, <1>3, <1>4 DEF ListInv

\* More of the answer, up to all of it.
LEMMA ReadSomeKeeps ==
    ASSUME ListInv, NEW n \in 1..BufferLength, ReadSome(n)
    PROVE  ListInv'
<1> DEFINE s == Sent(list)
           t == ListText(list)
           p == position
           new == SubSeq(text, 1, p) \o SubSeq(coming, 1, n)
<1>1. /\ state = "select" /\ n \in 1..Len(coming) /\ n <= BufferLength - p
      /\ coming' = SubSeq(coming, n + 1, Len(coming)) /\ text' = new /\ position' = p + n
      /\ EndOf(new) = 0 => state' = state /\ printed' = printed
      /\ EndOf(new) # 0 => state' = "listed" /\ Write(ReaderWrites(new))
      /\ list' = list /\ behind' = behind /\ turn' = turn
  BY DEF ReadSome, MayRead
<1>2. /\ list \in Seq(Letter) /\ s \in Seq(Char) /\ Len(s) \in 1..BufferLength
      /\ BufferLength \in Nat /\ Len(s) <= Len(t) /\ Len(t) \in Nat
      /\ p \in Nat /\ Len(list) <= MaxWords /\ MaxWords \in Nat /\ Len(list) \in Nat
  BY SentFits, ListAssumption, LenProperties DEF ListInv, Typed
<1>3. coming # <<>>
  <2>1. Len(<<>>) = 0 /\ ~(n \in 1..0)
    OBVIOUS
  <2> QED BY <1>1, <2>1
<1>4. /\ printed = <<>> /\ p <= Len(s) /\ behind \in {"end", "error"}
      /\ SubSeq(text, 1, p) = SubSeq(s, 1, p) /\ coming = SubSeq(s, p + 1, Len(s))
  <2>1. CASE Asked
    <3>1. printed = <<>> /\ p = 0 /\ behind \in {"end", "error"} /\ coming = s
      BY <1>3, <2>1 DEF Asked
    <3>2. SubSeq(text, 1, 0) = <<>> /\ SubSeq(s, 1, 0) = <<>>
      BY SubSeqEmpty
    <3>3. SubSeq(s, 0 + 1, Len(s)) = s
      BY <1>2, SubSeqFull
    <3> HIDE DEF s
    <3> QED BY <1>2, <3>1, <3>2, <3>3
  <2>2. CASE Receiving
    <3>1. /\ printed = <<>> /\ p <= Len(s) /\ behind \in {"end", "error"}
          /\ text = SubSeq(s, 1, p) /\ coming = SubSeq(s, p + 1, Len(s))
      BY <1>3, <2>2 DEF Receiving
    <3>2. p \in 0..Len(s) /\ p \in 0..p
      BY <1>2, <3>1
    <3> HIDE DEF s
    <3>3. SubSeq(SubSeq(s, 1, p), 1, p) = SubSeq(s, 1, p)
      BY <1>2, <3>2, PrefixOfPrefix
    <3> QED BY <3>1, <3>3
  <2> QED BY <1>1, <1>3, <2>1, <2>2 DEF ListInv, Listed, Kept
<1> HIDE DEF s, t
<1>5. p \in 0..Len(s) /\ Len(coming) = Len(s) - p /\ coming \in Seq(Char)
  <2>1. p \in 0..Len(s)
    BY <1>2, <1>4
  <2> QED BY <1>2, <1>4, <2>1, SplitText
<1>6. p + n \in 0..Len(s) /\ p + n \in 1..BufferLength /\ p + n > 0 /\ p + 1 \in 1..Len(s)
  BY <1>1, <1>2, <1>5
<1>7. new = SubSeq(s, 1, p + n)
  <2>1. /\ p + 1 \in 1..Len(s) /\ Len(s) \in 1..Len(s)
        /\ 1 \in 1..(Len(s) - (p + 1) + 1) /\ n \in 1..(Len(s) - (p + 1) + 1)
        /\ (p + 1) + 1 - 1 = p + 1 /\ (p + 1) + n - 1 = p + n
    BY <1>1, <1>2, <1>5
  <2>2. SubSeq(SubSeq(s, p + 1, Len(s)), 1, n) = SubSeq(s, (p + 1) + 1 - 1, (p + 1) + n - 1)
    BY <1>2, <2>1, SubSeqOfSubSeq
  <2>3. SubSeq(coming, 1, n) = SubSeq(s, p + 1, p + n)
    BY <1>4, <2>1, <2>2
  <2>4. 1 \in 1..(Len(s) + 1) /\ p \in (1 - 1)..Len(s) /\ p + n \in p..Len(s)
    BY <1>1, <1>2, <1>5, <1>6
  <2>5. SubSeq(s, 1, p) \o SubSeq(s, p + 1, p + n) = SubSeq(s, 1, p + n)
    BY <1>2, <2>4, ConcatAdjacentSubSeq
  <2> QED BY <1>4, <2>3, <2>5
<1>8. coming' = SubSeq(s, (p + n) + 1, Len(s))
  <2>1. coming' = SubSeq(SubSeq(s, p + 1, Len(s)), n + 1, Len(s) - p)
    BY <1>1, <1>4, <1>5
  <2>2. CASE n = Len(s) - p
    <3>1. Len(s) - p < n + 1 /\ Len(s) < (p + n) + 1 /\ n + 1 \in Int /\ Len(s) - p \in Int
          /\ Len(s) \in Int /\ (p + n) + 1 \in Int
      BY <1>1, <1>2, <2>2
    <3> QED BY <2>1, <3>1, SubSeqEmpty
  <2>3. CASE n # Len(s) - p
    <3>1. /\ p + 1 \in 1..Len(s) /\ Len(s) \in 1..Len(s)
          /\ n + 1 \in 1..(Len(s) - (p + 1) + 1) /\ Len(s) - p \in 1..(Len(s) - (p + 1) + 1)
          /\ (p + 1) + (n + 1) - 1 = (p + n) + 1 /\ (p + 1) + (Len(s) - p) - 1 = Len(s)
      <4>1. /\ n \in Nat /\ n > 0 /\ p \in Nat /\ Len(s) \in Nat /\ p <= Len(s)
            /\ n <= Len(s) - p /\ n # Len(s) - p
        BY <1>1, <1>2, <1>5, <2>3
      <4> QED BY ONLY <4>1
    <3>2. SubSeq(SubSeq(s, p + 1, Len(s)), n + 1, Len(s) - p)
              = SubSeq(s, (p + 1) + (n + 1) - 1, (p + 1) + (Len(s) - p) - 1)
      BY <1>2, <3>1, SubSeqOfSubSeq
    <3> QED BY <2>1, <3>1, <3>2
  <2> QED BY <2>2, <2>3
<1>9. /\ new \in Seq(Char) /\ Len(new) = p + n /\ coming' \in Seq(Char)
  <2>1. SubSeq(s, 1, p + n) \in Seq(Char) /\ Len(SubSeq(s, 1, p + n)) = p + n
    BY <1>2, <1>6, SplitText
  <2>2. SubSeq(s, (p + n) + 1, Len(s)) \in Seq(Char)
    BY <1>2, <1>6, SplitText
  <2> HIDE DEF new
  <2> QED BY <1>7, <1>8, <2>1, <2>2
<1>10. p + n \in 0..Len(t) /\ new = SubSeq(t, 1, p + n)
  <2>1. p + n \in 0..Len(t)
    BY <1>2, <1>6
  <2>2. SubSeq(s, 1, p + n) = SubSeq(t, 1, p + n)
    BY <1>2, <1>6, SentIs DEF s, t
  <2> QED BY <1>7, <2>1, <2>2
<1> HIDE DEF new
<1>11. CASE EndOf(new) = 0
  <2>1. s' = s
    BY <1>1 DEF s, Sent
  <2>2. EndOf(text') = 0
    BY <1>1, <1>11
  <2>3. EndOf(text)' = EndOf(text')
    BY DEF EndOf
  <2>4. Receiving'
    <3>1. state' = "select" /\ printed' = <<>> /\ position' <= Len(s') /\ position' = p + n
      BY <1>1, <1>2, <1>4, <1>6, <1>11, <2>1
    <3>2. text' = SubSeq(s', 1, position') /\ EndOf(text)' = 0
      BY <1>1, <1>7, <2>1, <2>2, <2>3, <3>1
    <3>3. coming' \in {<<>>, SubSeq(s', position' + 1, Len(s'))}
      BY <1>8, <2>1, <3>1
    <3>4. /\ behind' = "end" \/ (behind' = "error" /\ position' > 0)
          /\ position' # 0
      BY <1>1, <1>4, <1>6, <3>1
    <3> QED BY <3>1, <3>2, <3>3, <3>4 DEF Receiving, s
  <2>5. Typed'
    BY <1>1, <1>6, <1>9, <1>11 DEF ListInv, Typed, Char
  <2> QED BY <1>1, <2>4, <2>5 DEF ListInv
<1>12. CASE EndOf(new) # 0
  <2>1. p + n = Len(t)
    BY <1>2, <1>10, <1>12, EndOfPrefix DEF t
  <2>2. ReaderWrites(new) = list
    <3>1. \E m \in 0..Len(list) :
             /\ ReaderWrites(SubSeq(t, 1, p + n)) = SubSeq(list, 1, m)
             /\ p + n = Len(t) => m = Len(list)
      BY <1>2, <1>10, PrintsPrefix DEF t
    <3>2. ReaderWrites(new) = SubSeq(list, 1, Len(list))
      BY <1>10, <2>1, <3>1
    <3> QED BY <1>2, <3>2, SubSeqFull
  <2>3. printed' = list
    <3>1. printed \in Seq(Letter) /\ Len(printed) <= MaxWords
      BY <1>2, <1>4
    <3>2. Write(list)
      BY <1>1, <1>12, <2>2
    <3> QED BY <1>2, <1>4, <3>1, <3>2, WriteAdds
  <2>4. Listed'
    BY <1>1, <1>12, <2>3 DEF Listed
  <2>5. Typed'
    <3>1. printed' \in Seq(Letter) /\ Len(printed') <= MaxWords + 1
      BY <1>2, <2>3
    <3>2. /\ text' \in Seq(Letter \cup {Nl, 1}) /\ Len(text') <= BufferLength
          /\ position' \in 0..BufferLength /\ coming' \in Seq(Letter \cup {Nl})
      BY <1>1, <1>2, <1>6, <1>9 DEF Char
    <3>3. /\ list' \in Seq(Letter) /\ behind' \in {"nothing", "end", "error"} /\ turn' \in {0, 1}
      BY <1>1 DEF ListInv, Typed
    <3>4. state' \in {"start", "select"} \cup Ended
      BY <1>1, <1>12 DEF Ended
    <3> QED BY <3>1, <3>2, <3>3, <3>4 DEF Typed
  <2> QED BY <1>1, <2>4, <2>5 DEF ListInv
<1> QED BY <1>11, <1>12

\* A reset: the last character read is lost.
LEMMA ReadErrorKeeps ==
    ASSUME ListInv, text # Request, ReadError
    PROVE  ListInv'
<1> DEFINE s == Sent(list)
           p == position
           new == IF p = 0 THEN text ELSE SubSeq(text, 1, p - 1)
<1>1. /\ state = "select" /\ coming = <<>> /\ behind = "error" /\ behind' = "end"
      /\ text' = new /\ position' = p - 1
      /\ EndOf(new) = 0 => state' = state /\ printed' = printed
      /\ list' = list /\ coming' = coming /\ turn' = turn
  BY DEF ReadError, MayRead
<1>2. Receiving
  BY <1>1 DEF ListInv, Asked, Listed, Kept
<1>3. /\ printed = <<>> /\ p \in Nat /\ p > 0 /\ p <= Len(s) /\ text = SubSeq(s, 1, p)
      /\ list \in Seq(Letter) /\ s \in Seq(Char) /\ Len(s) \in 1..BufferLength
      /\ BufferLength \in Nat /\ Len(s) <= Len(ListText(list)) /\ Len(ListText(list)) \in Nat
  BY <1>1, <1>2, SentFits DEF Receiving, ListInv, Typed
<1> HIDE DEF s
<1>4. /\ p \in 0..Len(s) /\ p - 1 \in 0..p /\ p - 1 \in 0..Len(s) /\ p - 1 # Len(ListText(list))
      /\ p - 1 \in 0..BufferLength /\ p - 1 \in 0..Len(ListText(list)) /\ p # 0
  BY <1>3
<1>5. new = SubSeq(s, 1, p - 1) /\ new \in Seq(Char) /\ Len(new) = p - 1
  <2>1. SubSeq(SubSeq(s, 1, p), 1, p - 1) = SubSeq(s, 1, p - 1)
    BY <1>3, <1>4, PrefixOfPrefix
  <2>2. SubSeq(s, 1, p - 1) \in Seq(Char) /\ Len(SubSeq(s, 1, p - 1)) = p - 1
    BY <1>3, <1>4, PrefixProperties
  <2> QED BY <1>3, <1>4, <2>1, <2>2
<1> HIDE DEF new
<1>6. EndOf(new) = 0
  <2>1. new = SubSeq(ListText(list), 1, p - 1)
    BY <1>3, <1>4, <1>5, SentIs DEF s
  <2> QED BY <1>3, <1>4, <2>1, EndOfPrefix
<1>7. Receiving'
  <2>1. s' = s /\ EndOf(text)' = EndOf(text')
    BY <1>1 DEF s, Sent, EndOf
  <2>2. state' = "select" /\ printed' = <<>> /\ position' <= Len(s') /\ position' = p - 1
    BY <1>1, <1>3, <1>4, <1>6, <2>1
  <2>3. text' = SubSeq(s', 1, position') /\ EndOf(text)' = 0
    BY <1>1, <1>5, <1>6, <2>1, <2>2
  <2>4. coming' = <<>> /\ behind' = "end"
    BY <1>1
  <2> QED BY <2>2, <2>3, <2>4 DEF Receiving, s
<1>8. Typed'
  BY <1>1, <1>3, <1>4, <1>5, <1>6 DEF ListInv, Typed, Char
<1> QED BY <1>1, <1>7, <1>8 DEF ListInv

\* The end of the connection: the whole lines of what has come are printed, and
\* what is left of it is moved to the front.
LEMMA ReadEndKeeps ==
    ASSUME ListInv, text # Request, ReadEnd
    PROVE  ListInv'
<1>1. /\ state = "select" /\ position < BufferLength /\ coming = <<>> /\ behind = "end"
      /\ Write(ReaderWrites(text)) /\ ReaderKeeps(text) /\ turn' = 1 - turn
      /\ list' = list /\ coming' = coming /\ behind' = behind /\ state' = state
  BY DEF ReadEnd, MayRead, HasRoom
<1>2. /\ list \in Seq(Letter) /\ Len(list) <= MaxWords /\ MaxWords \in Nat /\ Len(list) \in Nat
      /\ BufferLength \in Nat /\ position \in Nat /\ printed \in Seq(Letter)
      /\ turn' \in {0, 1}
  BY <1>1, ListAssumption, LenProperties DEF ListInv, Typed
<1>3. CASE Receiving
  <2> DEFINE s == Sent(list)
             t == ListText(list)
             p == position
  <2>1. /\ text = SubSeq(s, 1, p) /\ p \in 0..Len(s) /\ EndOf(text) = 0 /\ printed = <<>>
        /\ s \in Seq(Char) /\ Len(s) \in Nat /\ Len(s) <= Len(t) /\ Len(t) \in Nat
    BY <1>2, <1>3, SentFits DEF Receiving
  <2> HIDE DEF s, t
  <2>2. /\ text = SubSeq(t, 1, p) /\ p \in 0..Len(t) /\ text \in Seq(Char) /\ Len(text) = p
    <3>1. text = SubSeq(t, 1, p)
      BY <1>2, <2>1, SentIs DEF s, t
    <3>2. text \in Seq(Char) /\ Len(text) = p
      BY <2>1, PrefixProperties
    <3> QED BY <2>1, <3>1, <3>2
  <2>3. PICK m \in 0..Len(list) : ReaderWrites(text) = SubSeq(list, 1, m)
    BY <1>2, <2>2, PrintsPrefix DEF t
  <2>4. /\ SubSeq(list, 1, m) \in Seq(Letter) /\ Len(SubSeq(list, 1, m)) = m /\ m <= MaxWords
    <3>1. SubSeq(list, 1, m) \in Seq(Letter) /\ Len(SubSeq(list, 1, m)) = m
      BY <1>2, PrefixProperties
    <3> QED BY <1>2, <3>1
  <2>5. printed' = SubSeq(list, 1, m)
    <3>1. Len(printed) <= MaxWords
      BY <1>2, <2>1
    <3> QED BY <1>1, <1>2, <2>1, <2>3, <2>4, <3>1, WriteAdds
  <2>6. IsPrefix(printed', list)
    <3>1. SubSeq(printed', 1, Len(printed')) = printed'
      BY <2>4, <2>5, SubSeqFull
    <3>2. Len(printed') = m /\ m <= Len(list)
      BY <1>2, <2>4, <2>5
    <3> QED BY <2>5, <3>1, <3>2 DEF IsPrefix
  <2>7. CASE text # <<>> /\ text[1] = Nl
    <3>1. ReaderWrites(text) = <<>> /\ text' = text /\ position' = position
      BY <1>1, <2>7 DEF ReaderWrites, ReaderKeeps
    <3>2. printed' = <<>>
      <4>1. <<>> \in Seq(Letter) /\ Len(printed) <= MaxWords
        BY <1>2, <2>1
      <4> QED BY <1>1, <1>2, <2>1, <3>1, <4>1, WriteAdds
    <3>3. Receiving'
      <4>1. s' = s /\ EndOf(text)' = EndOf(text')
        BY <1>1 DEF s, Sent, EndOf
      <4> QED BY <1>1, <1>2, <1>3, <2>1, <3>1, <3>2, <4>1 DEF Receiving, s
    <3>4. Typed'
      BY <1>1, <1>2, <2>1, <3>1, <3>2 DEF ListInv, Typed
    <3> QED BY <1>1, <3>3, <3>4 DEF ListInv
  <2>8. CASE ~(text # <<>> /\ text[1] = Nl)
    <3>1. PICK used \in 0..Len(text) :
              /\ text' \in Seq(Char) /\ Len(text') = Len(text) - used
              /\ position' = BufferLength - used
              /\ \A i \in 1..Len(text') : text'[i] # Nl
      <4>1. Len(text) <= BufferLength
        BY <1>1, <1>2, <2>2
      <4> QED BY <1>1, <2>1, <2>2, <2>8, <4>1, KeepsRest
    <3>2. /\ Len(text') < position' /\ position' \in 0..BufferLength
          /\ Len(text') <= BufferLength
      BY <1>1, <1>2, <2>2, <3>1
    <3>3. Kept'
      BY <1>1, <2>6, <3>1, <3>2 DEF Kept
    <3>4. Typed'
      <4>1. printed' \in Seq(Letter) /\ Len(printed') <= MaxWords + 1
        BY <1>2, <2>4, <2>5
      <4>2. text' \in Seq(Letter \cup {Nl, 1})
        BY <3>1 DEF Char
      <4> QED BY <1>1, <1>2, <3>2, <4>1, <4>2 DEF ListInv, Typed
    <3> QED BY <1>1, <3>3, <3>4 DEF ListInv
  <2> QED BY <2>7, <2>8
<1>4. CASE Kept
  <2>1. /\ \A i \in 1..Len(text) : text[i] # Nl
        /\ IsPrefix(printed, list) /\ Len(text) < position
        /\ text \in Seq(Letter \cup {Nl, 1}) /\ Len(text) \in Nat
    BY <1>4, LenProperties DEF Kept, ListInv, Typed
  <2>2. EndOf(text) = 0
    <3>1. EndOf(text) # 0 => EndOf(text) \in 1..(Len(text) - 1) /\ text[EndOf(text)] = Nl
      BY <2>1, EndBounds
    <3> QED BY <2>1, <3>1
  <2>3. ReaderWrites(text) = <<>>
    <3>1. EndOfBuffer(text) = Len(text)
      BY <2>2 DEF EndOfBuffer
    <3> QED BY <2>1, <3>1 DEF ReaderWrites
  <2>4. ~(text # <<>> /\ text[1] = Nl)
    <3>1. text # <<>> => Len(text) # 0
      BY <2>1, EmptySeq
    <3> QED BY <2>1, <3>1
  <2>5. text' = text /\ position' = BufferLength
    <3> DEFINE used == SelectLastInSeq(text, LAMBDA c : c = Nl)
    <3>1. used = 0
      BY <2>1 DEF SelectLastInSeq
    <3>2. text' = SubSeq(text, used + 1, Len(text)) /\ position' = BufferLength - used
      BY <1>1, <2>2, <2>4 DEF ReaderKeeps
    <3> HIDE DEF used
    <3>3. text' = SubSeq(text, 1, Len(text)) /\ position' = BufferLength
      BY <1>2, <3>1, <3>2
    <3> QED BY <2>1, <3>3, SubSeqFull
  <2>6. printed' = printed
    <3>1. Len(printed) <= MaxWords
      <4>1. Len(printed) <= Len(list) /\ Len(printed) \in Nat
        BY <1>2, <2>1, LenProperties DEF IsPrefix
      <4> QED BY <1>2, <4>1
    <3>2. <<>> \in Seq(Letter)
      OBVIOUS
    <3> QED BY <1>1, <1>2, <2>3, <3>1, <3>2, WriteAdds
  <2>7. Kept'
    BY <1>1, <1>2, <1>4, <2>1, <2>5, <2>6 DEF Kept
  <2>8. Typed'
    BY <1>1, <1>2, <2>5, <2>6 DEF ListInv, Typed
  <2> QED BY <1>1, <2>7, <2>8 DEF ListInv
<1>5. ~Asked /\ ~Listed
  BY <1>1, SentFits DEF Asked, Listed
<1> QED BY <1>3, <1>4, <1>5 DEF ListInv
-----------------------------------------------------------------------------
(* The program that took its own request for the answer.                   *)

Mistaken ==
    /\ list \in Seq(Letter)
    /\ coming = <<>> /\ behind = "end"
    /\ text = Request
    /\ printed \in Seq(Letter \cup {1}) /\ Len(printed) <= MaxWords + 1
    /\ turn \in {0, 1}
    /\ \/ state = "select" /\ position = 0
       \/ state = "listed" /\ position = -1

LEMMA RequestText ==
    /\ Request \in Seq(Letter \cup {Nl, 1}) /\ Len(Request) = 3
    /\ Request[1] = 1 /\ Request[2] = Nl /\ EndOf(Request) = 2
<1>1. /\ Request \in Seq({Nl, 1}) /\ Len(Request) = 3
      /\ Request[1] = 1 /\ Request[2] = Nl /\ Request[3] = Nl /\ 1 # Nl
  BY DEF Request, Nl
<1>2. EndOf(Request) = 2
  <2>1. EndOf(Request) # 0
    <3>1. 2 \in 1..(Len(Request) - 1) /\ Request[2 + 1] = Nl
      BY <1>1
    <3> QED BY <1>1, <3>1, EndBounds
  <2>2. EndOf(Request) \in 1..(Len(Request) - 1) /\ Request[EndOf(Request)] = Nl
    BY <1>1, <2>1, EndBounds
  <2>3. EndOf(Request) \in {1, 2}
    BY <1>1, <2>2
  <2> QED BY <1>1, <2>2, <2>3
<1>3. Request \in Seq(Letter \cup {Nl, 1})
  BY DEF Request
<1> QED BY <1>1, <1>2, <1>3

\* It prints its command.
LEMMA RequestPrinted ==
    ASSUME printed \in Seq(Letter \cup {1}), Write(ReaderWrites(Request))
    PROVE  printed' \in Seq(Letter \cup {1}) /\ Len(printed') <= MaxWords + 1
<1> DEFINE S == Letter \cup {1}
           ends == {i \in 1..2 : Request[i] = Nl}
           t == SubSeq(Request, 1, 2)
           at == {i \in DOMAIN t : t[i] # Nl}
           Place(n) == CHOOSE i \in at : Cardinality({j \in at : j <= i}) = n
           words == ReaderWrites(Request)
<1>1. ends = {2}
  <2>1. Request[1] # Nl
    BY RequestText DEF Nl
  <2> QED BY <2>1, RequestText
<1>2. Max(ends) = 2
  <2>1. ends \subseteq 0..2 /\ ends # {} /\ 2 \in Nat
    BY <1>1
  <2>2. Max(ends) \in ends
    <3> HIDE DEF ends
    <3> QED BY <2>1, GreatestElement
  <2> QED BY <1>1, <2>2
<1>3. words = Words(t)
  <2>1. EndOfBuffer(Request) = 2
    BY RequestText DEF EndOfBuffer
  <2>2. words = IF ends = {} \/ Request[1] = Nl THEN <<>> ELSE Words(SubSeq(Request, 1, Max(ends)))
    BY <2>1 DEF ReaderWrites
  <2>3. Request[1] # Nl /\ ends # {}
    BY <1>1, RequestText DEF Nl
  <2> HIDE DEF ends, words
  <2> QED BY <1>2, <2>2, <2>3
<1>4. t \in Seq(Letter \cup {Nl, 1}) /\ Len(t) = 2 /\ t[1] = 1 /\ t[2] = Nl
  <2>1. 2 \in 0..Len(Request) /\ 1 \in 1..2 /\ 2 \in 1..2
    BY RequestText
  <2> QED BY <2>1, RequestText, PrefixProperties
<1> HIDE DEF t
<1>5. at = {1}
  <2>1. DOMAIN t = 1..2 /\ 1 # Nl
    BY <1>4 DEF Nl
  <2> QED BY <1>4, <2>1
<1>6. Cardinality(at) = 1
  BY <1>5, FS_Singleton
<1>7. Place(1) = 1
  <2>1. {j \in at : j <= 1} = at
    BY <1>5
  <2>2. \E i \in at : Cardinality({j \in at : j <= i}) = 1
    BY <1>5, <1>6, <2>1
  <2>3. Place(1) \in at
    <3> HIDE DEF at
    <3> QED BY <2>2
  <2> HIDE DEF Place
  <2> QED BY <1>5, <2>3
<1>8. words = [n \in 1..1 |-> t[Place(n)]]
  BY <1>3, <1>6 DEF Words
<1> HIDE DEF words
<1>9. words \in Seq(S)
  <2>1. \A n \in 1..1 : t[Place(n)] \in S
    <3>1. \A n \in 1..1 : n = 1
      OBVIOUS
    <3> HIDE DEF Place
    <3>2. t[Place(1)] = 1
      BY <1>4, <1>7
    <3> QED BY <3>1, <3>2
  <2>2. words \in [1..1 -> S]
    <3> DEFINE g == [n \in 1..1 |-> t[Place(n)]]
    <3>1. g \in [1..1 -> S]
      <4> HIDE DEF Place, S
      <4> QED BY <2>1
    <3> HIDE DEF g, S
    <3> QED BY <1>8, <3>1 DEF g
  <2>3. PICK k \in Nat : words \in [1..k -> S]
    BY <2>2
  <2> HIDE DEF S
  <2> QED BY <2>3
<1> DEFINE all == printed \o words
           n == IF Len(all) > MaxWords THEN MaxWords + 1 ELSE Len(all)
<1>10. all \in Seq(S) /\ Len(all) \in Nat /\ MaxWords \in Nat
  BY <1>9, ListAssumption, ConcatProperties, LenProperties
<1>11. printed' = SubSeq(all, 1, n)
  BY DEF Write, words
<1> HIDE DEF all, S
<1>12. n \in 0..Len(all) /\ n <= MaxWords + 1
  BY <1>10
<1> HIDE DEF n
<1>13. SubSeq(all, 1, n) \in Seq(S) /\ Len(SubSeq(all, 1, n)) = n
  BY <1>10, <1>12, PrefixProperties
<1> QED BY <1>11, <1>12, <1>13 DEF S

\* It takes its request for the answer when it has read nothing.
LEMMA Mistakes ==
    ASSUME ListInv \/ Mistaken, text = Request, ReadEnd \/ ReadError
    PROVE  Mistaken'
<1>1. EndOf(Request) # 0 /\ Request[2] = Nl /\ Len(Request) = 3
  BY RequestText
<1>2. /\ state = "select" /\ coming = <<>> /\ behind \in {"end", "error"}
      /\ list' = list /\ coming' = coming
  BY DEF ReadEnd, ReadError, MayRead
<1>3. /\ list \in Seq(Letter) /\ printed \in Seq(Letter \cup {1}) /\ turn \in {0, 1}
      /\ position = 0 /\ (ReadError => behind = "error")
  <2>1. CASE ListInv
    <3>1. ~Receiving /\ ~Kept
      <4>1. 2 \in 1..Len(text)
        BY <1>1
      <4> QED BY <1>1, <4>1 DEF Receiving, Kept
    <3>2. Asked
      BY <1>2, <2>1, <3>1 DEF ListInv, Listed
    <3>3. printed = <<>> /\ <<>> \in Seq(Letter \cup {1})
      BY <3>2 DEF Asked
    <3> QED BY <2>1, <3>2, <3>3 DEF ListInv, Typed, Asked, ReadError
  <2>2. CASE Mistaken
    BY <1>2, <2>2 DEF Mistaken, ReadError
  <2> QED BY <2>1, <2>2
<1>4. CASE ReadEnd
  <2>1. /\ behind' = "end" /\ state' = state /\ turn' = 1 - turn
        /\ Write(ReaderWrites(Request)) /\ ReaderKeeps(Request)
    BY <1>4 DEF ReadEnd
  <2>2. text' = Request /\ position' = position
    BY <1>1, <2>1 DEF ReaderKeeps
  <2>3. printed' \in Seq(Letter \cup {1}) /\ Len(printed') <= MaxWords + 1
    BY <1>3, <2>1, RequestPrinted
  <2>4. turn' \in {0, 1}
    BY <1>3, <2>1
  <2> QED BY <1>2, <1>3, <2>1, <2>2, <2>3, <2>4 DEF Mistaken
<1>5. CASE ReadError
  <2>1. /\ behind' = "end" /\ text' = Request /\ position' = -1 /\ turn' = turn
        /\ state' = "listed" /\ Write(ReaderWrites(Request))
    BY <1>1, <1>3, <1>5 DEF ReadError
  <2>2. printed' \in Seq(Letter \cup {1}) /\ Len(printed') <= MaxWords + 1
    BY <1>3, <2>1, RequestPrinted
  <2> QED BY <1>2, <1>3, <2>1, <2>2 DEF Mistaken
<1> QED BY <1>4, <1>5

\* From then on it prints its request again and again, if it does not end.
LEMMA MistakenStays ==
    ASSUME Mistaken, ClientStep \/ ServerAnswers \/ ServerResets
    PROVE  Mistaken'
<1>1. coming = <<>> /\ behind = "end" /\ state \in {"select", "listed"} /\ text = Request
  BY DEF Mistaken
<1>2. state = "select" => position < BufferLength
  BY ListAssumption DEF Mistaken
<1>3. ~Connect /\ ~Timeout /\ ~Overflow /\ ~ServerAnswers /\ ~ServerResets
  BY <1>1, <1>2 DEF Connect, Timeout, Nothing, Overflow, HasRoom, ServerAnswers, ServerResets
<1>4. \A n \in 1..BufferLength : ~ReadSome(n)
  <2>1. Len(coming) = 0
    BY <1>1
  <2> QED BY <2>1 DEF ReadSome
<1> QED BY <1>1, <1>3, <1>4, Mistakes DEF ClientStep
-----------------------------------------------------------------------------
ClientInv == IF early THEN Mistaken ELSE ListInv
ClientTyped == early \in BOOLEAN /\ ClientInv

LEMMA ClientNext == ClientTyped /\ [Next]_vars => ClientTyped'
<1> SUFFICES ASSUME ClientTyped, [Next]_vars PROVE ClientTyped'
  OBVIOUS
<1>1. CASE ReadEnd \/ ReadError
  <2>1. early' = (early \/ text = Request)
    BY <1>1 DEF ReadEnd, ReadError
  <2>2. CASE text = Request
    <3>1. Mistaken'
      BY <1>1, <2>2, Mistakes DEF ClientTyped, ClientInv
    <3> QED BY <2>1, <2>2, <3>1 DEF ClientTyped, ClientInv
  <2>3. CASE text # Request
    <3>1. ~early /\ ListInv
      BY <2>3 DEF ClientTyped, ClientInv, Mistaken
    <3>2. ListInv'
      BY <1>1, <2>3, <3>1, ReadEndKeeps, ReadErrorKeeps
    <3> QED BY <2>1, <2>3, <3>1, <3>2 DEF ClientTyped, ClientInv
  <2> QED BY <2>2, <2>3
<1>2. CASE \/ Connect \/ Timeout \/ Overflow \/ ServerAnswers \/ ServerResets
           \/ \E n \in 1..BufferLength : ReadSome(n)
  <2>1. early' = early
    BY <1>2 DEF Connect, Timeout, Overflow, ServerAnswers, ServerResets, ReadSome
  <2>2. CASE early
    <3>1. Mistaken'
      BY <1>2, <2>2, MistakenStays DEF ClientTyped, ClientInv, ClientStep
    <3> QED BY <2>1, <2>2, <3>1 DEF ClientTyped, ClientInv
  <2>3. CASE ~early
    <3>1. ListInv
      BY <2>3 DEF ClientTyped, ClientInv
    <3>2. ListInv'
      BY <1>2, <3>1, ConnectKeeps, TimeoutKeeps, OverflowKeeps, ReadSomeKeeps,
         AnswersKeep, ResetsKeep
    <3> QED BY <2>1, <2>3, <3>2 DEF ClientTyped, ClientInv
  <2> QED BY <2>2, <2>3 DEF ClientTyped
<1>3. CASE UNCHANGED vars
  <2>1. /\ list' = list /\ coming' = coming /\ behind' = behind /\ state' = state
        /\ text' = text /\ position' = position /\ printed' = printed /\ turn' = turn
        /\ early' = early
    BY <1>3 DEF vars
  <2>2. /\ Typed' = Typed /\ Asked' = Asked /\ Receiving' = Receiving
        /\ Listed' = Listed /\ Kept' = Kept /\ Mistaken' = Mistaken
    BY <2>1 DEF Typed, Asked, Receiving, Listed, Kept, Sent, EndOf, IsPrefix, Mistaken
  <2>3. ListInv' = ListInv
    BY <2>1, <2>2 DEF ListInv
  <2> QED BY <2>1, <2>2, <2>3 DEF ClientTyped, ClientInv
<1> QED BY <1>1, <1>2, <1>3 DEF Next, ClientStep

LEMMA ClientInvHolds == Spec => []ClientTyped
<1>1. Init => ClientTyped
  BY ListInit DEF Init, ClientTyped, ClientInv
<1>2. ClientTyped /\ [Next]_vars => ClientTyped'
  BY ClientNext
<1> QED BY <1>1, <1>2, PTL DEF Spec

\* The program stays within its buffer, whatever comes and whatever does not:
\* position is -1 at least, when a read() fails before anything has come
\* (tcp_client.c:100), and the length of the buffer at most.
THEOREM ListClientTypeCorrect == Spec => []TypeOK
<1>1. ClientTyped => TypeOK
  <2> SUFFICES ASSUME ClientTyped PROVE TypeOK
    OBVIOUS
  <2>1. BufferLength \in Nat /\ BufferLength >= 3
    BY ListAssumption
  <2>2. CASE early
    <3>1. Mistaken
      BY <2>2 DEF ClientTyped, ClientInv
    <3>2. coming \in Seq(Letter \cup {Nl})
      BY <3>1, <<>> \in Seq(Letter \cup {Nl}) DEF Mistaken
    <3>3. text \in Seq(Letter \cup {Nl, 1}) /\ Len(text) <= BufferLength
      BY <2>1, <3>1, RequestText DEF Mistaken
    <3>4. position \in -1..BufferLength
      BY <2>1, <3>1 DEF Mistaken
    <3> QED BY <3>1, <3>2, <3>3, <3>4 DEF Mistaken, TypeOK, Ended, ClientTyped
  <2>3. CASE ~early
    <3>1. Typed
      BY <2>3 DEF ClientTyped, ClientInv, ListInv
    <3>2. position \in -1..BufferLength
      BY <2>1, <3>1 DEF Typed
    <3>3. printed \in Seq(Letter \cup {1})
      <4>1. \A t \in Seq(Letter) : t \in Seq(Letter \cup {1})
        OBVIOUS
      <4> QED BY <3>1, <4>1 DEF Typed
    <3> QED BY <3>1, <3>2, <3>3 DEF Typed, TypeOK, ClientTyped
  <2> QED BY <2>2, <2>3 DEF ClientTyped
<1> QED BY <1>1, ClientInvHolds, PTL

\* However TCP cuts the answer, and wherever it breaks off behind its first
\* character, what is printed are the first words of the dictionary, whole and
\* once each, and never more after the end of the connection.
THEOREM OnlyTheListIsPrinted == Spec => []PrintsOnlyTheList
<1>1. ClientTyped => PrintsOnlyTheList
  <2> SUFFICES ASSUME ListInv PROVE IsPrefix(printed, list)
    BY DEF PrintsOnlyTheList, ClientTyped, ClientInv
  <2>1. list \in Seq(Letter) /\ Len(list) \in Nat
    BY LenProperties DEF ListInv, Typed
  <2>2. CASE printed = <<>>
    <3>1. Len(printed) = 0
      BY <2>2
    <3>2. SubSeq(printed, 1, 0) = <<>> /\ SubSeq(list, 1, 0) = <<>>
      BY SubSeqEmpty
    <3> QED BY <2>1, <3>1, <3>2 DEF IsPrefix
  <2>3. CASE printed = list
    BY <2>1, <2>3 DEF IsPrefix
  <2> QED BY <2>2, <2>3 DEF ListInv, Asked, Receiving, Listed, Kept
<1> QED BY <1>1, ClientInvHolds, PTL

\* A program that has read something and ends in order has printed all of the
\* list, and one that ends for lack of room, with its buffer full of the answer,
\* none of it.
THEOREM ListsAreWhole == Spec => []ListedIsWhole
<1>1. ClientTyped => ListedIsWhole
  <2> SUFFICES ASSUME ListInv
               PROVE  /\ state = "listed" => printed = list
                      /\ (state = "overflow" /\ position = Len(text)) => printed = <<>>
    BY DEF ListedIsWhole, ClientTyped, ClientInv
  <2>1. state = "listed" => Listed
    BY DEF ListInv, Asked, Receiving, Kept
  <2>2. state = "overflow" => Receiving \/ (Kept /\ Len(text) < position)
    BY DEF ListInv, Asked, Listed, Kept
  <2>3. Len(text) \in Nat /\ position \in Nat
    BY LenProperties DEF ListInv, Typed
  <2> QED BY <2>1, <2>2, <2>3 DEF Listed, Receiving
<1> QED BY <1>1, ClientInvHolds, PTL
=============================================================================
