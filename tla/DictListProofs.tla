--------------------------- MODULE DictListProofs ---------------------------
(***************************************************************************)
(* What put() does to a list of cells, for every list, word and cut: where *)
(* its scan stops, when it finds the word, and the list it leaves.         *)
(***************************************************************************)
EXTENDS DictList, Extrema, SequenceTheorems

LEMMA KeyIsNatural == Key \subseteq Nat \ {0}
BY WordAssumption, CutAssumption DEF Key

LEMMA CutIsKey ==
    ASSUME NEW w \in Word
    PROVE  Cut[w] \in Key
BY DEF Key

\* The scan of put() stops behind every smaller cell, in front of the first
\* cell that is not smaller, or behind the last cell when there is none.
LEMMA PositionProperties ==
    ASSUME NEW list \in Seq(Key), NEW key \in Key
    PROVE  /\ Position(list, key) \in 1..(Len(list) + 1)
           /\ \A i \in 1..(Position(list, key) - 1) : list[i] < key
           /\ Position(list, key) <= Len(list) => key <= list[Position(list, key)]
<1> DEFINE NotSmaller == {i \in 1..Len(list) : list[i] >= key}
<1>1. /\ Len(list) \in Nat
      /\ key \in Nat
      /\ \A i \in 1..Len(list) : list[i] \in Nat
  BY KeyIsNatural, ElementOfSeq, LenProperties
<1>2. CASE NotSmaller = {}
  <2>1. Position(list, key) = Len(list) + 1
    BY <1>2, <1>1 DEF Position, SelectInSeq
  <2> QED BY <2>1, <1>1, <1>2
<1>3. CASE NotSmaller # {}
  <2>1. /\ Min(NotSmaller) \in NotSmaller
        /\ \A i \in NotSmaller : Min(NotSmaller) <= i
    <3>1. NotSmaller \subseteq Nat
      BY <1>1
    <3> HIDE DEF NotSmaller
    <3> QED BY <3>1, <1>3, LeastElement
  <2>2. Min(NotSmaller) # 0
    BY <2>1
  <2>3. Position(list, key) = Min(NotSmaller)
    BY <1>3, <2>2 DEF Position, SelectInSeq
  <2> DEFINE p == Min(NotSmaller)
  <2>4. p \in 1..Len(list) /\ list[p] >= key
    BY <2>1
  <2>5. \A i \in 1..(p - 1) : list[i] < key
    <3> SUFFICES ASSUME NEW i \in 1..(p - 1)
                 PROVE  list[i] < key
      OBVIOUS
    <3>1. i \in 1..Len(list) /\ i < p
      BY <1>1, <2>4
    <3>2. i \notin NotSmaller
      BY <2>1, <2>4, <3>1
    <3> QED BY <3>1, <3>2, <1>1
  <2>6. Position(list, key) = p
    BY <2>3
  <2>7. p \in 1..(Len(list) + 1) /\ key <= list[p]
    BY <2>4, <1>1
  <2> HIDE DEF p
  <2> QED BY <2>5, <2>6, <2>7
<1> QED BY <1>2, <1>3

\* In a strictly increasing list the scan finds the word if it is stored:
\* put() answers 0 for a stored word and only for it.
LEMMA PutReturnProperties ==
    ASSUME NEW list \in Seq(Key), StrictlySorted(list), NEW w \in Word
    PROVE  /\ PutReturn(list, w) \in {0, 1}
           /\ PutReturn(list, w) = 0 <=> Cut[w] \in Keys(list)
<1> DEFINE p == Position(list, Cut[w])
<1>1. /\ p \in 1..(Len(list) + 1)
      /\ \A i \in 1..(p - 1) : list[i] < Cut[w]
      /\ p <= Len(list) => Cut[w] <= list[p]
  BY PositionProperties, CutIsKey
<1>2. /\ Len(list) \in Nat
      /\ Cut[w] \in Nat
      /\ DOMAIN list = 1..Len(list)
      /\ \A i \in 1..Len(list) : list[i] \in Nat
  BY KeyIsNatural, CutIsKey, ElementOfSeq, LenProperties
<1>3. ASSUME NEW i \in 1..Len(list), list[i] = Cut[w]
      PROVE  StoredAt(list, p, Cut[w])
  <2>1. ~ (i < p)
    BY <1>1, <1>2, <1>3
  <2>2. ~ (p < i)
    BY <1>1, <1>2, <1>3 DEF StrictlySorted, IsSorted
  <2>3. i = p
    BY <2>1, <2>2, <1>1, <1>2
  <2> QED BY <2>3, <1>3 DEF StoredAt
<1>4. StoredAt(list, p, Cut[w]) => Cut[w] \in Keys(list)
  BY <1>2 DEF StoredAt, Keys, ToSet
<1>5. Cut[w] \in Keys(list) => StoredAt(list, p, Cut[w])
  BY <1>3, <1>2 DEF Keys, ToSet
<1> QED BY <1>4, <1>5 DEF PutReturn

\* The list after put(): the same list, or the list with one cell more.
LEMMA PutListCells ==
    ASSUME NEW list \in Seq(Key), NEW w \in Word, PutReturn(list, w) # 0
    PROVE  LET p   == Position(list, Cut[w])
               new == PutList(list, w)
           IN  /\ new \in Seq(Key)
               /\ Len(new) = Len(list) + 1
               /\ \A i \in 1..(p - 1) : new[i] = list[i]
               /\ new[p] = Cut[w]
               /\ \A i \in (p + 1)..(Len(list) + 1) : new[i] = list[i - 1]
<1> DEFINE p == Position(list, Cut[w])
<1> DEFINE before == SubSeq(list, 1, p - 1)
           after == SubSeq(list, p, Len(list))
<1>1. /\ Len(list) \in Nat
      /\ p \in 1..(Len(list) + 1)
      /\ \A i \in 1..Len(list) : list[i] \in Key
  BY PositionProperties, CutIsKey, ElementOfSeq, LenProperties
<1>2. PutList(list, w) = before \o <<Cut[w]>> \o after
  BY DEF PutList, InsertAt
<1> HIDE DEF p
<1>3. /\ before \in Seq(Key)
      /\ Len(before) = p - 1
      /\ \A i \in 1..(p - 1) : before[i] = list[i]
  <2>1. \A i \in 1..(p - 1) : list[i] \in Key
    BY <1>1
  <2>2. 1 \in Int /\ p - 1 \in Int
    BY <1>1
  <2>3. /\ before \in Seq(Key)
        /\ Len(before) = IF 1 <= p - 1 THEN p - 1 - 1 + 1 ELSE 0
        /\ \A i \in 1..(p - 1 - 1 + 1) : before[i] = list[1 + i - 1]
    BY <2>1, <2>2, SubSeqProperties
  <2> QED BY <2>3, <1>1
<1>4. /\ after \in Seq(Key)
      /\ Len(after) = Len(list) - p + 1
      /\ \A i \in 1..(Len(list) - p + 1) : after[i] = list[p + i - 1]
  <2>1. \A i \in p..Len(list) : list[i] \in Key
    BY <1>1
  <2>2. p \in Int /\ Len(list) \in Int
    BY <1>1
  <2>3. /\ after \in Seq(Key)
        /\ Len(after) = IF p <= Len(list) THEN Len(list) - p + 1 ELSE 0
        /\ \A i \in 1..(Len(list) - p + 1) : after[i] = list[p + i - 1]
    BY <2>1, <2>2, SubSeqProperties
  <2> QED BY <2>3, <1>1
<1> HIDE DEF before, after
<1>5. <<Cut[w]>> \in Seq(Key) /\ Len(<<Cut[w]>>) = 1 /\ <<Cut[w]>>[1] = Cut[w]
  BY CutIsKey
<1> DEFINE upto == before \o <<Cut[w]>>
<1>6. /\ upto \in Seq(Key)
      /\ Len(upto) = p
      /\ \A i \in 1..(p - 1) : upto[i] = list[i]
      /\ upto[p] = Cut[w]
  <2>1. /\ upto \in Seq(Key)
        /\ Len(upto) = Len(before) + Len(<<Cut[w]>>)
        /\ \A i \in 1..(Len(before) + Len(<<Cut[w]>>)) :
              upto[i] = IF i <= Len(before) THEN before[i]
                        ELSE <<Cut[w]>>[i - Len(before)]
    BY <1>3, <1>5, ConcatProperties
  <2> QED BY <2>1, <1>3, <1>5, <1>1
<1> HIDE DEF upto
<1>7. /\ upto \o after \in Seq(Key)
      /\ Len(upto \o after) = Len(list) + 1
      /\ \A i \in 1..(Len(list) + 1) :
            (upto \o after)[i] = IF i <= p THEN upto[i] ELSE after[i - p]
  <2>1. /\ upto \o after \in Seq(Key)
        /\ Len(upto \o after) = Len(upto) + Len(after)
        /\ \A i \in 1..(Len(upto) + Len(after)) :
              (upto \o after)[i] = IF i <= Len(upto) THEN upto[i]
                                   ELSE after[i - Len(upto)]
    BY <1>4, <1>6, ConcatProperties
  <2>2. Len(upto) + Len(after) = Len(list) + 1
    BY <1>1, <1>4, <1>6
  <2> QED BY <2>1, <2>2, <1>6
<1>8. PutList(list, w) = upto \o after
  BY <1>2 DEF upto
<1> QED BY <1>1, <1>4, <1>6, <1>7, <1>8 DEF p

\* put() keeps the list strictly increasing: the new cell is larger than
\* every cell before it and smaller than every cell after it.
LEMMA PutListSorted ==
    ASSUME NEW list \in Seq(Key), StrictlySorted(list), NEW w \in Word
    PROVE  PutList(list, w) \in Seq(Key) /\ StrictlySorted(PutList(list, w))
<1>1. CASE PutReturn(list, w) = 0
  BY <1>1 DEF PutList
<1>2. CASE PutReturn(list, w) # 0
  <2> DEFINE p == Position(list, Cut[w])
             new == PutList(list, w)
  <2>1. /\ new \in Seq(Key)
        /\ Len(new) = Len(list) + 1
        /\ \A i \in 1..(p - 1) : new[i] = list[i]
        /\ new[p] = Cut[w]
        /\ \A i \in (p + 1)..(Len(list) + 1) : new[i] = list[i - 1]
    BY <1>2, PutListCells
  <2>2. /\ p \in 1..(Len(list) + 1)
        /\ \A i \in 1..(p - 1) : list[i] < Cut[w]
        /\ p <= Len(list) => Cut[w] <= list[p]
    BY PositionProperties, CutIsKey
  <2>3. /\ Len(list) \in Nat
        /\ Cut[w] \in Nat
        /\ DOMAIN list = 1..Len(list)
        /\ \A i \in 1..Len(list) : list[i] \in Nat
    BY KeyIsNatural, CutIsKey, ElementOfSeq, LenProperties
  <2>4. p <= Len(list) => list[p] # Cut[w]
    BY <1>2, <2>2, <2>3 DEF PutReturn, StoredAt
  <2>5. \A i, j \in 1..Len(list) : i < j => list[i] < list[j]
    BY DEF StrictlySorted, IsSorted
  <2> HIDE DEF p, new
  <2>6. \A i \in p..Len(list) : Cut[w] < list[i]
    <3> SUFFICES ASSUME NEW i \in p..Len(list)
                 PROVE  Cut[w] < list[i]
      OBVIOUS
    <3>1. i \in 1..Len(list) /\ p \in 1..Len(list) /\ Cut[w] < list[p]
      BY <2>2, <2>3, <2>4
    <3>2. CASE i = p
      BY <3>1, <3>2
    <3>3. CASE p < i
      <4>1. list[p] < list[i]
        BY <3>1, <3>3, <2>5
      <4> QED BY <4>1, <3>1, <2>3
    <3> QED BY <3>1, <3>2, <3>3
  <2>7. ASSUME NEW i \in 1..Len(new), NEW j \in 1..Len(new), i < j
        PROVE  new[i] < new[j]
    <3>1. CASE j < p
      BY <3>1, <2>1, <2>2, <2>3, <2>5, <2>7
    <3>2. CASE j = p
      BY <3>2, <2>1, <2>2, <2>3, <2>7
    <3>3. CASE p < j /\ i < p
      <4>1. new[j] = list[j - 1] /\ j - 1 \in p..Len(list) /\ j - 1 \in 1..Len(list)
        BY <3>3, <2>1, <2>2, <2>3
      <4>2. new[i] = list[i] /\ list[i] < Cut[w] /\ i \in 1..Len(list)
        BY <3>3, <2>1, <2>2, <2>3
      <4> QED BY <4>1, <4>2, <2>3, <2>6
    <3>4. CASE p < j /\ i = p
      BY <3>4, <2>1, <2>2, <2>3, <2>6
    <3>5. CASE p < i
      <4>1. new[i] = list[i - 1] /\ i - 1 \in 1..Len(list)
        BY <3>5, <2>1, <2>2, <2>3
      <4>2. new[j] = list[j - 1] /\ j - 1 \in 1..Len(list)
        BY <3>5, <2>1, <2>2, <2>3, <2>7
      <4>3. i - 1 < j - 1
        BY <2>1, <2>3, <2>7
      <4> QED BY <4>1, <4>2, <4>3, <2>5
    <3> QED BY <3>1, <3>2, <3>3, <3>4, <3>5, <2>1, <2>2, <2>3
  <2>8. StrictlySorted(new)
    BY <2>7 DEF StrictlySorted, IsSorted
  <2> QED BY <2>1, <2>8 DEF new
<1> QED BY <1>1, <1>2

\* put() adds the word, cut, to the words of the list and removes none.
LEMMA PutListKeys ==
    ASSUME NEW list \in Seq(Key), StrictlySorted(list), NEW w \in Word
    PROVE  Keys(PutList(list, w)) = Keys(list) \cup {Cut[w]}
<1>1. CASE PutReturn(list, w) = 0
  BY <1>1, PutReturnProperties DEF PutList
<1>2. CASE PutReturn(list, w) # 0
  <2> DEFINE p == Position(list, Cut[w])
             new == PutList(list, w)
  <2>1. /\ new \in Seq(Key)
        /\ Len(new) = Len(list) + 1
        /\ \A i \in 1..(p - 1) : new[i] = list[i]
        /\ new[p] = Cut[w]
        /\ \A i \in (p + 1)..(Len(list) + 1) : new[i] = list[i - 1]
    BY <1>2, PutListCells
  <2>2. p \in 1..(Len(list) + 1) /\ Len(list) \in Nat
    BY PositionProperties, CutIsKey, LenProperties
  <2>3. DOMAIN new = 1..(Len(list) + 1) /\ DOMAIN list = 1..Len(list)
    BY <2>1, LenProperties
  <2> HIDE DEF p, new
  <2>4. ASSUME NEW i \in 1..(Len(list) + 1)
        PROVE  new[i] \in Keys(list) \cup {Cut[w]}
    <3>1. CASE i < p
      <4>1. i \in DOMAIN list /\ new[i] = list[i]
        BY <3>1, <2>1, <2>2, <2>3
      <4> QED BY <4>1 DEF Keys, ToSet
    <3>2. CASE i = p
      BY <3>2, <2>1
    <3>3. CASE p < i
      <4>1. i - 1 \in DOMAIN list /\ new[i] = list[i - 1]
        BY <3>3, <2>1, <2>2, <2>3
      <4> QED BY <4>1 DEF Keys, ToSet
    <3> QED BY <3>1, <3>2, <3>3, <2>2
  <2>5. ASSUME NEW i \in 1..Len(list)
        PROVE  list[i] \in Keys(new)
    <3>1. CASE i < p
      <4>1. i \in DOMAIN new /\ new[i] = list[i]
        BY <3>1, <2>1, <2>2, <2>3
      <4> QED BY <4>1 DEF Keys, ToSet
    <3>2. CASE p <= i
      <4>1. i + 1 \in DOMAIN new /\ new[i + 1] = list[i + 1 - 1]
        BY <3>2, <2>1, <2>2, <2>3
      <4>2. list[i + 1 - 1] = list[i]
        BY <2>2
      <4> QED BY <4>1, <4>2 DEF Keys, ToSet
    <3> QED BY <3>1, <3>2, <2>2
  <2>6. Cut[w] \in Keys(new)
    BY <2>1, <2>2, <2>3 DEF Keys, ToSet
  <2>7. Keys(new) \subseteq Keys(list) \cup {Cut[w]}
    BY <2>4, <2>3 DEF Keys, ToSet
  <2>8. Keys(list) \subseteq Keys(new)
    BY <2>5, <2>3 DEF Keys, ToSet
  <2> QED BY <2>6, <2>7, <2>8 DEF new
<1> QED BY <1>1, <1>2
=============================================================================
