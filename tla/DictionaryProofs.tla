-------------------------- MODULE DictionaryProofs --------------------------
(***************************************************************************)
(* The list of dictionary.c stays sorted and implements the set of words,  *)
(* for every set of words, every cut and every history of calls.           *)
(***************************************************************************)
EXTENDS Dictionary, DictListProofs

\* The inductive invariant: sortedness alone does not say that the cells hold
\* keys, and the scan is only known to find a stored word in a sorted list.
IInv == TypeOK /\ ListStrictlySorted

LEMMA InitInv == Init => IInv
BY EmptySeq DEF Init, IInv, TypeOK, ListStrictlySorted, StrictlySorted, IsSorted

LEMMA NextInv == IInv /\ [Next]_vars => IInv'
<1> SUFFICES ASSUME IInv, [Next]_vars
             PROVE  IInv'
  OBVIOUS
<1>1. dico \in Seq(Key) /\ StrictlySorted(dico)
  BY DEF IInv, TypeOK, ListStrictlySorted
<1>2. ASSUME NEW w \in Word, Put(w)
      PROVE  IInv'
  <2>1. dico' \in Seq(Key) /\ StrictlySorted(dico')
    BY <1>1, <1>2, PutListSorted DEF Put
  <2>2. answer' \in [op : {"put"}, key : Key, ret : {-1, 0, 1}]
    BY <1>1, <1>2, PutReturnProperties, CutIsKey DEF Put
  <2> QED BY <2>1, <2>2 DEF IInv, TypeOK, ListStrictlySorted
<1>3. ASSUME NEW w \in Word, PutFails(w)
      PROVE  IInv'
  <2>1. answer' \in [op : {"put"}, key : Key, ret : {-1, 0, 1}]
    BY <1>3, CutIsKey DEF PutFails
  <2> QED BY <2>1, <1>1, <1>3 DEF PutFails, IInv, TypeOK, ListStrictlySorted
<1>4. ASSUME NEW w \in Word, Get(w)
      PROVE  IInv'
  <2>1. answer' \in [op : {"get"}, key : Key, ret : {0, 1}]
    BY <1>4, CutIsKey DEF Get, GetReturn
  <2> QED BY <2>1, <1>1, <1>4 DEF Get, IInv, TypeOK, ListStrictlySorted
<1>5. CASE WriteDictionary
  <2>1. answer' \in [op : {"list"}, words : Seq(Key)]
    BY <1>1, <1>5 DEF WriteDictionary
  <2> QED BY <2>1, <1>1, <1>5 DEF WriteDictionary, IInv, TypeOK, ListStrictlySorted
<1>6. CASE UNCHANGED vars
  BY <1>6 DEF vars, IInv, TypeOK, ListStrictlySorted
<1> QED BY <1>2, <1>3, <1>4, <1>5, <1>6 DEF Next

LEMMA InvHolds == Spec => []IInv
<1> QED BY InitInv, NextInv, PTL DEF Spec

\* The cells of the list always hold keys, and every answer is one of the
\* values dictionary.h gives for the call.
THEOREM TypeCorrect == Spec => []TypeOK
<1>1. IInv => TypeOK
  BY DEF IInv
<1> QED BY <1>1, InvHolds, PTL

\* Whatever put(), get() and write_dictionary() calls are made, the list
\* stays strictly increasing: sorted, and without duplicates.
THEOREM AlwaysSorted == Spec => []ListStrictlySorted
<1>1. IInv => ListStrictlySorted
  BY DEF IInv
<1> QED BY <1>1, InvHolds, PTL

LEMMA InitRefines == Init => Abstract!Init
BY DEF Init, Abstract!Init, Keys, ToSet

LEMMA StepRefines == IInv /\ [Next]_vars => [Abstract!Next]_(Abstract!vars)
<1> SUFFICES ASSUME IInv, [Next]_vars
             PROVE  Abstract!Next \/ UNCHANGED Abstract!vars
  OBVIOUS
<1>1. dico \in Seq(Key) /\ StrictlySorted(dico)
  BY DEF IInv, TypeOK, ListStrictlySorted
<1>2. ASSUME NEW w \in Word, Put(w)
      PROVE  Abstract!Add(Cut[w])
  <2>1. Keys(dico') = Keys(dico) \cup {Cut[w]}
    BY <1>1, <1>2, PutListKeys DEF Put
  <2>2. PutReturn(dico, w) = Abstract!Truth(Cut[w] \notin Keys(dico))
    BY <1>1, PutReturnProperties DEF Abstract!Truth
  <2> QED BY <2>1, <2>2, <1>2 DEF Put, Abstract!Add
<1>3. ASSUME NEW w \in Word, PutFails(w)
      PROVE  Abstract!Refuse(Cut[w])
  BY <1>3 DEF PutFails, Abstract!Refuse
<1>4. ASSUME NEW w \in Word, Get(w)
      PROVE  Abstract!Ask(Cut[w])
  <2>1. Contains(dico, Cut[w]) <=> Cut[w] \in Keys(dico)
    BY <1>1, LenProperties DEF Contains, Keys, ToSet
  <2>2. GetReturn(dico, w) = Abstract!Truth(Cut[w] \in Keys(dico))
    BY <2>1 DEF GetReturn, Abstract!Truth
  <2> QED BY <2>2, <1>4 DEF Get, Abstract!Ask
<1>5. CASE WriteDictionary
  <2>1. Abstract!Enumeration(Keys(dico), dico)
    BY <1>1, LenProperties DEF Abstract!Enumeration, Keys, ToSet, StrictlySorted, IsSorted
  <2>2. /\ answer' = [op |-> "list", words |-> dico]
        /\ dico' = dico
    BY <1>5 DEF WriteDictionary
  <2>3. answer'.op = "list" /\ answer'.words = dico
    BY <2>2
  <2> QED BY <2>1, <2>2, <2>3, <1>1 DEF Abstract!Enumerate, Abstract!Next
<1>6. CASE UNCHANGED vars
  BY <1>6 DEF vars, Abstract!vars
<1>7. \A w \in Word : Cut[w] \in Key
  BY CutIsKey
<1> QED BY <1>2, <1>3, <1>4, <1>5, <1>6, <1>7 DEF Next, Abstract!Next

\* Every behaviour of the list is a behaviour of the set of words that
\* dictionary.h promises, for every set of words and every cut.
THEOREM ListImplementsSet == Spec => ImplementsWordSet
<1> QED
  BY InitRefines, StepRefines, InvHolds, PTL
  DEF Spec, ImplementsWordSet, Abstract!Spec
=============================================================================
