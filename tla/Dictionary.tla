----------------------------- MODULE Dictionary -----------------------------
(***************************************************************************)
(* dictionary.c as a component: the list of cells and the three calls the  *)
(* core server makes on it, one at a time.  put() may find no memory       *)
(* (dictionary.c:19-28), in which case it answers -1 and changes nothing.  *)
(***************************************************************************)
EXTENDS DictList

VARIABLES dico,    \* the cells reachable from dico.first
          answer   \* the latest call, with what it returned

vars == <<dico, answer>>

Init == dico = <<>> /\ answer = [op |-> "none"]

Put(w) ==
    /\ dico' = PutList(dico, w)
    /\ answer' = [op |-> "put", key |-> Cut[w], ret |-> PutReturn(dico, w)]

PutFails(w) ==
    /\ answer' = [op |-> "put", key |-> Cut[w], ret |-> -1]
    /\ UNCHANGED dico

\* Mutant of Get: the search stops before the last cell.
GetMissesLast(w) ==
    /\ answer' = [op |-> "get", key |-> Cut[w],
                  ret |-> GetReturn(IF dico = <<>> THEN dico ELSE Front(dico), w)]
    /\ UNCHANGED dico

Get(w) ==
    /\ answer' = [op |-> "get", key |-> Cut[w], ret |-> GetReturn(dico, w)]
    /\ UNCHANGED dico

\* write_dictionary() sends the cells in the order of the list.
WriteDictionary ==
    /\ answer' = [op |-> "list", words |-> dico]
    /\ UNCHANGED dico

Next == (\E w \in Word : Put(w) \/ PutFails(w) \/ Get(w)) \/ WriteDictionary

Spec == Init /\ [][Next]_vars
-----------------------------------------------------------------------------
\* Every cell holds a key, and the latest answer is one a call can give.
TypeOK ==
    /\ dico \in Seq(Key)
    /\ answer \in [op : {"none"}]
              \cup [op : {"put"}, key : Key, ret : {-1, 0, 1}]
              \cup [op : {"get"}, key : Key, ret : {0, 1}]
              \cup [op : {"list"}, words : Seq(Key)]

\* The insertion scan keeps the list strictly increasing: no word is stored
\* twice and list answers in order, whatever the history of calls was.
ListStrictlySorted == StrictlySorted(dico)

Abstract == INSTANCE WordSet WITH store <- Keys(dico)

\* The sorted list implements the set of words dictionary.h promises: each
\* call answers what the set would answer, and put adds exactly that word.
\* The set holds words that fit: get() of a longer word, which dictionary.h
\* does not exclude, answers for its first MAX_WORD_LENGTH characters.
ImplementsWordSet == Abstract!Spec
=============================================================================
