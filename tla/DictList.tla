------------------------------ MODULE DictList ------------------------------
(***************************************************************************)
(* The linked list of dictionary.c as pure operators: where put() inserts  *)
(* a word, what put() and get() answer, what the list contains.            *)
(*                                                                         *)
(* A word is a positive natural and the order of the naturals stands for   *)
(* the order of strncmp.  Both functions compare, and put() stores, at     *)
(* most MAX_WORD_LENGTH characters: Cut[w] is the word w cut there, so     *)
(* Cut[w] = w for every word that fits, and a key is a word that fits.     *)
(***************************************************************************)
EXTENDS Integers, SequencesExt

CONSTANTS Word, Cut

ASSUME WordAssumption == Word \subseteq Nat \ {0}
ASSUME CutAssumption == /\ Cut \in [Word -> Word]
                        /\ \A w \in Word : Cut[Cut[w]] = Cut[w]

Key == {Cut[w] : w \in Word}
Keys(list) == ToSet(list)

StrictlySorted(list) == IsSorted(list, <)

\* Mutant of Position: the scan steps over an equal cell.
PositionPastEqual(list, key) ==
    LET first == SelectInSeq(list, LAMBDA cell : cell > key)
    IN  IF first = 0 THEN Len(list) + 1 ELSE first

\* Where the scan of put() stops: it walks over the smaller cells.
Position(list, key) ==
    LET first == SelectInSeq(list, LAMBDA cell : cell >= key)
    IN  IF first = 0 THEN Len(list) + 1 ELSE first

StoredAt(list, i, key) == i \in 1..Len(list) /\ list[i] = key

PutReturn(list, w) ==
    IF StoredAt(list, Position(list, Cut[w]), Cut[w]) THEN 0 ELSE 1

\* Mutant of PutList: the word is copied whole, not cut.
PutListUncut(list, w) ==
    IF PutReturn(list, w) = 0
    THEN list
    ELSE InsertAt(list, Position(list, Cut[w]), w)

PutList(list, w) ==
    IF PutReturn(list, w) = 0
    THEN list
    ELSE InsertAt(list, Position(list, Cut[w]), Cut[w])

\* get() compares the word it is asked for on its first MAX_WORD_LENGTH
\* characters only (dictionary.c:74).
GetReturn(list, w) == IF Contains(list, Cut[w]) THEN 1 ELSE 0
=============================================================================
