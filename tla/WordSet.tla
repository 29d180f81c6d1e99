------------------------------ MODULE WordSet -------------------------------
(***************************************************************************)
(* What a dictionary promises its callers (dictionary.h:15-29): a set of   *)
(* words in which a word is added once, looked up, and enumerated in       *)
(* order.  Nothing is said of lists, cells or where a word is inserted.    *)
(***************************************************************************)
EXTENDS Integers, Sequences, FiniteSets

CONSTANT Key

VARIABLES store,   \* the words the set holds
          answer   \* the latest call, with what it returned

vars == <<store, answer>>

Truth(b) == IF b THEN 1 ELSE 0

\* The words of S, each of them once, in increasing order.
Enumeration(S, list) ==
    /\ {list[i] : i \in DOMAIN list} = S
    /\ \A i, j \in DOMAIN list : i < j => list[i] < list[j]

Init == store = {} /\ answer = [op |-> "none"]

Add(k) ==
    /\ store' = store \cup {k}
    /\ answer' = [op |-> "put", key |-> k, ret |-> Truth(k \notin store)]

Refuse(k) ==
    /\ answer' = [op |-> "put", key |-> k, ret |-> -1]
    /\ UNCHANGED store

Ask(k) ==
    /\ answer' = [op |-> "get", key |-> k, ret |-> Truth(k \in store)]
    /\ UNCHANGED store

Enumerate ==
    /\ answer'.op = "list"
    /\ answer' = [op |-> "list", words |-> answer'.words]
    /\ answer'.words \in Seq(Key)
    /\ Enumeration(store, answer'.words)
    /\ UNCHANGED store

Next == (\E k \in Key : Add(k) \/ Refuse(k) \/ Ask(k)) \/ Enumerate

Spec == Init /\ [][Next]_vars
=============================================================================
