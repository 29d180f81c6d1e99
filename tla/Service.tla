------------------------------ MODULE Service -------------------------------
(***************************************************************************)
(* What the daemon promises of its dictionary, whatever delays run out,    *)
(* whatever is cancelled, cut or lost, and whoever dies: the dictionary    *)
(* is a set of words that changes by the requests its clients made and by  *)
(* nothing else, each of them at most once, all of it at one instant, and  *)
(* those of one front end in the order they were made.  A put may fail,    *)
(* for lack of memory, and a request for the word "list" may be taken for  *)
(* the command list.  Nothing is said of answers.                          *)
(***************************************************************************)
EXTENDS Naturals, Sequences

CONSTANTS Word, Cut,   \* the words, and what the dictionary stores of each
          ListWord     \* the word "list"

VARIABLES store,   \* the words the dictionary holds
          made,    \* the requests that clients have made
          taken    \* those that were executed, and as what

vars == <<store, made, taken>>

Init == store = {} /\ made = <<>> /\ taken = {}

Make == /\ \E request \in [from : {"http", "midnet"}, op : {"get", "put"}, w : Word]
                \cup [from : {"http", "midnet"}, op : {"list", "local"}, w : {0}] :
              made' = Append(made, request)
        /\ UNCHANGED <<store, taken>>

\* The next request of its front end, or a later one: the others are lost.
InTurn(i) ==
    /\ \A t \in taken : t.id # i
    /\ \A t \in taken : made[t.id].from = made[i].from => t.id < i

\* What request i may be executed as.
TakenAs(i, as) ==
    \/ made[i].op = as /\ as \in {"list", "get", "put"}
    \/ made[i].op = "put" /\ as = "starved"
    \/ made[i].op \in {"get", "put"} /\ made[i].w = ListWord /\ as = "list"

Take(i, as) ==
    /\ InTurn(i) /\ TakenAs(i, as)
    /\ taken' = taken \cup {[id |-> i, as |-> as]}
    /\ store' = IF as = "put" THEN store \cup {Cut[made[i].w]} ELSE store
    /\ UNCHANGED made

Next == \/ Make
        \/ \E i \in DOMAIN made, as \in {"list", "get", "put", "starved"} : Take(i, as)

Spec == Init /\ [][Next]_vars
=============================================================================
