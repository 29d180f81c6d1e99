----------------------------- MODULE ListClient -----------------------------
(***************************************************************************)
(* The list program: launch_tcp_client() of tcp_client.c with the writer   *)
(* and the reader of list.c, and MidNet as the program sees it: an answer  *)
(* in as many pieces as TCP makes of it, and what comes behind it.         *)
(*                                                                         *)
(* The request is built in the buffer that then receives the answer:       *)
(* position goes back to 0, but the text stays until something is read.    *)
(* A text is a sequence of characters, a word is a single one; text is     *)
(* the string in the buffer, up to its NUL.                                *)
(***************************************************************************)
EXTENDS Integers, SequencesExt

CONSTANTS Letter,        \* the words of the dictionary, one character long
          MaxWords,      \* bound of the model: words in the dictionary
          BufferLength   \* BUFFER_LENGTH, the same for the client and MidNet

ASSUME ListAssumption ==
    /\ Letter \subseteq Nat \ {0, 1}
    /\ MaxWords \in Nat
    /\ BufferLength \in Nat \ {0, 1, 2}

Nl == 0
Request == <<1, Nl, Nl>>   \* "list\n\n"

VARIABLES list,      \* the words of the dictionary when the core lists them
          coming,    \* what MidNet has sent and the client has not read
          behind,    \* what is behind it: nothing yet, the end, or an error
          state,     \* where the program is, or how it ended
          text,      \* client_request.buffer
          position,  \* client_request.position
          printed,   \* the words printed, one on a line: the first MaxWords + 1
          turn,      \* parity of the turns of the loop that have found the end
          early      \* history: nothing was read before the end, or the error

vars == <<list, coming, behind, state, text, position, printed, turn, early>>

Ended == {"listed", "silence", "overflow", "refused"}

Init ==
    /\ list \in {l \in BoundedSeq(Letter, MaxWords) : IsInjective(l)}
    /\ coming = <<>> /\ behind = "nothing"
    /\ state = "start"
    /\ text = <<>> /\ position = 0
    /\ printed = <<>>
    /\ turn = 0
    /\ early = FALSE

\* strstr(t, "\n\n"), 0 when there is none.
EndOf(t) ==
    LET ends == {i \in 1..(Len(t) - 1) : t[i] = Nl /\ t[i + 1] = Nl}
    IN  IF ends = {} THEN 0 ELSE Min(ends)
-----------------------------------------------------------------------------
(* MidNet, and the connection.                                             *)

\* The text of write_dictionary(), of which MidNet sends what fits its buffer.
Lines(l) == [i \in 1..(2 * Len(l)) |-> IF i % 2 = 1 THEN l[(i + 1) \div 2] ELSE Nl]
ListText(l) == (IF l = <<>> THEN <<Nl>> ELSE Lines(l)) \o <<Nl>>
Sent(l) == SubSeq(ListText(l), 1,
                  IF Len(ListText(l)) < BufferLength THEN Len(ListText(l)) ELSE BufferLength)

\* The answer is sent and the connection is closed; or MidNet found no answer,
\* or no room for the client, and just closes it.
ServerAnswers ==
    /\ state = "select" /\ behind = "nothing"
    /\ coming' \in {Sent(list), <<>>}
    /\ behind' = "end"
    /\ UNCHANGED <<list, state, text, position, printed, turn, early>>

\* The connection is reset, and what was on its way may be lost.
ServerResets ==
    /\ state = "select"
    /\ behind = "nothing" \/ (behind = "end" /\ coming # <<>>)
    /\ coming' \in {coming, <<>>}
    /\ behind' = "error"
    /\ UNCHANGED <<list, state, text, position, printed, turn, early>>
-----------------------------------------------------------------------------
(* The program.                                                            *)

\* connect(), list_writer() and write(); then position is set to 0.
Connect ==
    /\ state = "start"
    /\ \/ state' = "select" /\ text' = Request
       \/ state' = "refused" /\ UNCHANGED text
    /\ UNCHANGED <<list, coming, behind, position, printed, turn, early>>

HasRoom == position < BufferLength

\* The program is about to read.
MayRead == state = "select" /\ HasRoom
Nothing == coming = <<>> /\ behind = "nothing"

\* end_of_buffer, as a number of characters.  Mutant: off by one.
EndOfBufferLess(t) == IF EndOf(t) # 0 THEN EndOf(t) - 1 ELSE Len(t)
EndOfBuffer(t) == IF EndOf(t) # 0 THEN EndOf(t) ELSE Len(t)

\* The words of a text, one on a line.
Words(t) ==
    LET at == {i \in DOMAIN t : t[i] # Nl}
        Place(n) == CHOOSE i \in at : Cardinality({j \in at : j <= i}) = n
    IN  [n \in 1..Cardinality(at) |-> t[Place(n)]]

\* What list_reader() prints of t: the lines before "\n\n", or all of them.
ReaderWrites(t) ==
    LET ends == {i \in 1..EndOfBuffer(t) : t[i] = Nl}
    IN  IF ends = {} \/ t[1] = Nl THEN <<>> ELSE Words(SubSeq(t, 1, Max(ends)))

Write(words) ==
    LET all == printed \o words
    IN  printed' = SubSeq(all, 1, IF Len(all) > MaxWords THEN MaxWords + 1 ELSE Len(all))

\* Mutants of ReaderKeeps: nothing is moved; one character too many is.
ReaderKeepsAll(t) == text' = t /\ UNCHANGED position
ReaderKeepsTooMuch(t) ==
    LET used == SelectLastInSeq(t, LAMBDA c : c = Nl)
    IN  IF EndOf(t) # 0 \/ (t # <<>> /\ t[1] = Nl)
        THEN text' = t /\ UNCHANGED position
        ELSE /\ text' = SubSeq(t, used + 1, Len(t))
             /\ position' = BufferLength + 1 - used

\* Without "\n\n" it moves what it did not print to the front of the buffer,
\* with all that is behind it, as far as buffer + BUFFER_LENGTH.
ReaderKeeps(t) ==
    LET used == SelectLastInSeq(t, LAMBDA c : c = Nl)
    IN  IF EndOf(t) # 0 \/ (t # <<>> /\ t[1] = Nl)
        THEN text' = t /\ UNCHANGED position
        ELSE /\ text' = SubSeq(t, used + 1, Len(t))
             /\ position' = BufferLength - used

\* Three seconds without anything: "Distant resource doesn't respond".
Timeout ==
    /\ state = "select" /\ Nothing
    /\ state' = "silence"
    /\ UNCHANGED <<list, coming, behind, text, position, printed, turn, early>>

Overflow ==
    /\ state = "select" /\ ~Nothing
    /\ ~HasRoom
    /\ state' = "overflow"
    /\ UNCHANGED <<list, coming, behind, text, position, printed, turn, early>>

\* Some characters have come; the loop ends when the text has its "\n\n".
ReadSome(n) ==
    LET new == SubSeq(text, 1, position) \o SubSeq(coming, 1, n)
    IN  /\ MayRead
        /\ n \in 1..Len(coming) /\ n <= BufferLength - position
        /\ coming' = SubSeq(coming, n + 1, Len(coming))
        /\ text' = new
        /\ position' = position + n
        /\ IF EndOf(new) = 0
           THEN UNCHANGED <<state, printed>>
           ELSE state' = "listed" /\ Write(ReaderWrites(new))
        /\ UNCHANGED <<list, behind, turn, early>>

\* read() returns 0: the reader is called on what there is, and the loop goes on.
ReadEnd ==
    /\ MayRead /\ coming = <<>> /\ behind = "end"
    /\ Write(ReaderWrites(text))
    /\ ReaderKeeps(text)
    /\ turn' = 1 - turn
    /\ early' = (early \/ text = Request)
    /\ UNCHANGED <<list, coming, behind, state>>

\* read() returns -1, which is taken for a length: the last character is
\* dropped, and the string that is left may be the request itself.
ReadError ==
    LET new == IF position = 0 THEN text ELSE SubSeq(text, 1, position - 1)
    IN  /\ MayRead /\ coming = <<>> /\ behind = "error"
        /\ behind' = "end"
        /\ text' = new
        /\ position' = position - 1
        /\ early' = (early \/ text = Request)
        /\ IF EndOf(new) = 0
           THEN UNCHANGED <<state, printed>>
           ELSE state' = "listed" /\ Write(ReaderWrites(new))
        /\ UNCHANGED <<list, coming, turn>>

ClientStep ==
    \/ Connect \/ Timeout \/ Overflow \/ ReadEnd \/ ReadError
    \/ \E n \in 1..BufferLength : ReadSome(n)

Next == ClientStep \/ ServerAnswers \/ ServerResets

\* The program runs; MidNet need not answer.
Spec == Init /\ [][Next]_vars /\ WF_vars(ClientStep)
-----------------------------------------------------------------------------
TypeOK ==
    /\ list \in Seq(Letter)
    /\ coming \in Seq(Letter \cup {Nl})
    /\ behind \in {"nothing", "end", "error"}
    /\ state \in {"start", "select"} \cup Ended
    /\ text \in Seq(Letter \cup {Nl, 1}) /\ Len(text) <= BufferLength
    /\ position \in -1..BufferLength
    /\ printed \in Seq(Letter \cup {1}) /\ Len(printed) <= MaxWords + 1
    /\ turn \in {0, 1}
    /\ early \in BOOLEAN

\* However the answer is cut in pieces, and wherever it breaks off behind its
\* first character, what is printed are words of the dictionary, whole, once
\* each and from the first.
PrintsOnlyTheList == early \/ IsPrefix(printed, list)

\* A program that ends in order has printed all of the list (midas.c:40), if
\* it has read anything; a list that does not fit the buffer is reported, and
\* not printed in part.
ListedIsWhole ==
    \/ early
    \/ /\ state = "listed" => printed = list
       /\ (state = "overflow" /\ position = Len(text)) => printed = <<>>

\* A program that has read something ends, with the list or for lack of room,
\* and so does one that nothing comes to.
ListEndsOnceRead == <>(state \in Ended \/ early)

\* tcp_client.c:84 reports "Distant resource doesn't respond. Canceling
\* request": the program ends, whatever becomes of the connection.
ListEnds == <>(state \in Ended)
=============================================================================
