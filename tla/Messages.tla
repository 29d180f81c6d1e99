------------------------------ MODULE Messages ------------------------------
(***************************************************************************)
(* The pipes between the two front ends and the core server, and the texts *)
(* that travel in them (midas.c:47-135, dictionary.c:82-110,               *)
(* MIDAS_http_server.c:286-336, midnet.c:20-103).                          *)
(*                                                                         *)
(* A text is a sequence of tokens: a command, a word, a line feed, or the  *)
(* 0 or 1 that answers get and put.  A read may stop between two tokens,   *)
(* never inside one.  A token carries the id of the request it belongs to: *)
(* nothing in the code reads it, only the properties do.  One of the words *)
(* may be spelled like a command of one line: it is ListWord.              *)
(***************************************************************************)
EXTENDS DictList

CONSTANTS ListWord,         \* the word "list", if it is among the words
          MaxReq,           \* bound of the model: requests ever made
          ReceptionLength,  \* RECEPTION_LENGTH, in tokens
          BufferLength,     \* BUFFER_LENGTH, in tokens
          PipeSize          \* capacity of a pipe, in tokens

ASSUME BoundAssumption ==
    /\ MaxReq \in Nat \ {0}
    /\ ReceptionLength \in Nat \ {0}
    /\ BufferLength \in Nat \ {0}
    /\ PipeSize \in Nat \ {0}

FrontEnd == {"http", "midnet"}
ReqId == 1..MaxReq
NoWord == 0

VARIABLES toCore,   \* toCore[f]: the pipe from the front end f to the core
          toFront   \* toFront[f]: the pipe from the core to f

pipes == <<toCore, toFront>>

Symbol == {"list", "get", "put", "word", "nl", "zero", "one"}
Token == [sym : Symbol \ {"word"}, w : {NoWord}, id : ReqId]
             \cup [sym : {"word"}, w : Word, id : ReqId]
Text == Seq(Token)

Mark(sym, id) == [sym |-> sym, w |-> NoWord, id |-> id]
Term(w, id) == [sym |-> "word", w |-> w, id |-> id]
Nl(id) == Mark("nl", id)

\* strstr(text, "\n\n") and strchr(text, '\n'): an index, 0 when there is none.
EndOfText(text) ==
    LET ends == {i \in 1..(Len(text) - 1) :
                    text[i].sym = "nl" /\ text[i + 1].sym = "nl"}
    IN  IF ends = {} THEN 0 ELSE Min(ends)
FirstNewline(text) == SelectInSeq(text, LAMBDA t : t.sym = "nl")
LastNewline(text) == SelectLastInSeq(text, LAMBDA t : t.sym = "nl")

\* What one read of at most room tokens returns, and what it leaves behind.
Chunk(pipe, room) == SubSeq(pipe, 1, IF Len(pipe) < room THEN Len(pipe) ELSE room)
Rest(pipe, room) == SubSeq(pipe, Len(Chunk(pipe, room)) + 1, Len(pipe))

\* A write blocks until the pipe has room for all of it.
Fits(pipe, piece) == Len(pipe) + Len(piece) <= PipeSize
-----------------------------------------------------------------------------
RequestText(id, op, w) ==
    IF op = "list" THEN <<Mark("list", id), Nl(id), Nl(id)>>
    ELSE <<Mark(op, id), Nl(id), Term(w, id), Nl(id), Nl(id)>>

\* The writes that send a request: four or two of them in the HTTP front end,
\* a single one in MidNet, which forwards the text of its client.
RequestPieces(f, id, op, w) ==
    LET text == RequestText(id, op, w)
    IN  IF f = "midnet" THEN <<text>>
        ELSE <<SubSeq(text, 1, 2)>> \o [i \in 1..(Len(text) - 2) |-> <<text[i + 2]>>]

AnswerPieces(ret, id) ==
    << <<Mark(IF ret = 0 THEN "zero" ELSE "one", id), Nl(id), Nl(id)>> >>

\* write_dictionary(): a write for each word and one that ends the list; an
\* empty dictionary is a write of "\n" and that last one.
ListPieces(list, id) ==
    (IF list = <<>> THEN << <<Nl(id)>> >>
     ELSE [i \in 1..Len(list) |-> <<Term(list[i], id), Nl(id)>>])
    \o << <<Nl(id)>> >>

MessagesInit ==
    /\ toCore = [f \in FrontEnd |-> <<>>]
    /\ toFront = [f \in FrontEnd |-> <<>>]
=============================================================================
