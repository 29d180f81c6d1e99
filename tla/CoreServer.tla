----------------------------- MODULE CoreServer -----------------------------
(***************************************************************************)
(* The core server: the loop of midas.c:440-494 and execute_request().     *)
(*                                                                         *)
(* The loop selects on the pipes it watches and reads what one of them     *)
(* holds, HTTP first.  From then on it watches that pipe alone, until the  *)
(* text contains "\n\n"; it executes the text before that mark, drops what *)
(* follows it, and watches both pipes again.  Nothing else in the loop     *)
(* watches both: a request cancelled after a second of silence leaves the  *)
(* other front end unwatched.                                              *)
(*                                                                         *)
(* A select and the read that follows it are one step: a front end that    *)
(* writes in between could as well have written just after.                *)
(***************************************************************************)
EXTENDS Messages

CONSTANT AllocMayFail   \* whether calloc may fail in put()

ASSUME AllocAssumption == AllocMayFail \in BOOLEAN

VARIABLES dico,       \* the list of words
          buffer,     \* the text read so far, buffer[0..position-1]
          listening,  \* a request has begun and is not complete
          watched,    \* the pipes in globalrfds
          current,    \* the front end of current_wfd
          pending,    \* the writes of the answer that are still to be made
          log         \* history: the texts executed, from whom and as what

coreVars == <<dico, buffer, listening, watched, current, pending, log>>

CoreInit ==
    /\ dico = <<>>
    /\ buffer = <<>>
    /\ listening = FALSE
    /\ watched = FrontEnd
    /\ current = "http"
    /\ pending = <<>>
    /\ log = <<>>

\* The core is at its select, not inside execute_request().
AtSelect == pending = <<>>
Readable(f) == f \in watched /\ toCore[f] # <<>>
-----------------------------------------------------------------------------
\* execute_request(): a text is "list", or "get" or "put", a line feed and a
\* word; any other is dropped without an answer.  The strcmp() with "list"
\* cannot tell the command from the word that remains of a longer request.
SpellsList(token) == token.sym = "list" \/ (token.sym = "word" /\ token.w = ListWord)
IsList(text) == Len(text) = 1 /\ SpellsList(text[1])
IsCall(text, sym) ==
    FirstNewline(text) = 2 /\ text[1].sym = sym /\ Len(text) > 2
Accepted(text) == IsList(text) \/ IsCall(text, "get") \/ IsCall(text, "put")

\* What follows the command is a word of the model.  (Text of two requests
\* run together would be a word of its own: IntactRequests excludes it.)
OneWord(text) == Len(text) = 3 /\ text[3].sym = "word"

ExecuteList(text) ==
    /\ IsList(text)
    /\ pending' = ListPieces(dico, text[1].id)
    /\ UNCHANGED dico

ExecuteGet(text) ==
    /\ IsCall(text, "get") /\ OneWord(text)
    /\ pending' = AnswerPieces(GetReturn(dico, text[3].w), text[1].id)
    /\ UNCHANGED dico

ExecutePut(text) ==
    /\ IsCall(text, "put") /\ OneWord(text)
    /\ dico' = PutList(dico, text[3].w)
    /\ pending' = AnswerPieces(PutReturn(dico, text[3].w), text[1].id)

\* Mutant of NoAnswer: "-1" is sent like any other answer.
FailureAnswer(id) == << <<Mark("minus", id), Nl(id)>> >>
NoAnswer(id) == <<>>

\* put() returned -1: execute_request() returns without an answer.
ExecutePutFails(text) ==
    /\ AllocMayFail
    /\ IsCall(text, "put") /\ OneWord(text)
    /\ pending' = NoAnswer(text[1].id)
    /\ UNCHANGED dico

ExecuteWrong(text) ==
    /\ ~IsList(text)
    /\ ~(OneWord(text) /\ (IsCall(text, "get") \/ IsCall(text, "put")))
    /\ pending' = <<>>
    /\ UNCHANGED dico

Kind == {"list", "get", "put", "starved", "odd"}
Record(f, text, as) == log' = Append(log, [from |-> f, text |-> text, as |-> as])

Execute(f, text) ==
    \/ ExecuteList(text) /\ Record(f, text, "list")
    \/ ExecuteGet(text) /\ Record(f, text, "get")
    \/ ExecutePut(text) /\ Record(f, text, "put")
    \/ ExecutePutFails(text) /\ Record(f, text, "starved")
    \/ ExecuteWrong(text) /\ IF Accepted(text) THEN Record(f, text, "odd")
                             ELSE UNCHANGED log
-----------------------------------------------------------------------------
\* The pipe one turn of the loop reads: HTTP has priority.
Chosen(f) == Readable(f) /\ (f = "midnet" => ~Readable("http"))

Received(f) == buffer \o Chunk(toCore[f], ReceptionLength - Len(buffer))

\* Mutant of TakeFrom: current_wfd is not assigned.
TakeOnly(f) ==
    /\ toCore' = [toCore EXCEPT ![f] = Rest(@, ReceptionLength - Len(buffer))]
    /\ UNCHANGED <<current, toFront>>

\* The read; current_wfd is the pipe that answers the one it reads.
TakeFrom(f) ==
    /\ current' = f
    /\ toCore' = [toCore EXCEPT ![f] = Rest(@, ReceptionLength - Len(buffer))]
    /\ UNCHANGED toFront

StillBoth(f) == watched   \* mutant of WatchOnly: FD_CLR is forgotten
WatchOnly(f) == watched \cap {f}
StillOne(f) == watched    \* mutant of WatchBoth: FD_SET is forgotten
WatchBoth(f) == FrontEnd

\* The request is not complete, the loop goes on listening to f alone.
CoreReadPart(f) ==
    /\ AtSelect /\ Chosen(f)
    /\ Len(buffer) < ReceptionLength /\ EndOfText(Received(f)) = 0
    /\ TakeFrom(f)
    /\ buffer' = Received(f)
    /\ listening' = TRUE
    /\ watched' = WatchOnly(f)
    /\ UNCHANGED <<dico, pending, log>>

\* The request is complete: it is executed, what follows it is dropped.
CoreReadAll(f) ==
    /\ AtSelect /\ Chosen(f)
    /\ Len(buffer) < ReceptionLength /\ EndOfText(Received(f)) # 0
    /\ TakeFrom(f)
    /\ Execute(f, SubSeq(Received(f), 1, EndOfText(Received(f)) - 1))
    /\ buffer' = <<>>
    /\ listening' = FALSE
    /\ watched' = WatchBoth(f)

\* The buffer is full without a complete request: it is emptied, unread.
CoreOverflow ==
    /\ AtSelect /\ \E f \in FrontEnd : Readable(f)
    /\ Len(buffer) >= ReceptionLength
    /\ buffer' = <<>>
    /\ UNCHANGED <<dico, listening, watched, current, pending, log, pipes>>

\* One write of the answer; it blocks while the pipe is full.
CoreWrite ==
    /\ ~AtSelect
    /\ Fits(toFront[current], Head(pending))
    /\ toFront' = [toFront EXCEPT ![current] = @ \o Head(pending)]
    /\ pending' = Tail(pending)
    /\ UNCHANGED <<dico, buffer, listening, watched, current, log, toCore>>

\* A second of silence while a request is incomplete: it is cancelled.
CoreTimeout ==
    /\ AtSelect /\ listening
    /\ \A f \in FrontEnd : ~Readable(f)
    /\ buffer' = <<>>
    /\ listening' = FALSE
    /\ UNCHANGED <<dico, watched, current, pending, log, pipes>>
=============================================================================
