----------------------------- MODULE FrontEnds ------------------------------
(***************************************************************************)
(* The HTTP and the MidNet front ends, each a process that serves one      *)
(* complete client request at a time: MIDAS_http_writer and                *)
(* MIDAS_processing_request (MIDAS_http_server.c:251-578), midnet_writer   *)
(* and midnet_processing_request (midnet.c:72-217), clear_fd               *)
(* (midas_utils.c:8-44).  What the TCP server does before a request is     *)
(* complete and after it is answered is in TcpServer.                      *)
(*                                                                         *)
(* A front end empties its pipe from the core until it has been quiet for  *)
(* a millisecond, writes the request, and reads until it finds the end of  *)
(* the answer or a second passes without data.  What it then shows its     *)
(* client is told[id].                                                     *)
(***************************************************************************)
EXTENDS Messages

CONSTANT MayCrash   \* whether a front end may die (SIGPIPE, a signal)

ASSUME CrashAssumption == MayCrash \in BOOLEAN

VARIABLES pc,     \* pc[f]: where the front end f is
          cur,    \* cur[f]: the request f serves, 0 when idle
          out,    \* out[f]: the writes of the request that are still to be made
          inbuf,  \* inbuf[f]: what f has read and not used yet
          page,   \* page[f]: the lines of the answer f has used
          reqs,   \* history: the requests, with the keys stored when each began
          told    \* history: told[id] is how request id ended for its client

frontVars == <<pc, cur, out, inbuf, page, reqs, told>>

Place == {"idle", "clear", "send", "wait", "down"}
Outcome == {"none", "page", "error", "cut", "rejected"}

FrontInit ==
    /\ pc = [f \in FrontEnd |-> "idle"]
    /\ cur = [f \in FrontEnd |-> 0]
    /\ out = [f \in FrontEnd |-> <<>>]
    /\ inbuf = [f \in FrontEnd |-> <<>>]
    /\ page = [f \in FrontEnd |-> <<>>]
    /\ reqs = <<>>
    /\ told = [i \in ReqId |-> [kind |-> "none", body |-> <<>>]]

\* The writer function returns: the client gets an outcome, f is idle again.
Finish(f, kind, body) ==
    /\ told' = [told EXCEPT ![cur[f]] = [kind |-> kind, body |-> body]]
    /\ pc' = [pc EXCEPT ![f] = "idle"]
    /\ cur' = [cur EXCEPT ![f] = 0]
    /\ inbuf' = [inbuf EXCEPT ![f] = <<>>]
    /\ page' = [page EXCEPT ![f] = <<>>]
    /\ UNCHANGED <<out, reqs>>
-----------------------------------------------------------------------------
\* A client's request is complete and its socket is writable.
Begin(f, op, w, stored) ==
    /\ pc[f] = "idle" /\ Len(reqs) < MaxReq
    /\ reqs' = Append(reqs, [from |-> f, op |-> op, w |-> w, before |-> stored])
    /\ cur' = [cur EXCEPT ![f] = Len(reqs) + 1]
    /\ pc' = [pc EXCEPT ![f] = "clear"]
    /\ UNCHANGED <<out, inbuf, page, told, pipes>>

\* One turn of clear_fd(0): it throws away what the pipe holds.
ClearRead(f) ==
    /\ pc[f] = "clear" /\ toFront[f] # <<>>
    /\ toFront' = [toFront EXCEPT ![f] = Rest(@, ReceptionLength)]
    /\ UNCHANGED <<frontVars, toCore>>

AtOnce(f) == TRUE   \* mutant of Quiet: clear_fd(0) is not called
Quiet(f) == toFront[f] = <<>>

\* A millisecond without data ends clear_fd(0); a request for the core is
\* prepared, any other is answered on the spot (a page, or a close).
ClearDone(f) ==
    /\ pc[f] = "clear" /\ Quiet(f)
    /\ IF reqs[cur[f]].op = "local"
       THEN Finish(f, "rejected", <<>>)
       ELSE /\ pc' = [pc EXCEPT ![f] = "send"]
            /\ out' = [out EXCEPT ![f] = RequestPieces(f, cur[f],
                                            reqs[cur[f]].op, reqs[cur[f]].w)]
            /\ UNCHANGED <<cur, inbuf, page, reqs, told>>
    /\ UNCHANGED pipes

\* One write of the request to the core.
Send(f) ==
    /\ pc[f] = "send"
    /\ Fits(toCore[f], Head(out[f]))
    /\ toCore' = [toCore EXCEPT ![f] = @ \o Head(out[f])]
    /\ out' = [out EXCEPT ![f] = Tail(@)]
    /\ pc' = [pc EXCEPT ![f] = IF Len(out[f]) = 1 THEN "wait" ELSE "send"]
    /\ UNCHANGED <<cur, inbuf, page, reqs, told, toFront>>
-----------------------------------------------------------------------------
\* The lines of a text that ends with a line feed.
Lines(text) ==
    LET at == {i \in DOMAIN text : text[i].sym # "nl"}
        Line(n) == CHOOSE i \in at : Cardinality({j \in at : j <= i}) = n
    IN  [n \in 1..Cardinality(at) |-> text[Line(n)]]

\* sscanf("%d") of a line that is not a number leaves ret as it was: what the
\* last number said, or 1, the return value of MIDAS_fill_tcp_buffer.
Verdicts(lines) ==
    [i \in DOMAIN lines |->
        LET digits == {j \in 1..i : lines[j].sym \in {"zero", "one"}}
        IN  Mark(IF digits = {} THEN "one" ELSE lines[Max(digits)].sym, lines[i].id)]

HttpPage(op, lines) == IF op = "list" THEN lines ELSE Verdicts(lines)

\* A line that one read began and the next one ends: ret is then the number
\* of characters that were kept (line 459), and a word has two or more, which
\* is no verdict.
Miscounted(op, text) ==
    /\ op \in {"get", "put"} /\ page["http"] # <<>>
    /\ inbuf["http"] # <<>> /\ inbuf["http"][1].sym = "word"
    /\ FirstNewline(text) # 0

\* One turn of the loop MIDAS_http_server.c:358-466.
HttpRead ==
    LET room == ReceptionLength - Len(inbuf["http"])
        text == inbuf["http"] \o Chunk(toFront["http"], room)
        end  == EndOfText(text)
        last == IF end # 0 THEN end ELSE LastNewline(text)
        used == page["http"] \o Lines(SubSeq(text, 1, last))
        op   == reqs[cur["http"]].op
    IN  /\ pc["http"] = "wait" /\ toFront["http"] # <<>>
        /\ toFront' = [toFront EXCEPT !["http"] = Rest(@, room)]
        /\ IF room <= 0 \/ Miscounted(op, text)
           THEN Finish("http", "error", <<>>)
           ELSE IF FirstNewline(text) = 1
           THEN Finish("http", "page", HttpPage(op, page["http"]))
           ELSE IF end # 0
           THEN Finish("http", "page", HttpPage(op, used))
           ELSE /\ page' = [page EXCEPT !["http"] = used]
                /\ inbuf' = [inbuf EXCEPT !["http"] = SubSeq(text, last + 1, Len(text))]
                /\ UNCHANGED <<pc, cur, out, reqs, told>>
        /\ UNCHANGED toCore

AnyLine(text) == FirstNewline(text) # 0  \* mutant of Whole: strchr, not strstr
Whole(text) == EndOfText(text) # 0
NeverFull(text) == FALSE                 \* mutant of Full: no overflow check
Full(text) == Len(text) = BufferLength

\* One turn of the loop midnet.c:107-138: the text goes to the client as it
\* is, but a buffer filled without the end of the answer is the last one sent.
MidnetRead ==
    LET room == BufferLength - Len(inbuf["midnet"])
        text == inbuf["midnet"] \o Chunk(toFront["midnet"], room)
    IN  /\ pc["midnet"] = "wait" /\ toFront["midnet"] # <<>>
        /\ toFront' = [toFront EXCEPT !["midnet"] = Rest(@, room)]
        /\ IF Whole(text)
           THEN Finish("midnet", "page", text)
           ELSE IF Full(text)
           THEN Finish("midnet", "cut", text)
           ELSE /\ inbuf' = [inbuf EXCEPT !["midnet"] = text]
                /\ UNCHANGED <<pc, cur, out, page, reqs, told>>
        /\ UNCHANGED toCore

\* Mutant of GiveUp: the request is made again.
TryAgain(f) ==
    /\ pc[f] = "wait" /\ toFront[f] = <<>>
    /\ pc' = [pc EXCEPT ![f] = "clear"]
    /\ UNCHANGED <<cur, out, inbuf, page, reqs, told, pipes>>

\* A second without data: an error page, or a close without an answer.
GiveUp(f) ==
    /\ pc[f] = "wait" /\ toFront[f] = <<>>
    /\ Finish(f, "error", <<>>)
    /\ UNCHANGED pipes

\* The process dies where it is; what it wrote stays in its pipe.
Crash(f) ==
    /\ MayCrash /\ pc[f] # "down"
    /\ pc' = [pc EXCEPT ![f] = "down"]
    /\ cur' = [cur EXCEPT ![f] = 0]
    /\ out' = [out EXCEPT ![f] = <<>>]
    /\ inbuf' = [inbuf EXCEPT ![f] = <<>>]
    /\ page' = [page EXCEPT ![f] = <<>>]
    /\ UNCHANGED <<reqs, told, pipes>>
=============================================================================
