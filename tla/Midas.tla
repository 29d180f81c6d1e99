------------------------------- MODULE Midas --------------------------------
(***************************************************************************)
(* The running daemon: the core server and the two front ends, three       *)
(* processes that main() connects by four pipes (midas.c:210-404).         *)
(*                                                                         *)
(* Timely says what the environment does to the delays of the code.  When  *)
(* it is TRUE a process with something to do does it before anybody's      *)
(* delay (1 ms in clear_fd, 1 s elsewhere) runs out, so a delay ends only  *)
(* when nothing is on its way.  When it is FALSE any delay may run out at  *)
(* any time, as under load or after a SIGSTOP.                             *)
(***************************************************************************)
EXTENDS CoreServer, FrontEnds

CONSTANT Timely

ASSUME TimelyAssumption == Timely \in BOOLEAN

vars == <<pipes, coreVars, frontVars>>

Init == MessagesInit /\ CoreInit /\ FrontInit

\* Nobody is about to write: every watched pipe is empty, the core has
\* answered, and no front end is in the middle of a request.
Settled ==
    /\ AtSelect
    /\ \A f \in FrontEnd : ~Readable(f) /\ pc[f] # "send"

\* The core is not in the middle of an answer to f.
QuietFor(f) == current = f => AtSelect

CoreStep ==
    /\ \/ \E f \in FrontEnd : CoreReadPart(f) \/ CoreReadAll(f)
       \/ CoreOverflow
       \/ CoreWrite
       \/ (Timely => Settled) /\ CoreTimeout
    /\ UNCHANGED frontVars

FrontStep(f) ==
    /\ \/ ClearRead(f)
       \/ (Timely => QuietFor(f)) /\ ClearDone(f)
       \/ Send(f)
       \/ f = "http" /\ HttpRead
       \/ f = "midnet" /\ MidnetRead
       \/ (Timely => Settled) /\ GiveUp(f)
    /\ UNCHANGED coreVars

Request(f) ==
    /\ \/ \E op \in {"get", "put"}, w \in Word : Begin(f, op, w, Keys(dico))
       \/ \E op \in {"list", "local"} : Begin(f, op, NoWord, Keys(dico))
    /\ UNCHANGED coreVars

Die(f) == Crash(f) /\ UNCHANGED coreVars

Next == CoreStep \/ \E f \in FrontEnd : FrontStep(f) \/ Request(f) \/ Die(f)

Spec == Init /\ [][Next]_vars

\* The system schedules each of the processes; clients need not come.
Fairness == WF_vars(CoreStep) /\ \A f \in FrontEnd : WF_vars(FrontStep(f))
FairSpec == Spec /\ Fairness
-----------------------------------------------------------------------------
RequestRecord ==
    [from : FrontEnd, op : {"get", "put"}, w : Word, before : SUBSET Key]
        \cup [from : FrontEnd, op : {"list", "local"}, w : {NoWord}, before : SUBSET Key]

TypeOK ==
    /\ toCore \in [FrontEnd -> Text] /\ toFront \in [FrontEnd -> Text]
    /\ dico \in Seq(Key)
    /\ buffer \in Text
    /\ listening \in BOOLEAN
    /\ watched \in SUBSET FrontEnd
    /\ current \in FrontEnd
    /\ pending \in Seq(Text)
    /\ log \in Seq([from : FrontEnd, text : Text, as : Kind])
    /\ pc \in [FrontEnd -> Place]
    /\ cur \in [FrontEnd -> 0..Len(reqs)]
    /\ out \in [FrontEnd -> Seq(Text)]
    /\ inbuf \in [FrontEnd -> Text]
    /\ page \in [FrontEnd -> Text]
    /\ reqs \in Seq(RequestRecord) /\ Len(reqs) <= MaxReq
    /\ told \in [ReqId -> [kind : Outcome, body : Text]]

\* The tokens of text belong to requests that came through f.
ComesFrom(f, text) ==
    \A i \in DOMAIN text : text[i].id \in DOMAIN reqs /\ reqs[text[i].id].from = f

\* The core assembles one request at a time: what it has buffered came from
\* the only front end it then watches, however the two interleave, stall or
\* are cancelled (midas.c:469-477 clears the other descriptor).
BufferFromOneFrontEnd ==
    buffer # <<>> => \E f \in FrontEnd : watched = {f} /\ ComesFrom(f, buffer)

\* An answer goes to the front end the request came from: whatever f finds
\* in its pipe answers requests that f sent (current_wfd, midas.c:471-476).
ReplyRouting ==
    /\ \A f \in FrontEnd : ComesFrom(f, toFront[f]) /\ ComesFrom(f, inbuf[f])
    /\ \A n \in DOMAIN pending : ComesFrom(current, pending[n])

\* What execute_request() runs is the text of one request that a client made,
\* whole, although it arrives in up to four writes, can be cancelled between
\* two of them, and shares the buffer with its predecessors.  The exception is
\* the word "list": what remains of its get or put once the command before it
\* was cancelled or dropped (midas.c:454-457, 482-489) is run as the command
\* list (midas.c:56), and that is all that remains are ever run as.
IntactRequests ==
    \A n \in DOMAIN log :
        LET id == log[n].text[1].id
        IN  /\ id \in DOMAIN reqs
            /\ log[n].from = reqs[id].from
            /\ \/ log[n].text \o <<Nl(id), Nl(id)>>
                      = RequestText(id, reqs[id].op, reqs[id].w)
               \/ /\ log[n].as = "list" /\ log[n].text = <<Term(ListWord, id)>>
                  /\ reqs[id].op \in {"get", "put"} /\ reqs[id].w = ListWord

\* No request is executed twice, not even one its front end gave up on or
\* that the core cancelled.
ExecutedAtMostOnce ==
    \A m, n \in DOMAIN log : m # n => log[m].text[1].id # log[n].text[1].id

Promise == INSTANCE Service WITH
    store <- Keys(dico),
    made  <- [i \in DOMAIN reqs |-> [from |-> reqs[i].from, op |-> reqs[i].op, w |-> reqs[i].w]],
    taken <- {[id |-> log[n].text[1].id, as |-> log[n].as] : n \in DOMAIN log}

\* The dictionary changes by whole requests that were made, each at most once
\* and those of a front end in order, in spite of cancelled, overflowing, cut
\* and lost ones.  A put that is run stores its word, unless there is no
\* memory or its word is "list" and the remains were run as a command.
KeepsPromise == Promise!Spec
-----------------------------------------------------------------------------
Answered(i) == i \in DOMAIN reqs /\ told[i].kind = "page"
Said(i, sym) == \E n \in DOMAIN told[i].body : told[i].body[n].sym = sym
Listed(i) == {told[i].body[n].w : n \in
                 {m \in DOMAIN told[i].body : told[i].body[m].sym = "word"}}

\* With timely processes a client reads the answer to its own request, never
\* the remains of another: clear_fd(0) throws those away.
AnswerIsOwn ==
    \A i \in ReqId : Answered(i) =>
        \A n \in DOMAIN told[i].body : told[i].body[n].id = i

\* With timely processes the answers are those of one set of words: what is
\* announced was true at some instant between the request and its answer.
AnswersAreTruthful ==
    \A i \in ReqId : Answered(i) =>
        LET key == IF reqs[i].op \in {"get", "put"} THEN Cut[reqs[i].w] ELSE NoWord
            says == <<reqs[i].op, Said(i, "one"), Said(i, "zero")>>
        IN  CASE reqs[i].op = "list" ->
                     /\ reqs[i].before \subseteq Listed(i)
                     /\ Listed(i) \subseteq Keys(dico)
              [] says = <<"put", TRUE, FALSE>> ->
                     key \in Keys(dico) \ reqs[i].before
              [] says = <<"put", FALSE, TRUE>> -> key \in Keys(dico)
              [] says = <<"get", TRUE, FALSE>> -> key \in Keys(dico)
              [] says = <<"get", FALSE, TRUE>> -> key \notin reqs[i].before
              [] OTHER -> FALSE

\* A word is announced as added to at most one client.
AddedOnce ==
    \A i, j \in ReqId :
        ( /\ i # j /\ Answered(i) /\ Answered(j)
          /\ reqs[i].op = "put" /\ reqs[j].op = "put"
          /\ Said(i, "one") /\ Said(j, "one") )
        => Cut[reqs[i].w] # Cut[reqs[j].w]

\* The core ran the put of request i and found no memory for its word.
Starved(i) == \E n \in DOMAIN log : log[n].as = "starved" /\ log[n].text[1].id = i

\* With timely processes that live, no client is sent away without its answer
\* (MIDAS_http_server.c:367-370, midnet.c:116-118), through either front end and
\* whatever the other one does, but that of a put that found no memory.
ErrorsAreEarned ==
    \A i \in DOMAIN reqs :
        told[i].kind \in {"error", "cut"} =>
            Starved(i) \/ \E f \in FrontEnd : pc[f] = "down"
-----------------------------------------------------------------------------
\* The client of request i has its answer, an error page or a closed
\* connection, or its front end is dead.
Ended(i) == i \in DOMAIN reqs =>
                told[i].kind # "none" \/ pc[reqs[i].from] = "down"


\* Whatever the delays, losses and deaths: a front end that the core comes
\* back to, again and again, leaves no client waiting.  It is so although a
\* write to the core blocks a front end without a delay.
AttendedAreServed ==
    \A f \in FrontEnd :
        []<>(AtSelect /\ f \in watched) =>
            \A i \in ReqId : []<>(i \in DOMAIN reqs /\ reqs[i].from = f => Ended(i))
-----------------------------------------------------------------------------
\* midas.c:455 reports "Distant resource doesn't respond. Canceling request".
\* A core that has no request in hand serves either front end: it does not
\* after a cancelled request, whose front end is the only one watched on.
IdleCoreWatchesBoth == (AtSelect /\ ~listening) => watched = FrontEnd

\* MIDAS_http_server.c:52 tells the client of a put "The word has been added
\* in the dictionary": then the dictionary holds it.
AddedWordIsStored ==
    \A i \in ReqId :
        (Answered(i) /\ reqs[i].op = "put" /\ reqs[i].from = "http" /\ Said(i, "one"))
        => Cut[reqs[i].w] \in Keys(dico)
=============================================================================
