---------------------------- MODULE MidasProofs -----------------------------
(***************************************************************************)
(* What becomes of requests and answers, for every dictionary, buffer and  *)
(* pipe size and any number of requests, with or without timely processes, *)
(* failing memory and dying front ends: they keep to their own front end,  *)
(* requests stay whole and are executed at most once, and the daemon       *)
(* implements its promise, Service.                                        *)
(***************************************************************************)
EXTENDS Midas, DictListProofs
-----------------------------------------------------------------------------
(* Requests and answers keep to their own front end.                       *)
(*                                                                         *)
(* Own(reqs, f) are the tokens of the requests that came through f.  The   *)
(* inductive invariant says that everything f and the core have written    *)
(* for f, or hold of it, is made of those; that the core buffers only when *)
(* it watches one front end, and then only what is this one's; and that    *)
(* the answer being written is made of those of current, the front end it  *)
(* is written to.                                                          *)

Own(r, f) == {t \in Token : t.id \in DOMAIN r /\ r[t.id].from = f}

HistoryInv ==
    /\ reqs \in Seq(RequestRecord)
    /\ Len(reqs) <= MaxReq

PipeInv ==
    /\ toCore \in [FrontEnd -> Seq(Token)]
    /\ toFront \in [FrontEnd -> Seq(Token)]
    /\ \A f \in FrontEnd : /\ toCore[f] \in Seq(Own(reqs, f))
                           /\ toFront[f] \in Seq(Own(reqs, f))

CoreInv ==
    /\ dico \in Seq(Key)
    /\ watched \subseteq FrontEnd
    /\ current \in FrontEnd
    /\ pending \in Seq(Seq(Own(reqs, current)))
    /\ \/ buffer = <<>>
       \/ \E f \in FrontEnd : watched = {f} /\ buffer \in Seq(Own(reqs, f))

FrontInv ==
    /\ pc \in [FrontEnd -> Place]
    /\ cur \in [FrontEnd -> Nat]
    /\ out \in [FrontEnd -> Seq(Seq(Token))]
    /\ inbuf \in [FrontEnd -> Seq(Token)]
    /\ \A f \in FrontEnd :
         /\ inbuf[f] \in Seq(Own(reqs, f))
         /\ out[f] \in Seq(Seq(Own(reqs, f)))
         /\ pc[f] = "send" => out[f] # <<>>
         /\ pc[f] \in {"clear", "send", "wait"} =>
                cur[f] \in DOMAIN reqs /\ reqs[cur[f]].from = f

RoutingInv == HistoryInv /\ PipeInv /\ CoreInv /\ FrontInv
-----------------------------------------------------------------------------
(* What the pipes do to texts.                                             *)

LEMMA OwnIsToken ==
    ASSUME NEW r, NEW f
    PROVE  Own(r, f) \subseteq Token
BY DEF Own

\* A text of a front end is a text.
LEMMA OwnTextIsText ==
    ASSUME NEW r, NEW f
    PROVE  /\ \A text \in Seq(Own(r, f)) : text \in Seq(Token)
           /\ \A list \in Seq(Seq(Own(r, f))) : list \in Seq(Seq(Token))
<1>1. \A text \in Seq(Own(r, f)) : text \in Seq(Token)
  BY OwnIsToken, SeqMonotonic
<1>2. Seq(Own(r, f)) \subseteq Seq(Token)
  BY <1>1
<1> QED BY <1>1, <1>2, SeqMonotonic

\* A new request takes no token from the requests before it.
LEMMA OwnGrows ==
    ASSUME NEW S, NEW r \in Seq(S), NEW q \in S, NEW f
    PROVE  /\ Own(r, f) \subseteq Own(Append(r, q), f)
           /\ \A text \in Seq(Own(r, f)) : text \in Seq(Own(Append(r, q), f))
           /\ \A list \in Seq(Seq(Own(r, f))) : list \in Seq(Seq(Own(Append(r, q), f)))
<1>1. Own(r, f) \subseteq Own(Append(r, q), f)
  <2> SUFFICES ASSUME NEW t \in Own(r, f)
               PROVE  t \in Own(Append(r, q), f)
    OBVIOUS
  <2>1. t \in Token /\ t.id \in DOMAIN r /\ r[t.id].from = f
    BY DEF Own
  <2>2. t.id \in DOMAIN Append(r, q) /\ Append(r, q)[t.id] = r[t.id]
    BY <2>1
  <2> QED BY <2>1, <2>2 DEF Own
<1>2. \A text \in Seq(Own(r, f)) : text \in Seq(Own(Append(r, q), f))
  BY <1>1, SeqMonotonic
<1>3. Seq(Own(r, f)) \subseteq Seq(Own(Append(r, q), f))
  BY <1>2
<1> QED BY <1>1, <1>2, <1>3, SeqMonotonic

\* A read takes and leaves pieces of the text that is in the pipe.
LEMMA ChunkAndRest ==
    ASSUME NEW S, NEW pipe \in Seq(S), NEW room \in Int
    PROVE  /\ Chunk(pipe, room) \in Seq(S)
           /\ Rest(pipe, room) \in Seq(S)
<1> DEFINE taken == IF Len(pipe) < room THEN Len(pipe) ELSE room
<1>1. taken \in Int /\ taken <= Len(pipe)
  OBVIOUS
<1>2. Chunk(pipe, room) = SubSeq(pipe, 1, taken)
  BY DEF Chunk
<1>3. \A i \in 1..Len(pipe) : pipe[i] \in S
  BY ElementOfSeq
<1> HIDE DEF taken
<1>4. Chunk(pipe, room) \in Seq(S)
  <2>1. \A i \in 1..taken : pipe[i] \in S
    BY <1>1, <1>3
  <2> QED BY <1>1, <1>2, <2>1, SubSeqProperties
<1>5. Rest(pipe, room) \in Seq(S)
  <2> DEFINE first == Len(Chunk(pipe, room)) + 1
  <2>1. first \in Int /\ first >= 1
    BY <1>4, LenProperties
  <2>2. Rest(pipe, room) = SubSeq(pipe, first, Len(pipe))
    BY DEF Rest
  <2> HIDE DEF first
  <2>3. \A i \in first..Len(pipe) : pipe[i] \in S
    BY <2>1, <1>3
  <2> QED BY <2>1, <2>2, <2>3, SubSeqProperties
<1> QED BY <1>4, <1>5

\* A piece of a text is a text.
LEMMA PieceOfText ==
    ASSUME NEW S, NEW text \in Seq(S), NEW m \in Nat \ {0}, NEW n \in Int,
           n <= Len(text)
    PROVE  SubSeq(text, m, n) \in Seq(S)
<1>1. \A i \in m..n : text[i] \in S
  BY ElementOfSeq
<1> QED BY <1>1, SubSeqProperties

\* The end of a request is one of the places of its text.
LEMMA EndOfTextBounds ==
    ASSUME NEW S, NEW text \in Seq(S)
    PROVE  EndOfText(text) \in 0..Len(text)
<1> DEFINE ends == {i \in 1..(Len(text) - 1) :
                       text[i].sym = "nl" /\ text[i + 1].sym = "nl"}
<1>1. ends \subseteq Nat /\ \A i \in ends : i \in 0..Len(text)
  OBVIOUS
<1>2. EndOfText(text) = IF ends = {} THEN 0 ELSE Min(ends)
  BY DEF EndOfText
<1> HIDE DEF ends
<1>3. CASE ends = {}
  BY <1>2, <1>3, LenProperties
<1>4. CASE ends # {}
  <2>1. Min(ends) \in ends
    BY <1>1, <1>4, LeastElement
  <2> QED BY <1>1, <1>2, <1>4, <2>1
<1> QED BY <1>3, <1>4

\* So is its last line feed.
LEMMA LastNewlineBounds ==
    ASSUME NEW S, NEW text \in Seq(S)
    PROVE  LastNewline(text) \in 0..Len(text)
<1> DEFINE feeds == {i \in 1..Len(text) : text[i].sym = "nl"}
<1>1. feeds \subseteq 0..Len(text) /\ Len(text) \in Nat
  OBVIOUS
<1>2. LastNewline(text) = IF feeds # {} THEN Max(feeds) ELSE 0
  BY DEF LastNewline, SelectLastInSeq
<1> HIDE DEF feeds
<1>3. CASE feeds = {}
  BY <1>1, <1>2, <1>3
<1>4. CASE feeds # {}
  <2>1. Max(feeds) \in feeds
    BY <1>1, <1>4, GreatestElement
  <2> QED BY <1>1, <1>2, <1>4, <2>1
<1> QED BY <1>3, <1>4
-----------------------------------------------------------------------------
(* What is written is marked with the request it belongs to.               *)

LEMMA MarksAreOwn ==
    ASSUME NEW r \in Seq(RequestRecord), Len(r) <= MaxReq,
           NEW id \in DOMAIN r
    PROVE  /\ \A sym \in Symbol \ {"word"} : Mark(sym, id) \in Own(r, r[id].from)
           /\ \A w \in Word : Term(w, id) \in Own(r, r[id].from)
           /\ Nl(id) \in Own(r, r[id].from)
<1>1. id \in ReqId
  BY BoundAssumption DEF ReqId
<1>2. \A sym \in Symbol \ {"word"} : Mark(sym, id) \in Own(r, r[id].from)
  BY <1>1 DEF Mark, Token, Own
<1>3. \A w \in Word : Term(w, id) \in Own(r, r[id].from)
  BY <1>1 DEF Term, Token, Own
<1> QED BY <1>2, <1>3 DEF Nl, Symbol

\* The writes of a request, one of MidNet, two or four of the HTTP front end.
LEMMA RequestPiecesAreOwn ==
    ASSUME NEW r \in Seq(RequestRecord), Len(r) <= MaxReq,
           NEW id \in DOMAIN r, r[id].op # "local",
           NEW f, f = r[id].from, NEW op, op = r[id].op, NEW w, w = r[id].w
    PROVE  /\ RequestPieces(f, id, op, w) \in Seq(Seq(Own(r, f)))
           /\ RequestPieces(f, id, op, w) # <<>>
<1> DEFINE text == RequestText(id, op, w)
           S == Own(r, f)
<1>1. r[id] \in RequestRecord
  BY ElementOfSeq, LenProperties
<1>2. text \in Seq(S) /\ Len(text) \in {3, 5}
  <2>1. CASE op = "list"
    <3>1. text = <<Mark("list", id), Nl(id), Nl(id)>>
      BY <2>1 DEF RequestText
    <3>2. Mark("list", id) \in S /\ Nl(id) \in S
      BY MarksAreOwn DEF Symbol
    <3> HIDE DEF text, S
    <3> QED BY <3>1, <3>2
  <2>2. CASE op # "list"
    <3>1. op \in {"get", "put"} /\ w \in Word
      BY <1>1, <2>2 DEF RequestRecord
    <3>2. text = <<Mark(op, id), Nl(id), Term(w, id), Nl(id), Nl(id)>>
      BY <2>2 DEF RequestText
    <3>3. Mark(op, id) \in S /\ Nl(id) \in S /\ Term(w, id) \in S
      BY <3>1, MarksAreOwn DEF Symbol
    <3> HIDE DEF text, S
    <3> QED BY <3>2, <3>3
  <2> QED BY <2>1, <2>2
<1>3. RequestPieces(f, id, op, w) =
          IF f = "midnet" THEN <<text>>
          ELSE <<SubSeq(text, 1, 2)>> \o [i \in 1..(Len(text) - 2) |-> <<text[i + 2]>>]
  BY DEF RequestPieces
<1> HIDE DEF text, S
<1>4. CASE f = "midnet"
  <2>1. <<text>> \in Seq(Seq(S)) /\ <<text>> # <<>>
    BY <1>2
  <2> QED BY <1>3, <1>4, <2>1 DEF S
<1>5. CASE f # "midnet"
  <2>1. PICK n \in Nat : n = Len(text) - 2
    <3>1. CASE Len(text) = 3
      BY <3>1
    <3>2. CASE Len(text) = 5
      BY <3>2
    <3> QED BY <1>2, <3>1, <3>2
  <2> DEFINE first == <<SubSeq(text, 1, 2)>>
             rest == [i \in 1..n |-> <<text[i + 2]>>]
  <2>2. RequestPieces(f, id, op, w) = first \o rest
    BY <1>3, <1>5, <2>1
  <2>3. first \in Seq(Seq(S)) /\ Len(first) = 1
    <3>1. SubSeq(text, 1, 2) \in Seq(S)
      BY <1>2, PieceOfText
    <3> QED BY <3>1
  <2>4. rest \in Seq(Seq(S))
    <3>1. \A i \in 1..n : <<text[i + 2]>> \in Seq(S)
      BY <1>2, <2>1
    <3> QED BY <3>1
  <2> HIDE DEF first, rest
  <2>5. first \o rest \in Seq(Seq(S)) /\ first \o rest # <<>>
    <3>1. /\ first \o rest \in Seq(Seq(S))
          /\ Len(first \o rest) = Len(first) + Len(rest)
      BY <2>3, <2>4, ConcatProperties
    <3>2. Len(rest) \in Nat
      BY <2>4, LenProperties
    <3>3. Len(first \o rest) # 0
      BY <2>3, <3>1, <3>2
    <3> QED BY <3>1, <3>3, EmptySeq
  <2> QED BY <2>2, <2>5 DEF S
<1> QED BY <1>4, <1>5

\* The write of the answer to get or put.
LEMMA AnswerPiecesAreOwn ==
    ASSUME NEW r \in Seq(RequestRecord), Len(r) <= MaxReq,
           NEW id \in DOMAIN r, NEW ret
    PROVE  AnswerPieces(ret, id) \in Seq(Seq(Own(r, r[id].from)))
<1> DEFINE S == Own(r, r[id].from)
           verdict == Mark(IF ret = 0 THEN "zero" ELSE "one", id)
<1>1. verdict \in S /\ Nl(id) \in S
  BY MarksAreOwn DEF Symbol
<1>2. AnswerPieces(ret, id) = << <<verdict, Nl(id), Nl(id)>> >>
  BY DEF AnswerPieces
<1> HIDE DEF S, verdict
<1>3. AnswerPieces(ret, id) \in Seq(Seq(S))
  BY <1>1, <1>2
<1> QED BY <1>3 DEF S

\* The writes of write_dictionary().
LEMMA ListPiecesAreOwn ==
    ASSUME NEW r \in Seq(RequestRecord), Len(r) <= MaxReq,
           NEW id \in DOMAIN r, NEW list \in Seq(Key)
    PROVE  ListPieces(list, id) \in Seq(Seq(Own(r, r[id].from)))
<1> DEFINE S == Own(r, r[id].from)
           words == [i \in 1..Len(list) |-> <<Term(list[i], id), Nl(id)>>]
           first == IF list = <<>> THEN << <<Nl(id)>> >> ELSE words
<1>1. Nl(id) \in S /\ \A key \in Key : Term(key, id) \in S
  <2>1. Key \subseteq Word
    BY CutAssumption DEF Key
  <2> QED BY <2>1, MarksAreOwn
<1>2. ListPieces(list, id) = first \o << <<Nl(id)>> >>
  BY DEF ListPieces
<1> HIDE DEF S
<1>3. words \in Seq(Seq(S))
  <2>1. \A i \in 1..Len(list) : <<Term(list[i], id), Nl(id)>> \in Seq(S)
    <3> SUFFICES ASSUME NEW i \in 1..Len(list)
                 PROVE  <<Term(list[i], id), Nl(id)>> \in Seq(S)
      OBVIOUS
    <3>1. Term(list[i], id) \in S
      BY <1>1, ElementOfSeq
    <3> QED BY <1>1, <3>1
  <2> QED BY <2>1, LenProperties
<1>4. << <<Nl(id)>> >> \in Seq(Seq(S))
  BY <1>1
<1>5. first \in Seq(Seq(S))
  BY <1>3, <1>4
<1> HIDE DEF words, first
<1>6. first \o << <<Nl(id)>> >> \in Seq(Seq(S))
  BY <1>4, <1>5, ConcatProperties
<1> QED BY <1>2, <1>6 DEF S
-----------------------------------------------------------------------------
(* The core server keeps the invariant.                                    *)

\* What the core has read of the pipe it chose is the text of one front end.
LEMMA ReceivedIsOwn ==
    ASSUME RoutingInv, NEW f \in FrontEnd, Readable(f)
    PROVE  /\ Received(f) \in Seq(Own(reqs, f))
           /\ Rest(toCore[f], ReceptionLength - Len(buffer)) \in Seq(Own(reqs, f))
           /\ watched \cap {f} = {f}
<1>1. buffer \in Seq(Own(reqs, f)) /\ toCore[f] \in Seq(Own(reqs, f)) /\ f \in watched
  <2>1. f \in watched /\ toCore[f] \in Seq(Own(reqs, f))
    BY DEF RoutingInv, PipeInv, Readable
  <2>2. CASE buffer = <<>>
    BY <2>1, <2>2
  <2>3. CASE \E g \in FrontEnd : watched = {g} /\ buffer \in Seq(Own(reqs, g))
    BY <2>1, <2>3
  <2> QED BY <2>1, <2>2, <2>3 DEF RoutingInv, CoreInv
<1>2. ReceptionLength - Len(buffer) \in Int
  BY <1>1, LenProperties, BoundAssumption
<1> QED BY <1>1, <1>2, ChunkAndRest, ConcatProperties DEF Received

\* The pipes after the core has read from f.
LEMMA TakeFromKeeps ==
    ASSUME RoutingInv, NEW f \in FrontEnd, Readable(f), TakeFrom(f), UNCHANGED reqs
    PROVE  PipeInv' /\ current' = f
<1> DEFINE left == Rest(toCore[f], ReceptionLength - Len(buffer))
<1>1. left \in Seq(Own(reqs, f)) /\ left \in Seq(Token)
  BY ReceivedIsOwn, OwnTextIsText
<1>2. toCore' = [toCore EXCEPT ![f] = left] /\ toFront' = toFront
  BY DEF TakeFrom
<1> HIDE DEF left
<1> QED BY <1>1, <1>2 DEF TakeFrom, RoutingInv, PipeInv

\* The answer to a text of f goes in the names of requests of f.
LEMMA ExecuteKeeps ==
    ASSUME RoutingInv, NEW f \in FrontEnd, NEW text \in Seq(Own(reqs, f)),
           Execute(f, text)
    PROVE  dico' \in Seq(Key) /\ pending' \in Seq(Seq(Own(reqs, f)))
<1>1. dico \in Seq(Key) /\ reqs \in Seq(RequestRecord) /\ Len(reqs) <= MaxReq
  BY DEF RoutingInv, CoreInv, HistoryInv
<1>2. \A i \in 1..Len(text) : /\ text[i] \in Token
                             /\ text[i].id \in DOMAIN reqs
                             /\ reqs[text[i].id].from = f
  BY ElementOfSeq DEF Own
<1>3. CASE ExecuteList(text)
  <2>1. 1 \in 1..Len(text)
    BY <1>3 DEF ExecuteList, IsList
  <2> QED BY <1>1, <1>2, <1>3, <2>1, ListPiecesAreOwn DEF ExecuteList
<1>4. ASSUME OneWord(text)
      PROVE  /\ text[1].id \in DOMAIN reqs /\ reqs[text[1].id].from = f
             /\ text[3].w \in Word
  <2>1. 1 \in 1..Len(text) /\ 3 \in 1..Len(text) /\ text[3].sym = "word"
    BY <1>4 DEF OneWord
  <2>2. text[3] \in Token
    BY <1>2, <2>1
  <2> QED BY <1>2, <2>1, <2>2 DEF Token
<1>5. CASE ExecuteGet(text)
  BY <1>1, <1>4, <1>5, AnswerPiecesAreOwn DEF ExecuteGet
<1>6. CASE ExecutePut(text)
  <2>1. PutList(dico, text[3].w) \in Seq(Key)
    <3>1. CASE PutReturn(dico, text[3].w) = 0
      BY <1>1, <3>1 DEF PutList
    <3>2. CASE PutReturn(dico, text[3].w) # 0
      BY <1>1, <1>4, <1>6, <3>2, PutListCells DEF ExecutePut
    <3> QED BY <3>1, <3>2
  <2> QED BY <1>1, <1>4, <1>6, <2>1, AnswerPiecesAreOwn DEF ExecutePut
<1>7. CASE ExecutePutFails(text) \/ ExecuteWrong(text)
  <2>1. dico' = dico /\ pending' = <<>>
    BY <1>7 DEF ExecutePutFails, ExecuteWrong, NoAnswer
  <2> QED BY <1>1, <2>1
<1> QED BY <1>3, <1>5, <1>6, <1>7 DEF Execute

LEMMA CoreReadKeeps ==
    ASSUME RoutingInv, NEW f \in FrontEnd, CoreReadPart(f) \/ CoreReadAll(f),
           UNCHANGED frontVars
    PROVE  RoutingInv'
<1>1. Readable(f) /\ TakeFrom(f)
  BY DEF CoreReadPart, CoreReadAll, Chosen
<1>2. reqs' = reqs /\ HistoryInv' /\ FrontInv'
  BY DEF frontVars, RoutingInv, HistoryInv, FrontInv
<1>3. PipeInv' /\ current' = f
  BY <1>1, <1>2, TakeFromKeeps
<1>4. Received(f) \in Seq(Own(reqs, f)) /\ watched \cap {f} = {f}
  BY <1>1, ReceivedIsOwn
<1>5. CASE CoreReadPart(f)
  <2>1. dico' = dico /\ pending' = <<>> /\ buffer' = Received(f) /\ watched' = {f}
    BY <1>4, <1>5 DEF CoreReadPart, WatchOnly, AtSelect
  <2>2. CoreInv'
    BY <1>2, <1>3, <1>4, <2>1 DEF RoutingInv, CoreInv
  <2> QED BY <1>2, <1>3, <2>2 DEF RoutingInv
<1>6. CASE CoreReadAll(f)
  <2> DEFINE end == EndOfText(Received(f))
             text == SubSeq(Received(f), 1, end - 1)
  <2>1. end \in 0..Len(Received(f)) /\ Len(Received(f)) \in Nat
    BY <1>4, EndOfTextBounds, LenProperties
  <2>2. text \in Seq(Own(reqs, f))
    BY <1>4, <2>1, PieceOfText
  <2>3. Execute(f, text) /\ buffer' = <<>> /\ watched' = FrontEnd
    BY <1>6 DEF CoreReadAll, WatchBoth
  <2> HIDE DEF text
  <2>4. dico' \in Seq(Key) /\ pending' \in Seq(Seq(Own(reqs, f)))
    BY <2>2, <2>3, ExecuteKeeps
  <2>5. CoreInv'
    BY <1>2, <1>3, <2>3, <2>4 DEF CoreInv
  <2> QED BY <1>2, <1>3, <2>5 DEF RoutingInv
<1> QED BY <1>5, <1>6

LEMMA CoreWriteKeeps ==
    ASSUME RoutingInv, CoreWrite, UNCHANGED frontVars
    PROVE  RoutingInv'
<1>1. reqs' = reqs /\ HistoryInv' /\ FrontInv'
  BY DEF frontVars, RoutingInv, HistoryInv, FrontInv
<1>2. /\ current \in FrontEnd
      /\ pending \in Seq(Seq(Own(reqs, current))) /\ pending # <<>>
      /\ toFront[current] \in Seq(Own(reqs, current))
  BY DEF CoreWrite, AtSelect, RoutingInv, CoreInv, PipeInv
<1>3. /\ Head(pending) \in Seq(Own(reqs, current))
      /\ Tail(pending) \in Seq(Seq(Own(reqs, current)))
  BY <1>2, HeadTailProperties
<1> DEFINE new == toFront[current] \o Head(pending)
<1>4. new \in Seq(Own(reqs, current)) /\ new \in Seq(Token)
  BY <1>2, <1>3, ConcatProperties, OwnTextIsText
<1>5. /\ toFront' = [toFront EXCEPT ![current] = new] /\ toCore' = toCore
      /\ pending' = Tail(pending)
      /\ UNCHANGED <<dico, buffer, watched, current>>
  BY DEF CoreWrite
<1> HIDE DEF new
<1>6. PipeInv'
  BY <1>1, <1>2, <1>4, <1>5 DEF RoutingInv, PipeInv
<1>7. CoreInv'
  BY <1>1, <1>3, <1>5 DEF RoutingInv, CoreInv
<1> QED BY <1>1, <1>6, <1>7 DEF RoutingInv

\* Overflow and timeout empty the buffer and leave the rest alone.
LEMMA CoreDropsKeeps ==
    ASSUME RoutingInv, CoreOverflow \/ CoreTimeout, UNCHANGED frontVars
    PROVE  RoutingInv'
<1>1. /\ buffer' = <<>>
      /\ UNCHANGED <<dico, watched, current, pending, toCore, toFront, reqs>>
  BY DEF CoreOverflow, CoreTimeout, pipes, frontVars
<1>2. HistoryInv' /\ FrontInv'
  BY DEF frontVars, RoutingInv, HistoryInv, FrontInv
<1>3. PipeInv' /\ CoreInv'
  BY <1>1 DEF RoutingInv, PipeInv, CoreInv
<1> QED BY <1>2, <1>3 DEF RoutingInv
-----------------------------------------------------------------------------
(* The front ends keep the invariant.                                      *)

\* A front end that ends a request holds nothing more of it.
LEMMA FinishKeeps ==
    ASSUME FrontInv, NEW f \in FrontEnd, NEW kind, NEW body, Finish(f, kind, body),
           pc[f] # "send"
    PROVE  FrontInv' /\ reqs' = reqs
<1>1. /\ pc' = [pc EXCEPT ![f] = "idle"]
      /\ cur' = [cur EXCEPT ![f] = 0]
      /\ inbuf' = [inbuf EXCEPT ![f] = <<>>]
      /\ UNCHANGED <<out, reqs>>
  BY DEF Finish
<1> QED BY <1>1 DEF FrontInv, Place

\* A front end that reads its pipe from the core.
LEMMA FrontReadKeeps ==
    ASSUME RoutingInv, NEW f \in FrontEnd, NEW room \in Int,
           toFront' = [toFront EXCEPT ![f] = Rest(@, room)],
           UNCHANGED <<toCore, reqs>>
    PROVE  PipeInv' /\ Chunk(toFront[f], room) \in Seq(Own(reqs, f))
<1> DEFINE left == Rest(toFront[f], room)
<1>1. toFront[f] \in Seq(Own(reqs, f))
  BY DEF RoutingInv, PipeInv
<1>2. left \in Seq(Own(reqs, f)) /\ left \in Seq(Token)
  BY <1>1, ChunkAndRest, OwnTextIsText
<1>3. toFront' = [toFront EXCEPT ![f] = left]
  OBVIOUS
<1>4. Chunk(toFront[f], room) \in Seq(Own(reqs, f))
  BY <1>1, ChunkAndRest
<1> HIDE DEF left
<1> QED BY <1>2, <1>3, <1>4 DEF RoutingInv, PipeInv

LEMMA ClearReadKeeps ==
    ASSUME RoutingInv, NEW f \in FrontEnd, ClearRead(f), UNCHANGED coreVars
    PROVE  RoutingInv'
<1>1. /\ toFront' = [toFront EXCEPT ![f] = Rest(@, ReceptionLength)]
      /\ UNCHANGED <<toCore, reqs, pc, cur, out, inbuf>>
  BY DEF ClearRead, frontVars
<1>2. PipeInv'
  <2>1. ReceptionLength \in Int
    BY BoundAssumption
  <2>2. UNCHANGED <<toCore, reqs>>
    BY <1>1
  <2> QED BY <1>1, <2>1, <2>2, FrontReadKeeps
<1>3. HistoryInv' /\ CoreInv' /\ FrontInv'
  BY <1>1 DEF RoutingInv, HistoryInv, CoreInv, FrontInv, coreVars
<1> QED BY <1>2, <1>3 DEF RoutingInv

LEMMA ClearDoneKeeps ==
    ASSUME RoutingInv, NEW f \in FrontEnd, ClearDone(f), UNCHANGED coreVars
    PROVE  RoutingInv'
<1>1. /\ cur[f] \in DOMAIN reqs /\ reqs[cur[f]].from = f
      /\ reqs \in Seq(RequestRecord) /\ Len(reqs) <= MaxReq
      /\ pc[f] = "clear" /\ FrontInv
  BY DEF ClearDone, RoutingInv, HistoryInv, FrontInv
<1>2. FrontInv' /\ reqs' = reqs
  <2>1. CASE reqs[cur[f]].op = "local"
    BY <1>1, <2>1, FinishKeeps DEF ClearDone
  <2>2. CASE reqs[cur[f]].op # "local"
    <3> DEFINE pieces == RequestPieces(f, cur[f], reqs[cur[f]].op, reqs[cur[f]].w)
    <3>1. /\ pc' = [pc EXCEPT ![f] = "send"]
          /\ out' = [out EXCEPT ![f] = pieces]
          /\ UNCHANGED <<cur, inbuf, reqs>>
      BY <2>2 DEF ClearDone
    <3>2. pieces \in Seq(Seq(Own(reqs, f))) /\ pieces # <<>>
      BY <1>1, <2>2, RequestPiecesAreOwn
    <3>3. pieces \in Seq(Seq(Token))
      BY <3>2, OwnTextIsText
    <3> HIDE DEF pieces
    <3> QED BY <1>1, <3>1, <3>2, <3>3 DEF FrontInv, Place
  <2> QED BY <2>1, <2>2
<1>3. UNCHANGED <<toCore, toFront>>
  BY DEF ClearDone, pipes
<1>4. HistoryInv' /\ CoreInv' /\ PipeInv'
  BY <1>2, <1>3 DEF RoutingInv, HistoryInv, CoreInv, PipeInv, coreVars
<1> QED BY <1>2, <1>4 DEF RoutingInv

LEMMA SendKeeps ==
    ASSUME RoutingInv, NEW f \in FrontEnd, Send(f), UNCHANGED coreVars
    PROVE  RoutingInv'
<1>1. /\ out[f] \in Seq(Seq(Own(reqs, f))) /\ out[f] # <<>>
      /\ toCore[f] \in Seq(Own(reqs, f))
      /\ cur[f] \in DOMAIN reqs /\ reqs[cur[f]].from = f
  BY DEF Send, RoutingInv, FrontInv, PipeInv
<1>2. /\ Head(out[f]) \in Seq(Own(reqs, f))
      /\ Tail(out[f]) \in Seq(Seq(Own(reqs, f)))
      /\ Len(Tail(out[f])) = Len(out[f]) - 1
      /\ Len(out[f]) \in Nat
  BY <1>1, HeadTailProperties, LenProperties
<1> DEFINE text == toCore[f] \o Head(out[f])
           left == Tail(out[f])
           place == IF Len(out[f]) = 1 THEN "wait" ELSE "send"
<1>3. text \in Seq(Own(reqs, f)) /\ text \in Seq(Token)
  BY <1>1, <1>2, ConcatProperties, OwnTextIsText
<1>4. left \in Seq(Seq(Own(reqs, f))) /\ left \in Seq(Seq(Token))
  BY <1>2, OwnTextIsText
<1>5. place \in {"wait", "send"} /\ (place = "send" => left # <<>>)
  <2>1. Len(out[f]) # 1 => Len(left) # 0
    BY <1>2
  <2> HIDE DEF left
  <2>2. left = <<>> => Len(left) = 0
    OBVIOUS
  <2> QED BY <2>1, <2>2
<1>6. /\ toCore' = [toCore EXCEPT ![f] = text]
      /\ out' = [out EXCEPT ![f] = left]
      /\ pc' = [pc EXCEPT ![f] = place]
      /\ UNCHANGED <<cur, inbuf, reqs, toFront>>
  BY DEF Send
<1> HIDE DEF text, left, place
<1>7. PipeInv'
  BY <1>3, <1>6 DEF RoutingInv, PipeInv
<1>8. FrontInv'
  BY <1>1, <1>4, <1>5, <1>6 DEF RoutingInv, FrontInv, Place
<1>9. HistoryInv' /\ CoreInv'
  BY <1>6 DEF RoutingInv, HistoryInv, CoreInv, coreVars
<1> QED BY <1>7, <1>8, <1>9 DEF RoutingInv

\* A front end keeps of what it read what comes after a place in its text.
LEMMA KeepTextKeeps ==
    ASSUME FrontInv, NEW f \in FrontEnd, NEW text \in Seq(Own(reqs, f)),
           inbuf' = [inbuf EXCEPT ![f] = text],
           UNCHANGED <<pc, cur, out, reqs>>
    PROVE  FrontInv'
<1>1. text \in Seq(Token)
  BY OwnTextIsText
<1> QED BY <1>1 DEF FrontInv

LEMMA HttpReadKeeps ==
    ASSUME RoutingInv, HttpRead, UNCHANGED coreVars
    PROVE  RoutingInv'
<1> DEFINE f    == "http"
           room == ReceptionLength - Len(inbuf[f])
           text == inbuf[f] \o Chunk(toFront[f], room)
           end  == EndOfText(text)
           last == IF end # 0 THEN end ELSE LastNewline(text)
           left == SubSeq(text, last + 1, Len(text))
<1>1. f \in FrontEnd /\ inbuf[f] \in Seq(Own(reqs, f)) /\ FrontInv
  BY DEF FrontEnd, RoutingInv, FrontInv
<1>2. room \in Int
  BY <1>1, LenProperties, BoundAssumption
<1>3. /\ toFront' = [toFront EXCEPT ![f] = Rest(@, room)]
      /\ toCore' = toCore
      /\ pc[f] = "wait"
  BY DEF HttpRead
<1>4. \/ \E kind, body : Finish(f, kind, body)
      \/ /\ inbuf' = [inbuf EXCEPT ![f] = left]
         /\ UNCHANGED <<pc, cur, out, reqs>>
  BY DEF HttpRead
<1>5. reqs' = reqs
  BY <1>4 DEF Finish
<1> HIDE DEF f, room
<1>6. PipeInv' /\ Chunk(toFront[f], room) \in Seq(Own(reqs, f))
  BY <1>1, <1>2, <1>3, <1>5, FrontReadKeeps
<1>7. text \in Seq(Own(reqs, f))
  BY <1>1, <1>6, ConcatProperties
<1> HIDE DEF text
<1>8. left \in Seq(Own(reqs, f))
  <2>1. last \in Nat
    BY <1>7, EndOfTextBounds, LastNewlineBounds
  <2> HIDE DEF last
  <2> QED BY <1>7, <2>1, PieceOfText, LenProperties
<1> HIDE DEF left
<1>9. FrontInv'
  BY <1>1, <1>3, <1>4, <1>8, FinishKeeps, KeepTextKeeps
<1>10. HistoryInv' /\ CoreInv'
  BY <1>5 DEF RoutingInv, HistoryInv, CoreInv, coreVars
<1> QED BY <1>6, <1>9, <1>10 DEF RoutingInv

LEMMA MidnetReadKeeps ==
    ASSUME RoutingInv, MidnetRead, UNCHANGED coreVars
    PROVE  RoutingInv'
<1> DEFINE f    == "midnet"
           room == BufferLength - Len(inbuf[f])
           text == inbuf[f] \o Chunk(toFront[f], room)
<1>1. f \in FrontEnd /\ inbuf[f] \in Seq(Own(reqs, f)) /\ FrontInv
  BY DEF FrontEnd, RoutingInv, FrontInv
<1>2. room \in Int
  BY <1>1, LenProperties, BoundAssumption
<1>3. /\ toFront' = [toFront EXCEPT ![f] = Rest(@, room)]
      /\ toCore' = toCore
      /\ pc[f] = "wait"
  BY DEF MidnetRead
<1>4. \/ \E kind, body : Finish(f, kind, body)
      \/ /\ inbuf' = [inbuf EXCEPT ![f] = text]
         /\ UNCHANGED <<pc, cur, out, reqs>>
  BY DEF MidnetRead
<1>5. reqs' = reqs
  BY <1>4 DEF Finish
<1> HIDE DEF f, room
<1>6. PipeInv' /\ Chunk(toFront[f], room) \in Seq(Own(reqs, f))
  BY <1>1, <1>2, <1>3, <1>5, FrontReadKeeps
<1>7. text \in Seq(Own(reqs, f))
  BY <1>1, <1>6, ConcatProperties
<1> HIDE DEF text
<1>8. FrontInv'
  BY <1>1, <1>3, <1>4, <1>7, FinishKeeps, KeepTextKeeps
<1>9. HistoryInv' /\ CoreInv'
  BY <1>5 DEF RoutingInv, HistoryInv, CoreInv, coreVars
<1> QED BY <1>6, <1>8, <1>9 DEF RoutingInv

LEMMA GiveUpKeeps ==
    ASSUME RoutingInv, NEW f \in FrontEnd, GiveUp(f), UNCHANGED coreVars
    PROVE  RoutingInv'
<1>1. FrontInv /\ pc[f] # "send" /\ Finish(f, "error", <<>>)
  BY DEF GiveUp, RoutingInv
<1>2. FrontInv' /\ reqs' = reqs
  BY <1>1, FinishKeeps
<1>3. HistoryInv' /\ CoreInv' /\ PipeInv'
  BY <1>2 DEF GiveUp, pipes, coreVars, RoutingInv, HistoryInv, CoreInv, PipeInv
<1> QED BY <1>2, <1>3 DEF RoutingInv

LEMMA CrashKeeps ==
    ASSUME RoutingInv, NEW f \in FrontEnd, Crash(f), UNCHANGED coreVars
    PROVE  RoutingInv'
<1>1. /\ pc' = [pc EXCEPT ![f] = "down"]
      /\ cur' = [cur EXCEPT ![f] = 0]
      /\ out' = [out EXCEPT ![f] = <<>>]
      /\ inbuf' = [inbuf EXCEPT ![f] = <<>>]
      /\ UNCHANGED <<reqs, toCore, toFront>>
  BY DEF Crash, pipes
<1>2. FrontInv'
  BY <1>1 DEF RoutingInv, FrontInv, Place
<1>3. HistoryInv' /\ CoreInv' /\ PipeInv'
  BY <1>1 DEF coreVars, RoutingInv, HistoryInv, CoreInv, PipeInv
<1> QED BY <1>2, <1>3 DEF RoutingInv

\* A new request leaves what belongs to the others as it is.
LEMMA RequestKeeps ==
    ASSUME RoutingInv, NEW f \in FrontEnd, Request(f)
    PROVE  RoutingInv'
<1>1. Keys(dico) \subseteq Key
  BY LenProperties DEF RoutingInv, CoreInv, Keys, ToSet
<1>2. PICK q \in RequestRecord :
          /\ q.from = f
          /\ pc[f] = "idle" /\ Len(reqs) < MaxReq
          /\ reqs' = Append(reqs, q)
          /\ cur' = [cur EXCEPT ![f] = Len(reqs) + 1]
          /\ pc' = [pc EXCEPT ![f] = "clear"]
          /\ UNCHANGED <<out, inbuf, toCore, toFront>>
  <2>1. PICK op, w : /\ Begin(f, op, w, Keys(dico))
                     /\ \/ op \in {"get", "put"} /\ w \in Word
                        \/ op \in {"list", "local"} /\ w = NoWord
    BY DEF Request
  <2> DEFINE q == [from |-> f, op |-> op, w |-> w, before |-> Keys(dico)]
  <2>2. q \in RequestRecord /\ q.from = f
    BY <1>1, <2>1 DEF RequestRecord
  <2>3. /\ pc[f] = "idle" /\ Len(reqs) < MaxReq
        /\ reqs' = Append(reqs, q)
        /\ cur' = [cur EXCEPT ![f] = Len(reqs) + 1]
        /\ pc' = [pc EXCEPT ![f] = "clear"]
        /\ UNCHANGED <<out, inbuf, toCore, toFront>>
    BY <2>1 DEF Begin, pipes
  <2> HIDE DEF q
  <2> QED BY <2>2, <2>3
<1>3. reqs \in Seq(RequestRecord) /\ Len(reqs) \in Nat
  BY DEF RoutingInv, HistoryInv
<1>4. \A g \in FrontEnd :
          /\ \A text \in Seq(Own(reqs, g)) : text \in Seq(Own(reqs', g))
          /\ \A list \in Seq(Seq(Own(reqs, g))) : list \in Seq(Seq(Own(reqs', g)))
  BY <1>2, <1>3, OwnGrows
<1>5. HistoryInv'
  BY <1>2, <1>3, BoundAssumption DEF HistoryInv
<1>6. PipeInv'
  BY <1>2, <1>4 DEF RoutingInv, PipeInv
<1>7. CoreInv'
  BY <1>4 DEF RoutingInv, CoreInv, Request, coreVars
<1>8. FrontInv'
  <2>1. /\ Len(reqs) + 1 \in DOMAIN reqs'
        /\ reqs'[Len(reqs) + 1] = q
        /\ \A i \in DOMAIN reqs : i \in DOMAIN reqs' /\ reqs'[i] = reqs[i]
    BY <1>2, <1>3
  <2> QED BY <1>2, <1>3, <1>4, <2>1 DEF RoutingInv, FrontInv, Place
<1> QED BY <1>5, <1>6, <1>7, <1>8 DEF RoutingInv
-----------------------------------------------------------------------------
LEMMA RoutingInit == Init => RoutingInv
<1> SUFFICES ASSUME Init
             PROVE  RoutingInv
  OBVIOUS
<1>1. HistoryInv
  BY BoundAssumption DEF Init, FrontInit, HistoryInv
<1>2. PipeInv
  BY DEF Init, MessagesInit, PipeInv
<1>3. CoreInv
  BY DEF Init, CoreInit, CoreInv, FrontEnd
<1>4. FrontInv
  BY DEF Init, FrontInit, FrontInv, Place
<1> QED BY <1>1, <1>2, <1>3, <1>4 DEF RoutingInv

LEMMA RoutingNext == RoutingInv /\ [Next]_vars => RoutingInv'
<1> SUFFICES ASSUME RoutingInv, [Next]_vars
             PROVE  RoutingInv'
  OBVIOUS
<1>1. CASE CoreStep
  BY <1>1, CoreReadKeeps, CoreWriteKeeps, CoreDropsKeeps DEF CoreStep
<1>2. ASSUME NEW f \in FrontEnd, FrontStep(f)
      PROVE  RoutingInv'
  BY <1>2, ClearReadKeeps, ClearDoneKeeps, SendKeeps, HttpReadKeeps,
     MidnetReadKeeps, GiveUpKeeps DEF FrontStep
<1>3. ASSUME NEW f \in FrontEnd, Request(f)
      PROVE  RoutingInv'
  BY <1>3, RequestKeeps
<1>4. ASSUME NEW f \in FrontEnd, Die(f)
      PROVE  RoutingInv'
  BY <1>4, CrashKeeps DEF Die
<1>5. CASE UNCHANGED vars
  BY <1>5 DEF vars, pipes, coreVars, frontVars,
              RoutingInv, HistoryInv, PipeInv, CoreInv, FrontInv
<1> QED BY <1>1, <1>2, <1>3, <1>4, <1>5 DEF Next

LEMMA RoutingHolds == Spec => []RoutingInv
BY RoutingInit, RoutingNext, PTL DEF Spec

\* The tokens of a text of f come from f.
LEMMA OwnComesFrom ==
    ASSUME NEW f, NEW text \in Seq(Own(reqs, f))
    PROVE  ComesFrom(f, text)
BY ElementOfSeq, LenProperties DEF ComesFrom, Own

\* What the core has buffered came from the only front end it then watches,
\* for all constants: the FD_CLR of midas.c:469-477 is enough.
THEOREM BufferIsPure == Spec => []BufferFromOneFrontEnd
<1>1. RoutingInv => BufferFromOneFrontEnd
  BY OwnComesFrom DEF RoutingInv, CoreInv, BufferFromOneFrontEnd
<1> QED BY <1>1, RoutingHolds, PTL

\* An answer, or a piece of it, only ever goes to the front end whose request
\* it answers, for all constants: current_wfd is assigned early enough.
THEOREM RepliesAreRouted == Spec => []ReplyRouting
<1>1. RoutingInv => ReplyRouting
  <2> SUFFICES ASSUME RoutingInv
               PROVE  ReplyRouting
    OBVIOUS
  <2>1. \A f \in FrontEnd : ComesFrom(f, toFront[f]) /\ ComesFrom(f, inbuf[f])
    BY OwnComesFrom DEF RoutingInv, PipeInv, FrontInv
  <2>2. \A n \in DOMAIN pending : ComesFrom(current, pending[n])
    BY OwnComesFrom, ElementOfSeq, LenProperties DEF RoutingInv, CoreInv
  <2> QED BY <2>1, <2>2 DEF ReplyRouting
<1> QED BY <1>1, RoutingHolds, PTL
-----------------------------------------------------------------------------
(* Requests stay whole and are executed at most once.                      *)
(*                                                                         *)
(* Stream(f) is what is left of the requests of f on their way: what the   *)
(* core has buffered of them, what is in the pipe, what f has to write.    *)
(* Cancelled, overflowing and dropped requests take something off the      *)
(* front of it, the death of f off its end, and the front end adds to the  *)
(* end.  So what follows a command or a word in it is the text of its      *)
(* request as far as the stream goes, and what follows that text is later; *)
(* and what the core accepts starts with a command or a word.              *)

Opens(token) == token.sym \in {"list", "get", "put", "word"}
TextOf(r, id) == RequestText(id, r[id].op, r[id].w)

\* The text of a request from its command on, or what remains from its word on.
TextFrom(r, token) ==
    IF token.sym = "word" THEN <<Term(r[token.id].w, token.id), Nl(token.id), Nl(token.id)>>
    ELSE TextOf(r, token.id)

\* After its command, or its word, a request goes on as far as the stream goes.
Follows(r, s) ==
    \A k \in 1..Len(s) : Opens(s[k]) =>
        \A j \in 1..Len(TextFrom(r, s[k])) :
            k + j - 1 <= Len(s) => s[k + j - 1] = TextFrom(r, s[k])[j]

\* No request breaks off at the end of the stream.
Complete(r, s) == 
    \A k \in 1..Len(s) : Opens(s[k]) => k + Len(TextFrom(r, s[k])) - 1 <= Len(s)

\* After its text come later requests.
Increasing(r, s) ==
    \A k, l \in 1..Len(s) :
        (Opens(s[k]) /\ Opens(s[l]) /\ k + Len(TextFrom(r, s[k])) <= l) => s[k].id < s[l].id

Above(s, n) == \A k \in 1..Len(s) : Opens(s[k]) => n < s[k].id
Below(s, n) == \A k \in 1..Len(s) : Opens(s[k]) => s[k].id < n


\* What a stream of a front end satisfies when the front end is at place, with
\* the request id.
Flow(r, s, place, id) ==
    /\ Follows(r, s)
    /\ Increasing(r, s)
    /\ place # "down" => Complete(r, s)
    /\ place = "clear" => Below(s, id)

Held(f) == IF watched = {f} THEN buffer ELSE <<>>

\* The writes of the request f serves, and how many of them are made.
PiecesOf(r, f, id) == RequestPieces(f, id, r[id].op, r[id].w)
Pieces(f) == PiecesOf(reqs, f, cur[f])
Made(f) == Len(Pieces(f)) - Len(out[f])

\* What is left to write of request id after m writes.
LeftOf(r, f, id, m) ==
    IF m = Len(PiecesOf(r, f, id)) THEN <<>>
    ELSE SubSeq(TextOf(r, id), IF m = 0 THEN 1 ELSE m + 2, Len(TextOf(r, id)))
Unsent(f) == IF pc[f] = "send" THEN LeftOf(reqs, f, cur[f], Made(f)) ELSE <<>>

Stream(f) == (Held(f) \o toCore[f]) \o Unsent(f)

Sending(f) ==
    pc[f] = "send" =>
        /\ reqs[cur[f]].op # "local"
        /\ Made(f) \in 0..(Len(Pieces(f)) - 1)
        /\ out[f] = SubSeq(Pieces(f), Made(f) + 1, Len(Pieces(f)))

StreamInv(f) == Flow(reqs, Stream(f), pc[f], cur[f]) /\ Sending(f)

\* What is executed as the text of a request, whole, or as the command list
\* that remains of it.
AllOf(r, text, id) == text \o <<Nl(id), Nl(id)>> = TextOf(r, id)
Remains(r, text, id) ==
    text = <<Term(ListWord, id)>> /\ r[id].op \in {"get", "put"} /\ r[id].w = ListWord

\* What is logged of f: text, and what it says of what is to come.
Logged(r, entry, s, place, id) ==
    LET old == entry.text[1].id
    IN  /\ old \in DOMAIN r
        /\ r[old].from = entry.from
        /\ \/ AllOf(r, entry.text, old)
           \/ entry.as = "list" /\ Remains(r, entry.text, old)
        /\ Above(s, old)
        /\ place = "clear" => old < id

LogInv ==
    /\ log \in Seq([from : FrontEnd, text : Seq(Token), as : Kind])
    /\ \A n \in 1..Len(log) :
         \A f \in FrontEnd : log[n].from = f => Logged(reqs, log[n], Stream(f), pc[f], cur[f])
    /\ \A m, n \in 1..Len(log) :
         (m < n /\ log[m].from = log[n].from) => log[m].text[1].id < log[n].text[1].id

RequestInv == RoutingInv /\ (\A f \in FrontEnd : StreamInv(f)) /\ LogInv
-----------------------------------------------------------------------------
(* The text of a request, and streams of such texts.                       *)

LEMMA TextLength ==
    ASSUME NEW r, NEW id
    PROVE  Len(TextOf(r, id)) = IF r[id].op = "list" THEN 3 ELSE 5
<1>1. CASE r[id].op = "list"
  <2>1. TextOf(r, id) = <<Mark("list", id), Nl(id), Nl(id)>>
    BY <1>1 DEF TextOf, RequestText
  <2> QED BY <1>1, <2>1
<1>2. CASE r[id].op # "list"
  <2>1. TextOf(r, id) = <<Mark(r[id].op, id), Nl(id), Term(r[id].w, id), Nl(id), Nl(id)>>
    BY <1>2 DEF TextOf, RequestText
  <2> QED BY <1>2, <2>1
<1> QED BY <1>1, <1>2

LEMMA FromLength ==
    ASSUME NEW r, NEW token
    PROVE  Len(TextFrom(r, token)) \in {3, 5}
<1>1. CASE token.sym = "word"
  <2>1. TextFrom(r, token) = <<Term(r[token.id].w, token.id), Nl(token.id), Nl(token.id)>>
    BY <1>1 DEF TextFrom
  <2> QED BY <2>1
<1>2. CASE token.sym # "word"
  BY <1>2, TextLength DEF TextFrom
<1> QED BY <1>1, <1>2

\* A text begins with its command, may have a word, and bears its id.
LEMMA TextProperties ==
    ASSUME NEW r \in Seq(RequestRecord), Len(r) <= MaxReq,
           NEW id \in DOMAIN r, r[id].op # "local"
    PROVE  /\ TextOf(r, id) \in Seq(Own(r, r[id].from))
           /\ TextOf(r, id) \in Seq(Token)
           /\ \A j \in 1..Len(TextOf(r, id)) :
                 /\ TextOf(r, id)[j].id = id
                 /\ Opens(TextOf(r, id)[j]) => j = 1 \/ (j = 3 /\ r[id].op # "list")
<1> DEFINE S == Own(r, r[id].from)
           T == TextOf(r, id)
<1>1. r[id] \in RequestRecord
  BY ElementOfSeq, LenProperties
<1>2. CASE r[id].op = "list"
  <2>1. T = <<Mark("list", id), Nl(id), Nl(id)>>
    BY <1>2 DEF TextOf, RequestText
  <2>2. Mark("list", id) \in S /\ Nl(id) \in S
    BY MarksAreOwn DEF Symbol
  <2>3. Nl(id).id = id /\ ~Opens(Nl(id)) /\ Mark("list", id).id = id
    BY DEF Nl, Mark, Opens
  <2> HIDE DEF S, T
  <2>4. T \in Seq(S)
    BY <2>1, <2>2
  <2>5. \A j \in 1..Len(T) : T[j].id = id /\ (Opens(T[j]) => j = 1)
    BY <2>1, <2>3
  <2>6. T \in Seq(Token)
    BY <2>4, OwnTextIsText DEF S
  <2> QED BY <2>4, <2>5, <2>6 DEF S, T
<1>3. CASE r[id].op # "list"
  <2>1. r[id].op \in {"get", "put"} /\ r[id].w \in Word
    BY <1>1, <1>3 DEF RequestRecord
  <2>2. T = <<Mark(r[id].op, id), Nl(id), Term(r[id].w, id), Nl(id), Nl(id)>>
    BY <1>3 DEF TextOf, RequestText
  <2>3. Mark(r[id].op, id) \in S /\ Nl(id) \in S /\ Term(r[id].w, id) \in S
    BY <2>1, MarksAreOwn DEF Symbol
  <2>4. /\ Nl(id).id = id /\ ~Opens(Nl(id)) /\ Mark(r[id].op, id).id = id
        /\ Term(r[id].w, id).id = id
    BY DEF Nl, Mark, Term, Opens
  <2> HIDE DEF S, T
  <2>5. T \in Seq(S)
    BY <2>2, <2>3
  <2>6. \A j \in 1..Len(T) : T[j].id = id /\ (Opens(T[j]) => j = 1 \/ j = 3)
    BY <2>2, <2>4
  <2>7. T \in Seq(Token)
    BY <2>5, OwnTextIsText DEF S
  <2> QED BY <1>3, <2>5, <2>6, <2>7 DEF S, T
<1> QED BY <1>2, <1>3

\* What is left when something is taken off the front of a stream.
LEMMA DropFront ==
    ASSUME NEW S, NEW d \in Seq(S), NEW s \in Seq(S), NEW r, NEW t, t = d \o s,
           NEW place, NEW id
    PROVE  /\ Flow(r, t, place, id) => Flow(r, s, place, id)
           /\ \A n \in Int : Above(t, n) => Above(s, n)
<1>1. /\ Len(d) \in Nat /\ Len(s) \in Nat /\ Len(t) = Len(d) + Len(s)
      /\ \A k \in 1..Len(s) : /\ Len(d) + k \in 1..Len(t)
                              /\ t[Len(d) + k] = s[k]
  <2>1. /\ Len(d) \in Nat /\ Len(s) \in Nat /\ Len(t) = Len(d) + Len(s)
        /\ \A i \in 1..(Len(d) + Len(s)) :
               t[i] = IF i <= Len(d) THEN d[i] ELSE s[i - Len(d)]
    BY ConcatProperties, LenProperties
  <2> QED BY <2>1
<1>2. \A n \in Int : Above(t, n) => Above(s, n)
  BY <1>1 DEF Above
<1>3. Below(t, id) => Below(s, id)
  BY <1>1 DEF Below
<1>4. Increasing(r, t) => Increasing(r, s)
  <2> SUFFICES ASSUME Increasing(r, t), NEW k \in 1..Len(s), NEW l \in 1..Len(s),
                      Opens(s[k]), Opens(s[l]), k + Len(TextFrom(r, s[k])) <= l
               PROVE  s[k].id < s[l].id
    BY DEF Increasing
  <2>1. Len(TextFrom(r, s[k])) \in Int
    BY FromLength
  <2>2. (Len(d) + k) + Len(TextFrom(r, s[k])) <= Len(d) + l
    BY <1>1, <2>1
  <2>3. /\ Len(d) + k \in 1..Len(t) /\ t[Len(d) + k] = s[k]
        /\ Len(d) + l \in 1..Len(t) /\ t[Len(d) + l] = s[l]
    BY <1>1
  <2> QED BY <2>2, <2>3 DEF Increasing
<1>5. Complete(r, t) => Complete(r, s)
  <2> SUFFICES ASSUME Complete(r, t), NEW k \in 1..Len(s), Opens(s[k])
               PROVE  k + Len(TextFrom(r, s[k])) - 1 <= Len(s)
    BY DEF Complete
  <2>1. Len(TextFrom(r, s[k])) \in Int
    BY FromLength
  <2>2. Len(d) + k + Len(TextFrom(r, s[k])) - 1 <= Len(t)
    BY <1>1 DEF Complete
  <2> QED BY <1>1, <2>1, <2>2
<1>6. Follows(r, t) => Follows(r, s)
  <2> SUFFICES ASSUME Follows(r, t), NEW k \in 1..Len(s), Opens(s[k]),
                      NEW j \in 1..Len(TextFrom(r, s[k])), k + j - 1 <= Len(s)
               PROVE  s[k + j - 1] = TextFrom(r, s[k])[j]
    BY DEF Follows
  <2>1. Len(TextFrom(r, s[k])) \in Int
    BY FromLength
  <2>2. k + j - 1 \in 1..Len(s)
    BY <1>1, <2>1
  <2> DEFINE here == Len(d) + k
  <2>3. here \in 1..Len(t) /\ t[here] = s[k]
    BY <1>1
  <2>4. here + j - 1 = Len(d) + (k + j - 1)
    BY <1>1, <2>1
  <2>5. t[here + j - 1] = s[k + j - 1] /\ here + j - 1 <= Len(t)
    BY <1>1, <2>2, <2>4
  <2> HIDE DEF here
  <2>6. \A i \in 1..Len(TextFrom(r, t[here])) :
            here + i - 1 <= Len(t) => t[here + i - 1] = TextFrom(r, t[here])[i]
    BY <2>3 DEF Follows
  <2>7. t[here + j - 1] = TextFrom(r, s[k])[j]
    BY <2>3, <2>5, <2>6
  <2> QED BY <2>5, <2>7
<1> QED BY <1>2, <1>3, <1>4, <1>5, <1>6 DEF Flow

\* What is left when its end is lost.
LEMMA DropEnd ==
    ASSUME NEW S, NEW e \in Seq(S), NEW s \in Seq(S), NEW r, NEW t, t = s \o e
    PROVE  /\ \A place, id, any : Flow(r, t, place, id) => Flow(r, s, "down", any)
           /\ \A n \in Int : Above(t, n) => Above(s, n)
<1>1. /\ Len(s) \in Nat /\ Len(s) <= Len(t) /\ Len(t) \in Nat
      /\ \A k \in 1..Len(s) : k \in 1..Len(t) /\ t[k] = s[k]
  <2>1. /\ Len(e) \in Nat /\ Len(s) \in Nat /\ Len(t) = Len(s) + Len(e)
        /\ \A i \in 1..(Len(s) + Len(e)) :
               t[i] = IF i <= Len(s) THEN s[i] ELSE e[i - Len(s)]
    BY ConcatProperties, LenProperties
  <2> QED BY <2>1
<1>2. \A n \in Int : Above(t, n) => Above(s, n)
  BY <1>1 DEF Above
<1>3. Increasing(r, t) => Increasing(r, s)
  BY <1>1 DEF Increasing
<1>4. Follows(r, t) => Follows(r, s)
  <2> SUFFICES ASSUME Follows(r, t), NEW k \in 1..Len(s), Opens(s[k]),
                      NEW j \in 1..Len(TextFrom(r, s[k])), k + j - 1 <= Len(s)
               PROVE  s[k + j - 1] = TextFrom(r, s[k])[j]
    BY DEF Follows
  <2>1. Len(TextFrom(r, s[k])) \in Int
    BY FromLength
  <2>2. k + j - 1 \in 1..Len(s) /\ k + j - 1 <= Len(t)
    BY <1>1, <2>1
  <2>3. \A i \in 1..Len(TextFrom(r, t[k])) :
            k + i - 1 <= Len(t) => t[k + i - 1] = TextFrom(r, t[k])[i]
    BY <1>1 DEF Follows
  <2>4. t[k + j - 1] = TextFrom(r, s[k])[j]
    BY <1>1, <2>2, <2>3
  <2> QED BY <1>1, <2>2, <2>4
<1> QED BY <1>2, <1>3, <1>4 DEF Flow

\* A front end that starts to write a request adds all its text to the stream.
LEMMA AppendText ==
    ASSUME NEW r \in Seq(RequestRecord), Len(r) <= MaxReq,
           NEW id \in DOMAIN r, r[id].op # "local",
           NEW s \in Seq(Token), Flow(r, s, "clear", id),
           NEW t, t = s \o TextOf(r, id)
    PROVE  /\ Flow(r, t, "send", id)
           /\ \A n \in Int : Above(s, n) /\ n < id => Above(t, n)
<1> DEFINE T == TextOf(r, id)
           From(k) == TextFrom(r, t[k])
<1>1. id \in Nat /\ Len(T) \in Nat
  BY LenProperties, TextProperties
<1>2. \A j \in 1..Len(T) : T[j].id = id /\ (Opens(T[j]) => j = 1 \/ (j = 3 /\ Len(T) = 5))
  BY TextProperties, TextLength
<1>l. Len(T) = (IF r[id].op = "list" THEN 3 ELSE 5) /\ \A k : Len(From(k)) \in {3, 5}
  BY TextLength, FromLength
<1>3. /\ Len(s) \in Nat /\ Len(t) = Len(s) + Len(T)
      /\ \A k \in 1..Len(s) : t[k] = s[k]
      /\ \A k \in (Len(s) + 1)..Len(t) : t[k] = T[k - Len(s)]
  <2>1. /\ Len(s) \in Nat /\ Len(t) = Len(s) + Len(T)
        /\ \A i \in 1..(Len(s) + Len(T)) :
               t[i] = IF i <= Len(s) THEN s[i] ELSE T[i - Len(s)]
    BY TextProperties, ConcatProperties, LenProperties
  <2> HIDE DEF T
  <2> QED BY <1>1, <2>1
\* A token that opens a text is in s, the command of T, or its word.
<1>4. ASSUME NEW k \in 1..Len(t), Opens(t[k])
      PROVE  \/ k \in 1..Len(s) /\ t[k] = s[k] /\ Opens(s[k]) /\ s[k].id < id
             \/ k = Len(s) + 1 /\ t[k].id = id
             \/ k = Len(s) + 3 /\ t[k].id = id /\ Len(T) = 5
  <2> HIDE DEF T
  <2>1. CASE k <= Len(s)
    BY <1>3, <1>4, <2>1 DEF Flow, Below
  <2>2. CASE k > Len(s)
    <3>1. k - Len(s) \in 1..Len(T) /\ t[k] = T[k - Len(s)]
      BY <1>1, <1>3, <2>2
    <3>2. t[k].id = id /\ (k - Len(s) = 1 \/ (k - Len(s) = 3 /\ Len(T) = 5))
      BY <1>2, <1>4, <3>1
    <3> QED BY <1>3, <3>2
  <2> QED BY <1>3, <2>1, <2>2
\* In T the rest of its text follows it, and ends with T.
<1>5. ASSUME NEW k \in 1..Len(t), Opens(t[k]), k > Len(s)
      PROVE  /\ t[k].id = id
             /\ k + Len(From(k)) - 1 = Len(t)
             /\ \A j \in 1..Len(From(k)) : t[k + j - 1] = From(k)[j]
  <2>1. PICK m \in {1, 3} : k = Len(s) + m /\ t[k].id = id /\ (m = 3 => Len(T) = 5)
    <3> HIDE DEF T, From
    <3> QED BY <1>3, <1>4, <1>5
  <2>2. m \in 1..Len(T) /\ t[k] = T[m]
    <3> HIDE DEF T
    <3> QED BY <1>l, <1>3, <1>5, <2>1
  <2>3. /\ Len(From(k)) = Len(T) - m + 1
        /\ \A j \in 1..Len(From(k)) : From(k)[j] = T[m + j - 1]
    <3>1. CASE m = 1
      <4>1. T[1].sym = r[id].op /\ r[id] \in RequestRecord
        BY ElementOfSeq, LenProperties DEF TextOf, RequestText, Mark
      <4>2. t[k].sym # "word"
        BY <2>2, <3>1, <4>1 DEF RequestRecord
      <4>3. From(k) = T
        BY <2>1, <4>2 DEF TextFrom
      <4> HIDE DEF T, From
      <4> QED BY <1>1, <3>1, <4>3
    <3>2. CASE m = 3
      <4>1. r[id].op # "list"
        <5> HIDE DEF T
        <5> QED BY <1>l, <2>1, <3>2
      <4>2. T = <<Mark(r[id].op, id), Nl(id), Term(r[id].w, id), Nl(id), Nl(id)>>
        BY <4>1 DEF TextOf, RequestText
      <4>3. t[k].sym = "word"
        BY <2>2, <3>2, <4>2 DEF Term
      <4>4. From(k) = <<Term(r[id].w, id), Nl(id), Nl(id)>>
        BY <2>1, <4>3 DEF TextFrom
      <4> HIDE DEF T, From
      <4> QED BY <3>2, <4>2, <4>4
    <3> QED BY <2>1, <3>1, <3>2
  <2>4. \A j \in 1..Len(From(k)) : t[k + j - 1] = From(k)[j]
    <3> SUFFICES ASSUME NEW j \in 1..Len(From(k))
                 PROVE  t[k + j - 1] = From(k)[j]
      OBVIOUS
    <3>1. k + j - 1 \in (Len(s) + 1)..Len(t) /\ (k + j - 1) - Len(s) = m + j - 1
      <4> DEFINE a == Len(s)
                 b == Len(T)
                 c == Len(From(k))
      <4>1. /\ a \in Nat /\ b \in Nat /\ Len(t) = a + b /\ k = a + m /\ m \in Nat /\ m >= 1
            /\ c = b - m + 1 /\ j \in 1..c
        BY <1>1, <1>3, <2>1, <2>3
      <4> HIDE DEF a, b, c
      <4>2. k + j - 1 \in (a + 1)..Len(t) /\ (k + j - 1) - a = m + j - 1
        BY ONLY <4>1
      <4> QED BY <4>2 DEF a
    <3>2. t[k + j - 1] = T[m + j - 1]
      <4> HIDE DEF T
      <4> QED BY <1>3, <3>1
    <3> QED BY <2>3, <3>2
  <2>5. k + Len(From(k)) - 1 = Len(t)
    <3> DEFINE a == Len(s)
               b == Len(T)
               c == Len(From(k))
               d == Len(t)
    <3>1. a \in Nat /\ b \in Nat /\ d = a + b /\ k = a + m /\ m \in Nat /\ c = b - m + 1
      BY <1>1, <1>3, <2>1, <2>3
    <3> HIDE DEF a, b, c, d
    <3>2. k + c - 1 = d
      BY ONLY <3>1
    <3> QED BY <3>2 DEF c, d
  <2> QED BY <2>1, <2>4, <2>5
<1> HIDE DEF T, From
<1>6. \A n \in Int : Above(s, n) /\ n < id => Above(t, n)
  <2> SUFFICES ASSUME NEW n \in Int, Above(s, n), n < id,
                      NEW k \in 1..Len(t), Opens(t[k])
               PROVE  n < t[k].id
    BY DEF Above
  <2> QED BY <1>4 DEF Above
<1>7. ASSUME NEW k \in 1..Len(t), Opens(t[k]), k <= Len(s)
      PROVE  /\ k \in 1..Len(s) /\ t[k] = s[k] /\ Opens(s[k]) /\ s[k].id < id
             /\ Len(From(k)) \in Int
             /\ k + Len(From(k)) - 1 <= Len(s)
             /\ \A j \in 1..Len(From(k)) : t[k + j - 1] = From(k)[j]
  <2>1. k \in 1..Len(s) /\ t[k] = s[k] /\ Opens(s[k]) /\ s[k].id < id
    BY <1>3, <1>4, <1>7
  <2>2. Len(From(k)) \in Int
    BY <1>l
  <2>3. k + Len(From(k)) - 1 <= Len(s)
    BY <2>1 DEF Flow, Complete, From
  <2>4. \A j \in 1..Len(From(k)) : k + j - 1 <= Len(s) => s[k + j - 1] = From(k)[j]
    BY <2>1 DEF Flow, Follows, From
  <2>5. \A j \in 1..Len(From(k)) : k + j - 1 \in 1..Len(s) /\ k + j - 1 <= Len(s)
    BY <1>3, <2>1, <2>2, <2>3
  <2>6. \A j \in 1..Len(From(k)) : t[k + j - 1] = From(k)[j]
    BY <1>3, <2>4, <2>5
  <2> QED BY <2>1, <2>2, <2>3, <2>6
<1>8. Increasing(r, t)
  <2> SUFFICES ASSUME NEW k \in 1..Len(t), NEW l \in 1..Len(t),
                      Opens(t[k]), Opens(t[l]), k + Len(From(k)) <= l
               PROVE  t[k].id < t[l].id
    BY DEF Increasing, From
  <2>1. CASE k > Len(s)
    <3>1. k + Len(From(k)) - 1 = Len(t)
      BY <1>5, <2>1
    <3>2. Len(From(k)) \in Int
      BY <1>l
    <3> QED BY <1>1, <1>3, <3>1, <3>2
  <2>2. CASE k <= Len(s) /\ l > Len(s)
    <3>1. t[k].id < id
      BY <1>7, <2>2
    <3>2. t[l].id = id
      BY <1>5, <2>2
    <3> QED BY <3>1, <3>2
  <2>3. CASE k <= Len(s) /\ l <= Len(s)
    <3>1. k \in 1..Len(s) /\ t[k] = s[k] /\ l \in 1..Len(s) /\ t[l] = s[l]
      BY <1>7, <2>3
    <3> QED BY <3>1 DEF Flow, Increasing, From
  <2> QED BY <1>3, <2>1, <2>2, <2>3
<1>9. ASSUME NEW k \in 1..Len(t), Opens(t[k])
      PROVE  /\ k + Len(From(k)) - 1 <= Len(t)
             /\ \A j \in 1..Len(From(k)) : t[k + j - 1] = From(k)[j]
  <2>1. CASE k > Len(s)
    <3>1. /\ k + Len(From(k)) - 1 = Len(t)
          /\ \A j \in 1..Len(From(k)) : t[k + j - 1] = From(k)[j]
      BY <1>5, <1>9, <2>1
    <3>2. Len(t) \in Nat
      BY <1>1, <1>3
    <3> QED BY <3>1, <3>2
  <2>2. CASE k <= Len(s)
    <3>1. /\ Len(From(k)) \in Int /\ k + Len(From(k)) - 1 <= Len(s)
          /\ \A j \in 1..Len(From(k)) : t[k + j - 1] = From(k)[j]
      BY <1>7, <1>9, <2>2
    <3>2. Len(t) \in Nat /\ Len(s) \in Nat /\ Len(s) <= Len(t)
      BY <1>1, <1>3
    <3>3. k + Len(From(k)) - 1 <= Len(t)
      BY <3>1, <3>2
    <3> QED BY <3>1, <3>3
  <2>3. k > Len(s) \/ k <= Len(s)
    BY <1>3
  <2> QED BY <2>1, <2>2, <2>3
<1>10. Complete(r, t) /\ Follows(r, t)
  <2>1. Complete(r, t)
    BY <1>9 DEF Complete, From
  <2>2. Follows(r, t)
    BY <1>9 DEF Follows, From
  <2> QED BY <2>1, <2>2
<1> QED BY <1>6, <1>8, <1>10 DEF Flow

\* A new request changes nothing of the texts of the others.
LEMMA GrowHistory ==
    ASSUME NEW R, NEW r \in Seq(R), NEW q \in R, NEW f, NEW s \in Seq(Own(r, f)),
           NEW new, new = Append(r, q)
    PROVE  /\ \A place, id : Flow(r, s, place, id) => Flow(new, s, place, id)
           /\ \A place, id : Flow(r, s, place, id) /\ place # "down"
                                 => Flow(new, s, "clear", Len(r) + 1)
<1>1. /\ Len(r) \in Nat
      /\ \A i \in DOMAIN r : i \in 1..Len(r) /\ new[i] = r[i]
  BY AppendProperties, LenProperties
<1>2. \A k \in 1..Len(s) : s[k].id \in DOMAIN r
  BY ElementOfSeq DEF Own
<1>3. \A k \in 1..Len(s) : /\ TextFrom(new, s[k]) = TextFrom(r, s[k])
                          /\ s[k].id < Len(r) + 1
  <2> SUFFICES ASSUME NEW k \in 1..Len(s)
               PROVE  /\ TextFrom(new, s[k]) = TextFrom(r, s[k])
                      /\ s[k].id < Len(r) + 1
    OBVIOUS
  <2>1. new[s[k].id] = r[s[k].id] /\ s[k].id < Len(r) + 1
    BY <1>1, <1>2
  <2> QED BY <2>1 DEF TextFrom, TextOf
<1>4. Below(s, Len(r) + 1)
  BY <1>3 DEF Below
<1>5. Follows(r, s) => Follows(new, s)
  BY <1>3 DEF Follows
<1>6. Complete(r, s) => Complete(new, s)
  BY <1>3 DEF Complete
<1>7. Increasing(r, s) => Increasing(new, s)
  BY <1>3 DEF Increasing
<1> QED BY <1>4, <1>5, <1>6, <1>7 DEF Flow
-----------------------------------------------------------------------------
(* What execute_request() accepts.                                         *)

\* The mark is at the first place of a text with two line feeds in a row.
LEMMA EndOfTextIsFirst ==
    ASSUME NEW S, NEW text \in Seq(S), EndOfText(text) # 0
    PROVE  /\ EndOfText(text) \in 1..(Len(text) - 1)
           /\ \A i \in 1..(Len(text) - 1) :
                  text[i].sym = "nl" /\ text[i + 1].sym = "nl" => EndOfText(text) <= i
<1> DEFINE ends == {i \in 1..(Len(text) - 1) :
                       text[i].sym = "nl" /\ text[i + 1].sym = "nl"}
<1>1. /\ ends \subseteq 1..(Len(text) - 1) /\ ends \subseteq Nat
      /\ \A i \in 1..(Len(text) - 1) :
             text[i].sym = "nl" /\ text[i + 1].sym = "nl" => i \in ends
  OBVIOUS
<1>2. EndOfText(text) = IF ends = {} THEN 0 ELSE Min(ends)
  BY DEF EndOfText
<1> HIDE DEF ends
<1>3. ends # {} /\ EndOfText(text) = Min(ends)
  BY <1>2
<1>4. Min(ends) \in ends /\ \A i \in ends : Min(ends) <= i
  BY <1>1, <1>3, LeastElement
<1> QED BY <1>1, <1>3, <1>4

\* The command of a text says what the request is.
LEMMA CommandOfText ==
    ASSUME NEW r, NEW id
    PROVE  TextOf(r, id)[1].sym = r[id].op
<1>1. CASE r[id].op = "list"
  <2>1. TextOf(r, id) = <<Mark("list", id), Nl(id), Nl(id)>>
    BY <1>1 DEF TextOf, RequestText
  <2>2. TextOf(r, id)[1] = Mark("list", id)
    BY <2>1
  <2> QED BY <1>1, <2>2 DEF Mark
<1>2. CASE r[id].op # "list"
  <2>1. TextOf(r, id) = <<Mark(r[id].op, id), Nl(id), Term(r[id].w, id), Nl(id), Nl(id)>>
    BY <1>2 DEF TextOf, RequestText
  <2>2. TextOf(r, id)[1] = Mark(r[id].op, id)
    BY <2>1
  <2> QED BY <2>2 DEF Mark
<1> QED BY <1>1, <1>2

LEMMA ConcatPairToOne ==
    ASSUME NEW a, NEW d
    PROVE  <<a>> \o <<d, d>> = <<a, d, d>>
<1> DEFINE S == {a, d}
<1>1. <<a>> \in Seq(S) /\ <<d, d>> \in Seq(S) /\ <<a, d, d>> \in Seq(S)
  OBVIOUS
<1> HIDE DEF S
<1>2. /\ <<a>> \o <<d, d>> \in Seq(S) /\ Len(<<a>> \o <<d, d>>) = 3
      /\ \A i \in 1..3 : (<<a>> \o <<d, d>>)[i] = <<a, d, d>>[i]
  BY <1>1, ConcatProperties
<1> QED BY <1>1, <1>2, SeqEqual

LEMMA ConcatPairToThree ==
    ASSUME NEW a, NEW b, NEW c, NEW d
    PROVE  <<a, b, c>> \o <<d, d>> = <<a, b, c, d, d>>
<1> DEFINE S == {a, b, c, d}
<1>1. <<a, b, c>> \in Seq(S) /\ <<d, d>> \in Seq(S) /\ <<a, b, c, d, d>> \in Seq(S)
  OBVIOUS
<1> HIDE DEF S
<1>2. /\ <<a, b, c>> \o <<d, d>> \in Seq(S) /\ Len(<<a, b, c>> \o <<d, d>>) = 5
      /\ \A i \in 1..5 : (<<a, b, c>> \o <<d, d>>)[i] = <<a, b, c, d, d>>[i]
  BY <1>1, ConcatProperties
<1> QED BY <1>1, <1>2, SeqEqual

\* t begins with text, a mark that is its first, and all it has of request id.
BeginsWith(r, id, text, t) ==
    /\ Len(t) >= Len(text) + 2
    /\ \A i \in 1..Len(text) : t[i] = text[i]
    /\ \A i \in 1..Len(text) : ~(t[i].sym = "nl" /\ t[i + 1].sym = "nl")
    /\ \A j \in 1..Len(TextOf(r, id)) : j <= Len(t) => t[j] = TextOf(r, id)[j]

\* Then text is all of that request.
LEMMA TextBeforeMark ==
    ASSUME NEW r, NEW id, NEW text \in Seq(Token), Accepted(text), text[1].sym # "word",
           NEW t \in Seq(Token), BeginsWith(r, id, text, t)
    PROVE  /\ text[1].sym = r[id].op
           /\ text \o <<Nl(id), Nl(id)>> = TextOf(r, id)
<1> DEFINE T == TextOf(r, id)
<1>1. Len(text) \in Nat /\ Len(t) \in Nat
  BY LenProperties
<1>2. Len(text) >= 1 /\ Len(t) >= Len(text) + 2
  BY <1>1 DEF BeginsWith, Accepted, IsList, IsCall
<1>3. T[1].sym = r[id].op /\ Len(T) = IF r[id].op = "list" THEN 3 ELSE 5
  BY TextLength, CommandOfText
<1>4. /\ \A i \in 1..Len(text) : t[i] = text[i]
      /\ \A i \in 1..Len(text) : ~(t[i].sym = "nl" /\ t[i + 1].sym = "nl")
      /\ \A j \in 1..Len(T) : j <= Len(t) => t[j] = T[j]
  BY DEF BeginsWith
<1> HIDE DEF T
<1>5. text[1] = t[1] /\ t[1] = T[1]
  BY <1>1, <1>2, <1>3, <1>4
<1>6. text[1].sym = r[id].op
  BY <1>3, <1>5
<1>7. CASE r[id].op = "list"
  <2>1. Len(text) = 1
    BY <1>6, <1>7 DEF Accepted, IsList, IsCall
  <2>2. T = <<Mark("list", id), Nl(id), Nl(id)>>
    BY <1>7 DEF TextOf, RequestText, T
  <2>3. text[1] = Mark("list", id)
    BY <1>5, <2>2
  <2>4. text = <<Mark("list", id)>>
    BY <2>1, <2>3
  <2>5. text \o <<Nl(id), Nl(id)>> = T
    <3>1. <<Mark("list", id)>> \o <<Nl(id), Nl(id)>> = <<Mark("list", id), Nl(id), Nl(id)>>
      BY ConcatPairToOne, Zenon
    <3> QED BY <2>2, <2>4, <3>1
  <2> QED BY <1>6, <2>5 DEF T
<1>8. CASE r[id].op # "list"
  <2>1. Len(text) > 2
    BY <1>6, <1>8 DEF Accepted, IsList, IsCall, SpellsList
  <2>2. T = <<Mark(r[id].op, id), Nl(id), Term(r[id].w, id), Nl(id), Nl(id)>>
    BY <1>8 DEF TextOf, RequestText, T
  <2>3. /\ T[1] = Mark(r[id].op, id) /\ T[2] = Nl(id)
        /\ T[3] = Term(r[id].w, id) /\ T[4] = Nl(id) /\ T[5] = Nl(id)
    BY <2>2
  <2>4. Len(T) = 5 /\ Len(t) >= 5
    BY <1>1, <1>2, <1>3, <1>8, <2>1
  <2>5. \A j \in 1..5 : t[j] = T[j]
    BY <1>1, <1>4, <2>4
  <2>6. t[4].sym = "nl" /\ t[5].sym = "nl"
    BY <2>3, <2>5 DEF Nl, Mark
  <2>7. Len(text) = 3
    <3>1. CASE Len(text) > 3
      <4>1. 4 \in 1..Len(text) /\ 4 + 1 = 5
        BY <1>1, <3>1
      <4> QED BY <1>4, <2>6, <4>1
    <3>2. \A n \in Nat : n > 2 /\ (n > 3 => n = 3) => n = 3
      OBVIOUS
    <3> QED BY <1>1, <2>1, <3>1, <3>2, Zenon
  <2>8. text[1] = Mark(r[id].op, id) /\ text[2] = Nl(id) /\ text[3] = Term(r[id].w, id)
    BY <1>4, <2>3, <2>5, <2>7
  <2>9. text = <<Mark(r[id].op, id), Nl(id), Term(r[id].w, id)>>
    BY <2>7, <2>8
  <2>10. text \o <<Nl(id), Nl(id)>> = T
    <3>1. <<T[1], T[2], T[3]>> \o <<Nl(id), Nl(id)>> = <<T[1], T[2], T[3], Nl(id), Nl(id)>>
      BY ConcatPairToThree, Zenon
    <3> QED BY <2>2, <2>3, <2>9, <3>1
  <2> QED BY <1>6, <2>10 DEF T
<1> QED BY <1>7, <1>8

\* text is what head has before its first mark.
UpToMark(head, text) ==
    /\ Len(text) + 2 <= Len(head)
    /\ \A i \in 1..Len(text) : text[i] = head[i]
    /\ \A i \in 1..Len(text) : ~(head[i].sym = "nl" /\ head[i + 1].sym = "nl")

LEMMA MarkEndsText ==
    ASSUME NEW head \in Seq(Token), EndOfText(head) # 0
    PROVE  /\ SubSeq(head, 1, EndOfText(head) - 1) \in Seq(Token)
           /\ UpToMark(head, SubSeq(head, 1, EndOfText(head) - 1))
<1> DEFINE e == EndOfText(head)
           text == SubSeq(head, 1, e - 1)
<1>1. /\ e \in 1..(Len(head) - 1) /\ Len(head) \in Nat
      /\ \A i \in 1..(Len(head) - 1) :
             head[i].sym = "nl" /\ head[i + 1].sym = "nl" => e <= i
  BY EndOfTextIsFirst, LenProperties
<1> HIDE DEF e
<1>2. e - 1 \in 0..Len(head)
  BY <1>1
<1>3. /\ text \in Seq(Token) /\ Len(text) = e - 1
      /\ \A i \in 1..(e - 1) : text[i] = head[i]
  BY <1>2, PrefixProperties
<1> HIDE DEF text
<1>4. UpToMark(head, text)
  BY <1>1, <1>3 DEF UpToMark
<1> QED BY <1>3, <1>4 DEF text, e

\* What is before the mark at the head of a stream is a request, whole, or the
\* word "list" that remains of one.
LEMMA AcceptedIsWhole ==
    ASSUME NEW r \in Seq(RequestRecord), NEW head \in Seq(Token), NEW left \in Seq(Token),
           Follows(r, head \o left), head[1].id \in DOMAIN r,
           NEW text \in Seq(Token), UpToMark(head, text), Accepted(text)
    PROVE  /\ Opens(text[1]) /\ text[1] = head[1] /\ Len(text) >= 1
           /\ \/ text[1].sym # "word" /\ AllOf(r, text, text[1].id)
              \/ text[1].sym = "word" /\ Remains(r, text, text[1].id)
<1> DEFINE t == head \o left
           id == text[1].id
           from == TextFrom(r, text[1])
<1>1. /\ Len(text) \in Nat /\ Len(head) \in Nat /\ Len(text) + 2 <= Len(head)
      /\ \A i \in 1..Len(text) : text[i] = head[i]
      /\ \A i \in 1..Len(text) : ~(head[i].sym = "nl" /\ head[i + 1].sym = "nl")
  BY LenProperties DEF UpToMark
<1>2. /\ Len(t) >= Len(head) /\ Len(t) \in Nat /\ t \in Seq(Token)
      /\ \A i \in 1..Len(head) : t[i] = head[i]
  <2>1. /\ Len(left) \in Nat /\ Len(t) = Len(head) + Len(left) /\ t \in Seq(Token)
        /\ \A i \in 1..(Len(head) + Len(left)) :
               t[i] = IF i <= Len(head) THEN head[i] ELSE left[i - Len(head)]
    BY ConcatProperties, LenProperties
  <2> HIDE DEF t
  <2> QED BY <1>1, <2>1
<1>3. Opens(text[1]) /\ Len(text) >= 1
  BY <1>1 DEF Accepted, IsList, IsCall, Opens, SpellsList
<1>4. text[1] = head[1] /\ t[1] = text[1]
  BY <1>1, <1>2, <1>3
<1>5. \A j \in 1..Len(from) : j <= Len(t) => t[j] = from[j]
  <2>1. Follows(r, t) /\ Opens(t[1]) /\ 1 \in 1..Len(t) /\ t[1] = text[1]
    BY <1>1, <1>2, <1>3, <1>4
  <2> HIDE DEF t
  <2>2. \A j \in 1..Len(TextFrom(r, t[1])) :
            1 + j - 1 <= Len(t) => t[1 + j - 1] = TextFrom(r, t[1])[j]
    BY <2>1 DEF Follows
  <2>3. from = TextFrom(r, t[1])
    BY <2>1
  <2>4. Len(from) \in Int
    BY FromLength
  <2> HIDE DEF from
  <2>5. \A j \in 1..Len(from) : 1 + j - 1 <= Len(t) => t[1 + j - 1] = from[j]
    BY <2>2, <2>3
  <2> QED BY <2>4, <2>5
<1> HIDE DEF t, id
<1>6. CASE text[1].sym # "word"
  <2>1. from = TextOf(r, id)
    BY <1>6 DEF TextFrom, id
  <2>2. BeginsWith(r, id, text, t)
    <3>1. /\ Len(t) >= Len(text) + 2
          /\ \A i \in 1..Len(text) : t[i] = text[i]
      <4>1. Len(t) >= Len(text) + 2
        BY <1>1, <1>2
      <4>2. \A i \in 1..Len(text) : i \in 1..Len(head)
        BY <1>1
      <4>3. \A i \in 1..Len(text) : t[i] = text[i]
        BY <1>1, <1>2, <4>2
      <4> QED BY <4>1, <4>3
    <3>2. ASSUME NEW i \in 1..Len(text)
          PROVE  ~(t[i].sym = "nl" /\ t[i + 1].sym = "nl")
      <4>1. i \in 1..Len(head) /\ i + 1 \in 1..Len(head)
        BY <1>1
      <4>2. t[i] = head[i] /\ t[i + 1] = head[i + 1]
        BY <1>2, <4>1
      <4> QED BY <1>1, <4>2
    <3> QED BY <1>5, <2>1, <3>1, <3>2 DEF BeginsWith
  <2>3. text \in Seq(Token) /\ Accepted(text) /\ t \in Seq(Token)
        /\ text[1].sym # "word" /\ BeginsWith(r, id, text, t)
    BY <1>2, <1>6, <2>2
  <2>4. text \o <<Nl(id), Nl(id)>> = TextOf(r, id)
    BY ONLY <2>3, TextBeforeMark
  <2> QED BY <1>3, <1>4, <1>6, <2>4 DEF id, AllOf
<1>7. CASE text[1].sym = "word"
  <2>1. Len(text) = 1 /\ text[1].w = ListWord
    BY <1>7 DEF Accepted, IsList, IsCall, SpellsList
  <2>2. from = <<Term(r[id].w, id), Nl(id), Nl(id)>>
    BY <1>7 DEF TextFrom, id
  <2>3. text[1] = Term(r[id].w, id)
    <3>1. Len(from) = 3 /\ from[1] = Term(r[id].w, id)
      BY <2>2
    <3> HIDE DEF from
    <3> QED BY <1>1, <1>2, <1>3, <1>4, <1>5, <3>1
  <2>4. r[id].w = ListWord
    BY <2>1, <2>3 DEF Term
  <2>5. text = <<Term(ListWord, id)>>
    BY <2>1, <2>3, <2>4
  <2>6. r[id].op \in {"get", "put"}
    <3>1. r[id] \in RequestRecord
      BY <1>4, ElementOfSeq, LenProperties DEF id
    <3>2. text[1] \in Token
      BY <1>1, <1>3, ElementOfSeq
    <3>3. r[id].w # NoWord
      BY <1>7, <2>1, <2>4, <3>2, WordAssumption DEF Token, NoWord, Symbol
    <3> QED BY <3>1, <3>3 DEF RequestRecord
  <2> QED BY <1>3, <1>4, <1>7, <2>4, <2>5, <2>6 DEF Remains, id
<1> QED BY <1>6, <1>7

LEMMA Regroup ==
    ASSUME NEW a \in Seq(Token), NEW b \in Seq(Token), NEW c \in Seq(Token), NEW d \in Seq(Token)
    PROVE  (a \o (b \o c)) \o d = (a \o b) \o (c \o d)
<1> DEFINE S == Token
           ab == a \o b
<1>1. a \in Seq(S) /\ b \in Seq(S) /\ c \in Seq(S) /\ d \in Seq(S)
  OBVIOUS
<1> HIDE DEF S
<1>2. (a \o b) \o c = a \o (b \o c)
  BY ONLY <1>1, ConcatAssociative, SMTT(30)
<1>3. ab \in Seq(S)
  BY <1>1, ConcatProperties
<1>4. (ab \o c) \o d = ab \o (c \o d)
  <2> HIDE DEF ab
  <2> QED BY ONLY <1>1, <1>3, ConcatAssociative, SMTT(30)
<1> QED BY <1>2, <1>4, Zenon
-----------------------------------------------------------------------------
(* The writes of a request.                                                *)

LEMMA TextIsLong ==
    ASSUME NEW r \in Seq(RequestRecord), Len(r) <= MaxReq,
           NEW id \in DOMAIN r, r[id].op # "local"
    PROVE  /\ TextOf(r, id) \in Seq(Token)
           /\ Len(TextOf(r, id)) \in Nat
           /\ Len(TextOf(r, id)) >= 3
<1>1. TextOf(r, id) \in Seq(Token)
  BY TextProperties
<1>2. CASE r[id].op = "list"
  <2>1. Len(TextOf(r, id)) = 3
    BY <1>2, TextLength
  <2> QED BY <1>1, <2>1
<1>3. CASE r[id].op # "list"
  <2>1. Len(TextOf(r, id)) = 5
    BY <1>3, TextLength
  <2> QED BY <1>1, <2>1
<1> QED BY <1>2, <1>3

\* The writes of the HTTP front end: a command and its line feed, then a token
\* at a time.  MidNet makes one write.
LEMMA PiecesOfText ==
    ASSUME NEW r \in Seq(RequestRecord), Len(r) <= MaxReq,
           NEW id \in DOMAIN r, r[id].op # "local", NEW f
    PROVE  /\ Len(PiecesOf(r, f, id)) \in Nat \ {0}
           /\ f = "midnet" => /\ PiecesOf(r, f, id) = <<TextOf(r, id)>>
                              /\ Len(PiecesOf(r, f, id)) = 1
           /\ f # "midnet" =>
                 /\ Len(PiecesOf(r, f, id)) = Len(TextOf(r, id)) - 1
                 /\ PiecesOf(r, f, id)[1] = SubSeq(TextOf(r, id), 1, 2)
                 /\ \A i \in 2..Len(PiecesOf(r, f, id)) :
                        PiecesOf(r, f, id)[i] = <<TextOf(r, id)[i + 1]>>
<1> DEFINE T == TextOf(r, id)
           pieces == PiecesOf(r, f, id)
<1>1. pieces = IF f = "midnet" THEN <<T>>
               ELSE <<SubSeq(T, 1, 2)>> \o [i \in 1..(Len(T) - 2) |-> <<T[i + 2]>>]
  BY DEF PiecesOf, RequestPieces, TextOf
<1>2. T \in Seq(Token) /\ Len(T) \in Nat /\ Len(T) >= 3
  BY TextIsLong
<1> HIDE DEF T, pieces
<1>3. CASE f = "midnet"
  <2>1. Len(<<T>>) = 1
    OBVIOUS
  <2>2. pieces = <<T>> /\ Len(pieces) = 1
    BY <1>1, <1>3, <2>1
  <2>3. Len(pieces) \in Nat \ {0}
    BY <2>2
  <2> QED BY <1>3, <2>2, <2>3, Zenon DEF T, pieces
<1>4. CASE f # "midnet"
  <2> DEFINE n == Len(T) - 2
             first == <<SubSeq(T, 1, 2)>>
             rest == [i \in 1..n |-> <<T[i + 2]>>]
  <2>1. n \in Nat /\ n >= 1
    BY <1>2
  <2>2. first \in Seq(Seq(Token)) /\ Len(first) = 1 /\ first[1] = SubSeq(T, 1, 2)
    <3>1. SubSeq(T, 1, 2) \in Seq(Token)
      BY <1>2, PieceOfText
    <3> QED BY <3>1
  <2>3. \A i \in 1..n : rest[i] = <<T[i + 2]>>
    BY <2>1
  <2>4. rest \in Seq(Seq(Token)) /\ Len(rest) = n
    <3>1. \A i \in 1..n : <<T[i + 2]>> \in Seq(Token)
      <4> SUFFICES ASSUME NEW i \in 1..n
                   PROVE  <<T[i + 2]>> \in Seq(Token)
        OBVIOUS
      <4>1. T[i + 2] \in Token
        BY <1>2, <2>1, ElementOfSeq
      <4> QED BY <4>1
    <3> HIDE DEF n
    <3> QED BY <2>1, <3>1
  <2>5. pieces = first \o rest
    BY <1>1, <1>4
  <2>6. Len(pieces) = 1 + n
        /\ \A i \in 1..(1 + n) : pieces[i] = IF i <= 1 THEN first[i] ELSE rest[i - 1]
    <3> HIDE DEF first, rest, n
    <3>1. /\ Len(first \o rest) = Len(first) + Len(rest)
          /\ \A i \in 1..(Len(first) + Len(rest)) :
                (first \o rest)[i] = IF i <= Len(first) THEN first[i] ELSE rest[i - Len(first)]
      BY ONLY <2>2, <2>4, ConcatProperties
    <3> QED BY <2>2, <2>4, <2>5, <3>1
  <2> HIDE DEF first, rest
  <2>7. Len(pieces) = Len(T) - 1 /\ Len(pieces) \in Nat \ {0}
    BY <1>2, <2>6
  <2> HIDE DEF n
  <2>8. pieces[1] = SubSeq(T, 1, 2)
    BY <2>1, <2>2, <2>6
  <2>9. ASSUME NEW i \in 2..Len(pieces)
        PROVE  pieces[i] = <<T[i + 1]>>
    <3>1. i - 1 \in 1..n /\ i \in 1..(1 + n) /\ ~(i <= 1) /\ (i - 1) + 2 = i + 1
      BY <2>1, <2>6
    <3> QED BY <2>3, <2>6, <3>1
  <2> QED BY <1>4, <2>7, <2>8, <2>9 DEF T, pieces
<1> QED BY <1>3, <1>4

LEMMA LeftIsText ==
    ASSUME NEW r \in Seq(RequestRecord), Len(r) <= MaxReq,
           NEW id \in DOMAIN r, r[id].op # "local", NEW f, NEW m \in Nat
    PROVE  LeftOf(r, f, id, m) \in Seq(Token)
<1> DEFINE T == TextOf(r, id)
           i == IF m = 0 THEN 1 ELSE m + 2
<1>1. T \in Seq(Token) /\ Len(T) \in Nat
  BY TextIsLong
<1>2. i \in Nat /\ i >= 1
  OBVIOUS
<1>3. SubSeq(T, i, Len(T)) \in Seq(Token)
  <2> HIDE DEF T, i
  <2> QED BY <1>1, <1>2, PieceOfText
<1>4. <<>> \in Seq(Token)
  OBVIOUS
<1> QED BY <1>3, <1>4 DEF LeftOf

\* A write takes the front of what is left of the text to write.
LEMMA WriteTakesFront ==
    ASSUME NEW r \in Seq(RequestRecord), Len(r) <= MaxReq,
           NEW id \in DOMAIN r, r[id].op # "local", NEW f,
           NEW m \in Nat, m < Len(PiecesOf(r, f, id))
    PROVE  LeftOf(r, f, id, m) = PiecesOf(r, f, id)[m + 1] \o LeftOf(r, f, id, m + 1)
<1> DEFINE T == TextOf(r, id)
           pieces == PiecesOf(r, f, id)
           now == LeftOf(r, f, id, m)
           next == LeftOf(r, f, id, m + 1)
<1>1. T \in Seq(Token) /\ Len(T) \in Nat /\ Len(T) >= 3
  BY TextIsLong
<1>2. /\ Len(pieces) \in Nat \ {0} /\ m < Len(pieces)
      /\ f = "midnet" => pieces = <<T>> /\ Len(pieces) = 1
      /\ f # "midnet" =>
            /\ Len(pieces) = Len(T) - 1
            /\ pieces[1] = SubSeq(T, 1, 2)
            /\ \A i \in 2..Len(pieces) : pieces[i] = <<T[i + 1]>>
  BY PiecesOfText
<1>3. /\ now = SubSeq(T, IF m = 0 THEN 1 ELSE m + 2, Len(T))
      /\ next = IF m + 1 = Len(pieces) THEN <<>> ELSE SubSeq(T, m + 3, Len(T))
  <2>1. m # Len(pieces) /\ m + 1 # 0 /\ (m + 1) + 2 = m + 3
    BY <1>2
  <2> QED BY <2>1 DEF LeftOf
<1> HIDE DEF T, pieces, now, next
<1>4. now = pieces[m + 1] \o next
  <2>1. CASE f = "midnet"
    <3>1. m = 0 /\ Len(pieces) = 1
      <4>1. m < Len(pieces) /\ Len(pieces) = 1
        BY <1>2, <2>1, Zenon
      <4>2. m < 1
        BY ONLY <4>1
      <4> QED BY <4>1, <4>2
    <3>2. <<T>>[1] = T
      OBVIOUS
    <3>3. pieces[m + 1] = T /\ next = <<>> /\ now = SubSeq(T, 1, Len(T))
      BY <1>2, <1>3, <2>1, <3>1, <3>2
    <3>4. SubSeq(T, 1, Len(T)) = T /\ T \o <<>> = T
      BY <1>1, SubSeqFull, ConcatEmptySeq
    <3> QED BY <3>3, <3>4
  <2>2. CASE f # "midnet" /\ m = 0
    <3>1. m + 1 = 1 /\ m + 1 # Len(pieces) /\ m + 3 = 2 + 1
      <4>1. Len(pieces) = Len(T) - 1
        BY <1>2, <2>2
      <4> QED BY ONLY <1>1, <2>2, <4>1
    <3>2. /\ pieces[m + 1] = SubSeq(T, 1, 2) /\ now = SubSeq(T, 1, Len(T))
          /\ next = SubSeq(T, 2 + 1, Len(T))
      BY <1>2, <1>3, <2>2, <3>1
    <3>3. SubSeq(T, 1, 2) \o SubSeq(T, 2 + 1, Len(T)) = SubSeq(T, 1, Len(T))
      <4>1. 1 \in 1..(Len(T) + 1) /\ 2 \in (1 - 1)..Len(T) /\ Len(T) \in 2..Len(T)
        BY <1>1
      <4> QED BY <1>1, <4>1, ConcatAdjacentSubSeq
    <3> QED BY <3>2, <3>3
  <2>3. CASE f # "midnet" /\ m # 0
    <3>1. Len(pieces) = Len(T) - 1
      BY <1>2, <2>3
    <3>2. /\ m + 1 \in 2..Len(pieces) /\ m + 2 \in 1..Len(T) /\ Len(T) \in (m + 2)..Len(T)
          /\ (m + 1) + 1 = m + 2 /\ (m + 2) + 1 = m + 3
      BY <1>1, <1>2, <2>3, <3>1, SMTT(30)
    <3>3. pieces[m + 1] = <<T[m + 2]>>
      BY <1>2, <2>3, <3>2
    <3>4. SubSeq(T, m + 2, Len(T)) = <<T[m + 2]>> \o SubSeq(T, m + 3, Len(T))
      BY <1>1, <3>2, SubSeqRecursiveFirst
    <3>5. m + 1 = Len(pieces) => SubSeq(T, m + 3, Len(T)) = <<>>
      <4>1. m + 1 = Len(pieces) => Len(T) < m + 3
        BY <1>1, <3>1
      <4> QED BY <1>1, <4>1, SubSeqEmpty
    <3> QED BY <1>3, <2>3, <3>3, <3>4, <3>5
  <2> QED BY <2>1, <2>2, <2>3
<1> QED BY <1>4 DEF now, pieces, next
-----------------------------------------------------------------------------
(* The streams of a state.                                                 *)

\* A read takes the front of what is in the pipe and leaves the rest.
LEMMA ChunkThenRest ==
    ASSUME NEW S, NEW pipe \in Seq(S), NEW room \in Int
    PROVE  Chunk(pipe, room) \o Rest(pipe, room) = pipe
<1> DEFINE taken == IF Len(pipe) < room THEN Len(pipe) ELSE room
           first == IF taken < 0 THEN 0 ELSE taken
<1>1. Len(pipe) \in Nat /\ taken \in Int /\ taken <= Len(pipe)
  BY LenProperties
<1>2. Chunk(pipe, room) = SubSeq(pipe, 1, taken)
  BY DEF Chunk
<1> HIDE DEF taken
<1>3. first \in 0..Len(pipe)
  BY <1>1
<1>4. SubSeq(pipe, 1, taken) = SubSeq(pipe, 1, first) /\ Len(SubSeq(pipe, 1, first)) = first
  <2>1. CASE taken < 0
    <3>1. SubSeq(pipe, 1, taken) = <<>> /\ SubSeq(pipe, 1, 0) = <<>>
      BY <1>1, <2>1, SubSeqEmpty
    <3> QED BY <2>1, <3>1
  <2>2. CASE ~(taken < 0)
    BY <1>3, <2>2, PrefixProperties
  <2> QED BY <2>1, <2>2
<1>5. Rest(pipe, room) = SubSeq(pipe, first + 1, Len(pipe))
  BY <1>2, <1>4 DEF Rest
<1> HIDE DEF first
<1>6. SubSeq(pipe, 1, first) \o SubSeq(pipe, first + 1, Len(pipe)) = SubSeq(pipe, 1, Len(pipe))
  <2>1. 1 \in 1..(Len(pipe) + 1) /\ first \in 0..Len(pipe) /\ Len(pipe) \in first..Len(pipe)
    BY <1>1, <1>3
  <2>2. first \in (1 - 1)..Len(pipe)
    BY <2>1
  <2> QED BY <2>1, <2>2, ConcatAdjacentSubSeq
<1> QED BY <1>2, <1>4, <1>5, <1>6, SubSeqFull

LEMMA StreamIsOwn ==
    ASSUME RoutingInv, NEW f \in FrontEnd, Sending(f)
    PROVE  /\ Held(f) \in Seq(Own(reqs, f)) /\ Held(f) \in Seq(Token)
           /\ toCore[f] \in Seq(Own(reqs, f)) /\ toCore[f] \in Seq(Token)
           /\ Unsent(f) \in Seq(Own(reqs, f)) /\ Unsent(f) \in Seq(Token)
           /\ Stream(f) \in Seq(Own(reqs, f)) /\ Stream(f) \in Seq(Token)
<1> DEFINE S == Own(reqs, f)
<1>1. Held(f) \in Seq(S) /\ toCore[f] \in Seq(S)
  <2>1. toCore[f] \in Seq(S)
    BY DEF RoutingInv, PipeInv
  <2>2. CASE buffer = <<>>
    BY <2>1, <2>2 DEF Held
  <2>3. CASE \E g \in FrontEnd : watched = {g} /\ buffer \in Seq(Own(reqs, g))
    BY <2>1, <2>3 DEF Held
  <2> QED BY <2>1, <2>2, <2>3 DEF RoutingInv, CoreInv
<1>2. Unsent(f) \in Seq(S)
  <2>1. CASE pc[f] = "send"
    <3> DEFINE T == TextOf(reqs, cur[f])
               first == IF Made(f) = 0 THEN 1 ELSE Made(f) + 2
    <3>1. cur[f] \in DOMAIN reqs /\ reqs[cur[f]].from = f /\ reqs[cur[f]].op # "local"
      BY <2>1 DEF RoutingInv, FrontInv, Sending
    <3>2. T \in Seq(S)
      BY <3>1, TextProperties DEF RoutingInv, HistoryInv
    <3>3. first \in Nat \ {0}
      BY <2>1 DEF Sending
    <3>4. Unsent(f) = SubSeq(T, first, Len(T))
      <4>1. Len(Pieces(f)) \in Nat
        BY <3>1, PiecesOfText DEF RoutingInv, HistoryInv, Pieces
      <4>2. Made(f) # Len(Pieces(f))
        BY <2>1, <4>1 DEF Sending
      <4> QED BY <2>1, <4>2 DEF Unsent, LeftOf, Pieces
    <3> HIDE DEF T, first, S
    <3> QED BY <3>2, <3>3, <3>4, PieceOfText, LenProperties
  <2>2. CASE pc[f] # "send"
    BY <2>2 DEF Unsent
  <2> QED BY <2>1, <2>2
<1> HIDE DEF S
<1>3. Stream(f) \in Seq(S)
  BY <1>1, <1>2, ConcatProperties DEF Stream
<1> QED BY <1>1, <1>2, <1>3, OwnTextIsText DEF S

\* What the core is about to read from f heads the stream of f; it holds
\* nothing of another front end.
LEMMA ReceivedHeadsStream ==
    ASSUME RoutingInv, NEW f \in FrontEnd, Sending(f), Readable(f),
           NEW left, left = Rest(toCore[f], ReceptionLength - Len(buffer))
    PROVE  /\ Received(f) \in Seq(Token) /\ left \in Seq(Token)
           /\ Stream(f) = (Received(f) \o left) \o Unsent(f)
           /\ Stream(f) = Received(f) \o (left \o Unsent(f))
           /\ \A g \in FrontEnd \ {f} : Held(g) = <<>>
<1> DEFINE room == ReceptionLength - Len(buffer)
           taken == Chunk(toCore[f], room)
<1>1. Held(f) = buffer /\ \A g \in FrontEnd \ {f} : Held(g) = <<>>
  <2>1. f \in watched
    BY DEF Readable
  <2> QED BY <2>1 DEF RoutingInv, CoreInv, Held
<1>2. /\ buffer \in Seq(Token) /\ toCore[f] \in Seq(Token) /\ Unsent(f) \in Seq(Token)
  BY <1>1, StreamIsOwn
<1>3. room \in Int
  BY <1>2, LenProperties, BoundAssumption
<1> HIDE DEF room
<1>4. taken \in Seq(Token) /\ left \in Seq(Token)
  BY <1>2, <1>3, ChunkAndRest DEF room
<1>5. taken \o left = toCore[f]
  BY <1>2, <1>3, ChunkThenRest DEF room
<1>6. Received(f) = buffer \o taken
  BY DEF Received, room
<1> HIDE DEF taken
<1>7. Received(f) \in Seq(Token)
  BY <1>2, <1>4, <1>6, ConcatProperties
<1>8. Received(f) \o left = buffer \o toCore[f]
  <2>1. (buffer \o taken) \o left = buffer \o (taken \o left)
    BY ONLY <1>2, <1>4, ConcatAssociative, SMTT(30)
  <2> QED BY <1>5, <1>6, <2>1
<1>9. Stream(f) = (Received(f) \o left) \o Unsent(f)
  BY <1>1, <1>8 DEF Stream
<1>10. Stream(f) = Received(f) \o (left \o Unsent(f))
  <2>1. (Received(f) \o left) \o Unsent(f) = Received(f) \o (left \o Unsent(f))
    BY ONLY <1>2, <1>4, <1>7, ConcatAssociative, SMTT(30)
  <2> QED BY <1>9, <2>1
<1> QED BY <1>1, <1>4, <1>7, <1>9, <1>10
-----------------------------------------------------------------------------
(* What a step may do to a stream.                                         *)

StreamKept(f) ==
    /\ StreamInv(f)'
    /\ \A n \in 1..Len(log) :
          Logged(reqs, log[n], Stream(f), pc[f], cur[f])
              => Logged(reqs', log[n], Stream(f)', pc'[f], cur'[f])

LEMMA KeptTogether ==
    ASSUME RequestInv, RoutingInv', log' = log, \A f \in FrontEnd : StreamKept(f)
    PROVE  RequestInv'
<1>1. \A f \in FrontEnd : StreamInv(f)'
  BY DEF StreamKept
<1>2. LogInv'
  <2>1. /\ log \in Seq([from : FrontEnd, text : Seq(Token), as : Kind])
        /\ \A n \in 1..Len(log) :
             \A f \in FrontEnd : log[n].from = f => Logged(reqs, log[n], Stream(f), pc[f], cur[f])
        /\ \A m, n \in 1..Len(log) :
             (m < n /\ log[m].from = log[n].from) => log[m].text[1].id < log[n].text[1].id
    BY DEF RequestInv, LogInv
  <2>2. \A n \in 1..Len(log) : \A f \in FrontEnd :
            log[n].from = f => Logged(reqs', log[n], Stream(f)', pc'[f], cur'[f])
    BY <2>1 DEF StreamKept
  <2> QED BY <2>1, <2>2 DEF LogInv
<1> QED BY <1>1, <1>2 DEF RequestInv

\* What was executed is a request that was made.
LEMMA LoggedIsInt ==
    ASSUME NEW r, NEW S, r \in Seq(S), NEW entry, NEW s, NEW place, NEW id,
           Logged(r, entry, s, place, id)
    PROVE  entry.text[1].id \in Int
<1> DEFINE old == entry.text[1].id
<1>1. old \in DOMAIN r
  BY DEF Logged
<1>2. DOMAIN r = 1..Len(r) /\ Len(r) \in Nat
  BY LenProperties
<1> HIDE DEF old
<1>3. old \in Int
  BY <1>1, <1>2
<1> QED BY <1>3 DEF old

\* Something is taken off the front of a stream, or nothing.
LEMMA DropKeeps ==
    ASSUME RequestInv, RoutingInv', NEW f \in FrontEnd,
           NEW d \in Seq(Token), Stream(f) = d \o Stream(f)', Stream(f)' \in Seq(Token),
           reqs' = reqs, pc'[f] = pc[f], cur'[f] = cur[f], out'[f] = out[f]
    PROVE  StreamKept(f)
<1>1. StreamInv(f) /\ reqs \in Seq(RequestRecord)
  BY DEF RequestInv, RoutingInv, HistoryInv
<1>2. Sending(f)'
  BY <1>1 DEF StreamInv, Sending, Made, Pieces
<1>3. Flow(reqs, Stream(f)', pc[f], cur[f])
  BY <1>1, DropFront DEF StreamInv
<1>4. \A n \in Int : Above(Stream(f), n) => Above(Stream(f)', n)
  BY DropFront
<1>5. StreamInv(f)'
  BY <1>2, <1>3 DEF StreamInv
<1>6. ASSUME NEW n \in 1..Len(log), Logged(reqs, log[n], Stream(f), pc[f], cur[f])
      PROVE  Logged(reqs', log[n], Stream(f)', pc'[f], cur'[f])
  <2>1. log[n].text[1].id \in Int
    BY <1>1, <1>6, LoggedIsInt
  <2> QED BY <1>4, <1>6, <2>1 DEF Logged
<1> QED BY <1>5, <1>6 DEF StreamKept

\* The stream stays as it is, and the front end is done with its request or
\* with the writes of it.
LEMMA RestKeeps ==
    ASSUME RequestInv, NEW f \in FrontEnd, Stream(f)' = Stream(f), reqs' = reqs,
           pc[f] # "down", pc'[f] \in {"idle", "wait"}
    PROVE  StreamKept(f)
<1>1. StreamInv(f)
  BY DEF RequestInv
<1>2. StreamInv(f)'
  BY <1>1 DEF StreamInv, Flow, Sending
<1> QED BY <1>2 DEF StreamKept, Logged

\* The end of the stream is lost with its front end.
LEMMA DownKeeps ==
    ASSUME RequestInv, NEW f \in FrontEnd, NEW e \in Seq(Token),
           Stream(f) = Stream(f)' \o e, Stream(f)' \in Seq(Token),
           reqs' = reqs, pc'[f] = "down"
    PROVE  StreamKept(f)
<1>1. StreamInv(f) /\ reqs \in Seq(RequestRecord)
  BY DEF RequestInv, RoutingInv, HistoryInv
<1>2. Flow(reqs, Stream(f)', "down", cur'[f])
  BY <1>1, DropEnd DEF StreamInv
<1>3. \A n \in Int : Above(Stream(f), n) => Above(Stream(f)', n)
  BY DropEnd
<1>4. StreamInv(f)'
  BY <1>2 DEF StreamInv, Sending
<1>5. ASSUME NEW n \in 1..Len(log), Logged(reqs, log[n], Stream(f), pc[f], cur[f])
      PROVE  Logged(reqs', log[n], Stream(f)', pc'[f], cur'[f])
  <2>1. log[n].text[1].id \in Int
    BY <1>1, <1>5, LoggedIsInt
  <2> QED BY <1>3, <1>5, <2>1 DEF Logged
<1> QED BY <1>4, <1>5 DEF StreamKept

\* What is written and what is held do not move.
LEMMA SameStream ==
    ASSUME RequestInv, NEW f \in FrontEnd, UNCHANGED <<buffer, watched, reqs>>,
           toCore'[f] = toCore[f], pc'[f] = pc[f], cur'[f] = cur[f], out'[f] = out[f]
    PROVE  Stream(f)' = Stream(f) /\ StreamKept(f)
<1>1. Stream(f)' = Stream(f)
  BY DEF Stream, Held, Unsent, Made, Pieces
<1>2. Sending(f)' <=> Sending(f)
  BY DEF Sending, Made, Pieces
<1> QED BY <1>1, <1>2 DEF RequestInv, StreamKept, StreamInv
-----------------------------------------------------------------------------
(* The core server.                                                        *)

LEMMA CoreWriteKeepsRequests ==
    ASSUME RequestInv, CoreWrite, UNCHANGED frontVars
    PROVE  RequestInv' /\ \A f \in FrontEnd : Stream(f)' = Stream(f)
<1>1. UNCHANGED <<buffer, watched, reqs, toCore, pc, cur, out, log>>
  BY DEF CoreWrite, frontVars
<1>2. RoutingInv'
  BY CoreWriteKeeps DEF RequestInv
<1>3. \A f \in FrontEnd : StreamKept(f) /\ Stream(f)' = Stream(f)
  BY <1>1, SameStream
<1> QED BY <1>1, <1>2, <1>3, KeptTogether

\* A cancelled or overflowing request leaves what comes after it.
LEMMA CoreDropsKeepsRequests ==
    ASSUME RequestInv, CoreOverflow \/ CoreTimeout, UNCHANGED frontVars
    PROVE  /\ RequestInv'
           /\ \A f \in FrontEnd : Stream(f) = Held(f) \o Stream(f)' /\ Stream(f)' \in Seq(Token)
<1>1. buffer' = <<>> /\ UNCHANGED <<reqs, toCore, pc, cur, out, log>>
  BY DEF CoreOverflow, CoreTimeout, frontVars, pipes
<1>2. RoutingInv'
  BY CoreDropsKeeps DEF RequestInv
<1>3. ASSUME NEW f \in FrontEnd
      PROVE  StreamKept(f) /\ Stream(f) = Held(f) \o Stream(f)' /\ Stream(f)' \in Seq(Token)
  <2>1. /\ Held(f) \in Seq(Token) /\ toCore[f] \in Seq(Token) /\ Unsent(f) \in Seq(Token)
    BY StreamIsOwn DEF RequestInv, StreamInv
  <2>2. Held(f)' = <<>> /\ Unsent(f)' = Unsent(f)
    BY <1>1 DEF Held, Unsent, Made, Pieces
  <2>3. Stream(f)' = toCore[f] \o Unsent(f)
    BY <1>1, <2>1, <2>2, ConcatEmptySeq DEF Stream
  <2>4. Stream(f) = Held(f) \o Stream(f)'
    <3>1. (Held(f) \o toCore[f]) \o Unsent(f) = Held(f) \o (toCore[f] \o Unsent(f))
      <4> DEFINE a == Held(f)
                 b == toCore[f]
                 c == Unsent(f)
      <4>1. a \in Seq(Token) /\ b \in Seq(Token) /\ c \in Seq(Token)
        BY <2>1
      <4> HIDE DEF a, b, c
      <4>2. (a \o b) \o c = a \o (b \o c)
        BY ONLY <4>1, ConcatAssociative
      <4> QED BY <4>2 DEF a, b, c
    <3> QED BY <2>3, <3>1 DEF Stream
  <2>5. Stream(f)' \in Seq(Token)
    BY <2>1, <2>3, ConcatProperties
  <2> QED BY <1>1, <1>2, <2>1, <2>4, <2>5, DropKeeps
<1> QED BY <1>1, <1>2, <1>3, KeptTogether

LEMMA CoreReadPartKeepsRequests ==
    ASSUME RequestInv, NEW f \in FrontEnd, CoreReadPart(f), UNCHANGED frontVars
    PROVE  RequestInv' /\ \A g \in FrontEnd : Stream(g)' = Stream(g)
<1> DEFINE left == Rest(toCore[f], ReceptionLength - Len(buffer))
<1>1. /\ Readable(f) /\ toCore' = [toCore EXCEPT ![f] = left]
      /\ buffer' = Received(f) /\ watched' = watched \cap {f}
      /\ UNCHANGED <<reqs, pc, cur, out, log>>
  BY DEF CoreReadPart, Chosen, TakeFrom, WatchOnly, frontVars
<1>2. RoutingInv' /\ RoutingInv /\ \A g \in FrontEnd : Sending(g)
  BY CoreReadKeeps DEF RequestInv, StreamInv
<1>3. /\ left \in Seq(Token)
      /\ Stream(f) = (Received(f) \o left) \o Unsent(f)
      /\ \A g \in FrontEnd \ {f} : Held(g) = <<>>
  BY <1>1, <1>2, ReceivedHeadsStream
<1> HIDE DEF left
<1>4. ASSUME NEW g \in FrontEnd
      PROVE  Stream(g)' = Stream(g)
  <2>1. Unsent(g)' = Unsent(g)
    BY <1>1 DEF Unsent, Made, Pieces
  <2>2. toCore \in [FrontEnd -> Seq(Token)] /\ f \in watched
    BY <1>1, <1>2 DEF RoutingInv, PipeInv, Readable
  <2>3. CASE g = f
    <3>1. Held(f)' = Received(f) /\ toCore'[f] = left
      BY <1>1, <2>2 DEF Held
    <3> QED BY <1>3, <2>1, <2>3, <3>1 DEF Stream
  <2>4. CASE g # f
    <3>1. Held(g)' = <<>> /\ Held(g) = <<>> /\ toCore'[g] = toCore[g]
      BY <1>1, <1>3, <2>2, <2>4 DEF Held
    <3> QED BY <2>1, <3>1 DEF Stream
  <2> QED BY <2>3, <2>4
<1>5. ASSUME NEW g \in FrontEnd
      PROVE  StreamKept(g)
  <2>1. Stream(g) \in Seq(Token)
    BY <1>2, StreamIsOwn
  <2>2. Stream(g) = <<>> \o Stream(g)' /\ <<>> \in Seq(Token) /\ Stream(g)' \in Seq(Token)
    BY <1>4, <2>1, ConcatEmptySeq
  <2> QED BY <1>1, <1>2, <2>2, DropKeeps
<1> QED BY <1>1, <1>2, <1>4, <1>5, KeptTogether

\* A request is logged that is later than those logged of its front end.
LEMMA LoggedTogether ==
    ASSUME RequestInv, RoutingInv', \A g \in FrontEnd : StreamKept(g),
           NEW f \in FrontEnd, NEW text \in Seq(Token), NEW as \in Kind,
           NEW entry, entry = [from |-> f, text |-> text, as |-> as],
           log' = Append(log, entry),
           Logged(reqs', entry, Stream(f)', pc'[f], cur'[f]),
           \A n \in 1..Len(log) : log[n].from = f => log[n].text[1].id < text[1].id
    PROVE  RequestInv'
<1> DEFINE Entry == [from : FrontEnd, text : Seq(Token), as : Kind]
<1>1. \A g \in FrontEnd : StreamInv(g)'
  BY DEF StreamKept
<1>2. /\ log \in Seq(Entry) /\ Len(log) \in Nat
      /\ \A n \in 1..Len(log) :
           \A g \in FrontEnd : log[n].from = g => Logged(reqs, log[n], Stream(g), pc[g], cur[g])
      /\ \A m, n \in 1..Len(log) :
           (m < n /\ log[m].from = log[n].from) => log[m].text[1].id < log[n].text[1].id
  BY LenProperties DEF RequestInv, LogInv
<1>3. entry \in Entry /\ entry.from = f /\ entry.text = text
  OBVIOUS
<1> HIDE DEF Entry
<1>4. /\ log' \in Seq(Entry) /\ Len(log') = Len(log) + 1
      /\ \A n \in 1..Len(log) : log'[n] = log[n]
      /\ log'[Len(log) + 1] = entry
  BY <1>2, <1>3, AppendProperties
<1>5. ASSUME NEW n \in 1..Len(log'), NEW g \in FrontEnd, log'[n].from = g
      PROVE  Logged(reqs', log'[n], Stream(g)', pc'[g], cur'[g])
  <2>1. CASE n \in 1..Len(log)
    BY <1>2, <1>4, <1>5, <2>1 DEF StreamKept
  <2>2. CASE n = Len(log) + 1
    BY <1>3, <1>4, <1>5, <2>2
  <2> QED BY <1>2, <1>4, <2>1, <2>2
<1>6. \A m, n \in 1..Len(log') :
          (m < n /\ log'[m].from = log'[n].from) => log'[m].text[1].id < log'[n].text[1].id
  <2> DEFINE grown == log'
             Early(m, n) == m < n /\ grown[m].from = grown[n].from
  <2>1. /\ Len(grown) = Len(log) + 1 /\ grown[Len(log) + 1] = entry
        /\ \A n \in 1..Len(log) : grown[n] = log[n]
    BY <1>4
  <2> HIDE DEF grown
  <2>2. ASSUME NEW m \in 1..Len(grown), NEW n \in 1..Len(grown), Early(m, n)
        PROVE  grown[m].text[1].id < grown[n].text[1].id
    <3>1. m \in 1..Len(log)
      BY <1>2, <2>1, <2>2
    <3>2. CASE n \in 1..Len(log)
      BY <1>2, <2>1, <2>2, <3>1, <3>2
    <3>3. CASE n = Len(log) + 1
      BY <1>3, <2>1, <2>2, <3>1, <3>3
    <3> QED BY <1>2, <2>1, <3>2, <3>3
  <2> QED BY <2>2 DEF grown
<1>7. LogInv'
  <2>1. \A n \in 1..Len(log') : \A g \in FrontEnd :
            log'[n].from = g => Logged(reqs', log'[n], Stream(g)', pc'[g], cur'[g])
    BY <1>5
  <2>2. log' \in Seq([from : FrontEnd, text : Seq(Token), as : Kind])
    BY <1>4 DEF Entry
  <2> QED BY <1>6, <2>1, <2>2, Zenon DEF LogInv
<1> QED BY <1>1, <1>7 DEF RequestInv

\* The token at the head of a stream is earlier than what comes after its text.
LEMMA HeadIsFirst ==
    ASSUME NEW d \in Seq(Token), Len(d) >= 1, NEW s \in Seq(Token), NEW r,
           NEW t, t = d \o s, NEW id, id = d[1].id, Opens(d[1]),
           Len(TextFrom(r, d[1])) <= Len(d)
    PROVE  /\ Increasing(r, t) => Above(s, id)
           /\ \A n : Below(t, n) => id < n
           /\ \A n : Above(t, n) => n < id
<1>1. /\ Len(d) \in Nat /\ Len(s) \in Nat /\ Len(t) = Len(d) + Len(s)
      /\ \A i \in 1..(Len(d) + Len(s)) :
             t[i] = IF i <= Len(d) THEN d[i] ELSE s[i - Len(d)]
  BY ConcatProperties, LenProperties
<1>2. 1 \in 1..Len(t) /\ t[1] = d[1]
  BY <1>1
<1>3. \A n : (Below(t, n) => id < n) /\ (Above(t, n) => n < id)
  BY <1>2 DEF Below, Above
<1>4. ASSUME Increasing(r, t)
      PROVE  Above(s, id)
  <2> SUFFICES ASSUME NEW k \in 1..Len(s), Opens(s[k])
               PROVE  id < s[k].id
    BY DEF Above
  <2> DEFINE there == Len(d) + k
  <2>1. Len(TextFrom(r, t[1])) \in Int /\ Len(TextFrom(r, t[1])) <= Len(d)
    BY <1>2, FromLength
  <2>2. there \in 1..Len(t) /\ t[there] = s[k] /\ 1 + Len(TextFrom(r, t[1])) <= there
    BY <1>1, <2>1
  <2> HIDE DEF there
  <2> QED BY <1>2, <1>4, <2>2 DEF Increasing
<1> QED BY <1>3, <1>4

\* What is executed is logged, and the command list as such.
LEMMA ExecuteRecords ==
    ASSUME NEW f, NEW text, Execute(f, text)
    PROVE  /\ ~Accepted(text) => log' = log
           /\ Accepted(text) => \E as \in Kind :
                  /\ log' = Append(log, [from |-> f, text |-> text, as |-> as])
                  /\ IsList(text) => as = "list"
<1>1. \A as : Record(f, text, as) => log' = Append(log, [from |-> f, text |-> text, as |-> as])
  BY DEF Record
<1>2. CASE ExecuteList(text) /\ Record(f, text, "list")
  BY <1>1, <1>2 DEF ExecuteList, Accepted, Kind
<1>3. CASE ExecuteGet(text) /\ Record(f, text, "get")
  BY <1>1, <1>3 DEF ExecuteGet, OneWord, IsList, Accepted, Kind
<1>4. CASE ExecutePut(text) /\ Record(f, text, "put")
  BY <1>1, <1>4 DEF ExecutePut, OneWord, IsList, Accepted, Kind
<1>5. CASE ExecutePutFails(text) /\ Record(f, text, "starved")
  BY <1>1, <1>5 DEF ExecutePutFails, OneWord, IsList, Accepted, Kind
<1>6. CASE ExecuteWrong(text) /\ IF Accepted(text) THEN Record(f, text, "odd") ELSE UNCHANGED log
  BY <1>1, <1>6 DEF ExecuteWrong, Kind
<1> QED BY <1>2, <1>3, <1>4, <1>5, <1>6 DEF Execute

\* A complete request is executed, if it is accepted, and logged.
LEMMA CoreReadAllKeepsRequests ==
    ASSUME RequestInv, NEW f \in FrontEnd, CoreReadAll(f), UNCHANGED frontVars
    PROVE  /\ RequestInv'
           /\ Stream(f) = Received(f) \o Stream(f)'
           /\ Received(f) \in Seq(Token) /\ Stream(f)' \in Seq(Token)
           /\ \A g \in FrontEnd \ {f} : Stream(g)' = Stream(g)
<1> DEFINE left == Rest(toCore[f], ReceptionLength - Len(buffer))
           text == SubSeq(Received(f), 1, EndOfText(Received(f)) - 1)
<1>1. /\ Readable(f) /\ toCore' = [toCore EXCEPT ![f] = left]
      /\ buffer' = <<>> /\ EndOfText(Received(f)) # 0
      /\ Execute(f, text)
      /\ UNCHANGED <<reqs, pc, cur, out>>
  BY DEF CoreReadAll, Chosen, TakeFrom, frontVars
<1>2. RoutingInv' /\ RoutingInv /\ \A g \in FrontEnd : Sending(g)
  BY CoreReadKeeps DEF RequestInv, StreamInv
<1>3. /\ Received(f) \in Seq(Token) /\ left \in Seq(Token)
      /\ Stream(f) = Received(f) \o (left \o Unsent(f))
      /\ \A g \in FrontEnd \ {f} : Held(g) = <<>>
  BY <1>1, <1>2, ReceivedHeadsStream
<1> HIDE DEF left, text
<1>4. \A g \in FrontEnd : /\ Unsent(g) \in Seq(Token) /\ Unsent(g)' = Unsent(g)
                          /\ Held(g)' = <<>>
                          /\ Stream(g) \in Seq(Own(reqs, g)) /\ Stream(g) \in Seq(Token)
  BY <1>1, <1>2, StreamIsOwn DEF Unsent, Made, Pieces, Held
<1>5. Stream(f)' = left \o Unsent(f) /\ Stream(f)' \in Seq(Token)
  <2>1. toCore'[f] = left
    BY <1>1, <1>2 DEF RoutingInv, PipeInv
  <2>2. <<>> \o left = left
    BY <1>3, ConcatEmptySeq
  <2>3. left \o Unsent(f) \in Seq(Token)
    BY <1>3, <1>4, ConcatProperties
  <2> QED BY <1>4, <2>1, <2>2, <2>3 DEF Stream
<1>6. ASSUME NEW g \in FrontEnd
      PROVE  StreamKept(g) /\ (g # f => Stream(g)' = Stream(g))
  <2>1. CASE g = f
    BY <1>1, <1>2, <1>3, <1>5, <2>1, DropKeeps
  <2>2. CASE g # f
    <3>1. Held(g) = <<>> /\ toCore'[g] = toCore[g]
      BY <1>1, <1>2, <1>3, <2>2 DEF RoutingInv, PipeInv
    <3>2. Stream(g)' = Stream(g)
      BY <1>4, <3>1 DEF Stream
    <3>3. Stream(g) = <<>> \o Stream(g)' /\ <<>> \in Seq(Token) /\ Stream(g)' \in Seq(Token)
      BY <1>4, <3>2, ConcatEmptySeq
    <3> QED BY <1>1, <1>2, <3>2, <3>3, DropKeeps
  <2> QED BY <2>1, <2>2
<1>7. ASSUME ~Accepted(text)
      PROVE  RequestInv'
  <2>1. log' = log
    BY <1>1, <1>7, ExecuteRecords
  <2> QED BY <1>2, <1>6, <2>1, KeptTogether
<1>8. ASSUME Accepted(text)
      PROVE  RequestInv'
  <2> DEFINE id == text[1].id
  <2>1. /\ Flow(reqs, Stream(f), pc[f], cur[f]) /\ Follows(reqs, Stream(f))
        /\ Increasing(reqs, Stream(f)) /\ reqs \in Seq(RequestRecord)
    BY DEF RequestInv, StreamInv, Flow, RoutingInv, HistoryInv
  <2> PICK as \in Kind : /\ log' = Append(log, [from |-> f, text |-> text, as |-> as])
                         /\ IsList(text) => as = "list"
    BY <1>1, <1>8, ExecuteRecords
  <2>2. text \in Seq(Token) /\ UpToMark(Received(f), text)
    BY <1>1, <1>3, MarkEndsText DEF text
  <2>3. Len(Received(f)) >= 1 /\ Received(f)[1] = Stream(f)[1] /\ 1 \in 1..Len(Stream(f))
    <3>1. Len(Received(f)) >= 1
      BY <1>3, <2>2, LenProperties DEF UpToMark
    <3> QED BY <1>3, <1>5, <3>1, ConcatProperties, LenProperties
  <2>4. Received(f)[1].id \in DOMAIN reqs /\ reqs[Received(f)[1].id].from = f
    <3>1. Stream(f)[1] \in Own(reqs, f)
      BY <1>4, <2>3, ElementOfSeq
    <3> QED BY <2>3, <3>1 DEF Own
  <2>5. /\ Opens(text[1]) /\ text[1] = Received(f)[1] /\ Len(text) >= 1
        /\ \/ text[1].sym # "word" /\ AllOf(reqs, text, id)
           \/ text[1].sym = "word" /\ Remains(reqs, text, id)
    <3>1. left \o Unsent(f) \in Seq(Token) /\ Follows(reqs, Received(f) \o (left \o Unsent(f)))
      BY <1>3, <1>5, <2>1
    <3> DEFINE head == Received(f)
               tail == left \o Unsent(f)
    <3>2. /\ head \in Seq(Token) /\ tail \in Seq(Token) /\ Follows(reqs, head \o tail)
          /\ text \in Seq(Token) /\ UpToMark(head, text) /\ Accepted(text)
          /\ reqs \in Seq(RequestRecord) /\ head[1].id \in DOMAIN reqs
      BY <1>3, <1>8, <2>1, <2>2, <2>4, <3>1
    <3> HIDE DEF head, tail
    <3>3. /\ Opens(text[1]) /\ text[1] = head[1] /\ Len(text) >= 1
          /\ \/ text[1].sym # "word" /\ AllOf(reqs, text, text[1].id)
             \/ text[1].sym = "word" /\ Remains(reqs, text, text[1].id)
      BY <3>2, AcceptedIsWhole
    <3> QED BY <3>3 DEF head
  <2>6. id \in DOMAIN reqs /\ reqs[id].from = f
    BY <2>4, <2>5
  <2>7. Len(TextFrom(reqs, text[1])) = Len(text) + 2
    <3>1. CASE text[1].sym # "word" /\ AllOf(reqs, text, id)
      <4>1. text \o <<Nl(id), Nl(id)>> = TextFrom(reqs, text[1])
        BY <3>1 DEF AllOf, TextFrom
      <4> DEFINE two == <<Nl(id), Nl(id)>>
                 S == Token \cup {Nl(id)}
      <4>2. two \in Seq(S) /\ Len(two) = 2 /\ text \in Seq(S)
        BY <2>2
      <4> HIDE DEF two, S, id, text
      <4>3. Len(text \o two) = Len(text) + Len(two)
        BY ONLY <4>2, ConcatProperties
      <4>4. Len(text \o two) = Len(text) + 2
        BY ONLY <4>2, <4>3
      <4> QED BY <4>1, <4>4 DEF two
    <3>2. CASE text[1].sym = "word" /\ Remains(reqs, text, id)
      <4>1. Len(text) = 1
        BY <3>2 DEF Remains
      <4>2. TextFrom(reqs, text[1]) = <<Term(reqs[id].w, id), Nl(id), Nl(id)>>
        BY <3>2 DEF TextFrom
      <4> QED BY <4>1, <4>2
    <3> QED BY <2>5, <3>1, <3>2
  <2>8. /\ Above(Stream(f)', id)
        /\ \A n : (Below(Stream(f), n) => id < n) /\ (Above(Stream(f), n) => n < id)
    <3> DEFINE head == Received(f)
               tail == Stream(f)'
               all == Stream(f)
               r == reqs
    <3>1. /\ head \in Seq(Token) /\ Len(head) >= 1 /\ tail \in Seq(Token)
          /\ all = head \o tail /\ id = head[1].id /\ Opens(head[1])
          /\ Len(TextFrom(r, head[1])) <= Len(head)
      BY <1>3, <1>5, <2>2, <2>3, <2>5, <2>7 DEF UpToMark
    <3> HIDE DEF id, head, tail, all, r
    <3>2. /\ Increasing(r, all) => Above(tail, id)
          /\ \A n : Below(all, n) => id < n
          /\ \A n : Above(all, n) => n < id
      BY ONLY <3>1, HeadIsFirst
    <3> QED BY <2>1, <3>2 DEF tail, all, r
  <2> DEFINE entry == [from |-> f, text |-> text, as |-> as]
  <2>9. entry.from = f /\ entry.text = text /\ entry.as = as /\ log' = Append(log, entry)
    OBVIOUS
  <2>10. AllOf(reqs, text, id) \/ (as = "list" /\ Remains(reqs, text, id))
    <3>1. CASE text[1].sym = "word" /\ Remains(reqs, text, id)
      <4>1. IsList(text)
        BY <3>1 DEF Remains, IsList, SpellsList, Term
      <4> QED BY <3>1, <4>1
    <3> QED BY <2>5, <3>1
  <2> HIDE DEF entry
  <2>11. Logged(reqs', entry, Stream(f)', pc'[f], cur'[f])
    BY <1>1, <2>1, <2>6, <2>8, <2>9, <2>10 DEF Logged, Flow
  <2>12. \A n \in 1..Len(log) : log[n].from = f => log[n].text[1].id < text[1].id
    BY <2>8 DEF RequestInv, LogInv, Logged
  <2>13. entry = [from |-> f, text |-> text, as |-> as]
    BY DEF entry
  <2>14. \A g \in FrontEnd : StreamKept(g)
    BY <1>6
  <2>15. RequestInv /\ RoutingInv'
    BY <1>2
  <2>16. f \in FrontEnd /\ as \in Kind /\ text \in Seq(Token) /\ log' = Append(log, entry)
    BY <2>2, <2>9
  <2> HIDE DEF id
  <2> QED BY ONLY <2>11, <2>12, <2>13, <2>14, <2>15, <2>16, LoggedTogether
<1>9. RequestInv'
  BY <1>7, <1>8
<1>10. Stream(f) = Received(f) \o Stream(f)'
  BY <1>3, <1>5
<1>11. \A g \in FrontEnd \ {f} : Stream(g)' = Stream(g)
  BY <1>6
<1> QED BY ONLY <1>3, <1>5, <1>9, <1>10, <1>11
-----------------------------------------------------------------------------
(* The front ends.                                                         *)

\* A front end that reads, or is done, leaves the streams as they are.
LEMMA QuietStepKeeps ==
    ASSUME RequestInv, RoutingInv', NEW f \in FrontEnd, UNCHANGED <<coreVars, toCore, reqs>>,
           \A g \in FrontEnd \ {f} : pc'[g] = pc[g] /\ cur'[g] = cur[g] /\ out'[g] = out[g],
           \/ pc'[f] = pc[f] /\ cur'[f] = cur[f] /\ out'[f] = out[f]
           \/ pc[f] \notin {"send", "down"} /\ pc'[f] = "idle"
    PROVE  RequestInv' /\ \A g \in FrontEnd : Stream(g)' = Stream(g)
<1>1. UNCHANGED <<buffer, watched, log>>
  BY DEF coreVars
<1>2. ASSUME NEW g \in FrontEnd
      PROVE  StreamKept(g) /\ Stream(g)' = Stream(g)
  <2>1. CASE pc'[g] = pc[g] /\ cur'[g] = cur[g] /\ out'[g] = out[g]
    BY <1>1, <2>1, SameStream
  <2>2. CASE pc[g] \notin {"send", "down"} /\ pc'[g] = "idle"
    <3>1. Stream(g)' = Stream(g)
      BY <1>1, <2>2 DEF Stream, Held, Unsent
    <3> QED BY <2>2, <3>1, RestKeeps
  <2> QED BY <2>1, <2>2
<1> QED BY <1>1, <1>2, KeptTogether

\* The end of a request, whatever its outcome.
LEMMA FinishKeepsRequests ==
    ASSUME RequestInv, RoutingInv', NEW f \in FrontEnd, UNCHANGED <<coreVars, toCore>>,
           NEW kind, NEW body, Finish(f, kind, body), pc[f] \notin {"send", "down"}
    PROVE  RequestInv' /\ \A g \in FrontEnd : Stream(g)' = Stream(g)
<1>1. /\ pc \in [FrontEnd -> Place] /\ cur \in [FrontEnd -> Nat]
      /\ pc' = [pc EXCEPT ![f] = "idle"] /\ cur' = [cur EXCEPT ![f] = 0]
      /\ out' = out /\ reqs' = reqs
  BY DEF RequestInv, RoutingInv, FrontInv, Finish
<1>2. /\ \A g \in FrontEnd \ {f} : pc'[g] = pc[g] /\ cur'[g] = cur[g] /\ out'[g] = out[g]
      /\ pc'[f] = "idle"
  BY <1>1
<1> QED BY <1>1, <1>2, QuietStepKeeps

\* The steps in which f reads, or waits no longer.
FrontRead(f) ==
    \/ ClearRead(f)
    \/ f = "http" /\ HttpRead
    \/ f = "midnet" /\ MidnetRead
    \/ GiveUp(f)

LEMMA FrontReadKeepsRequests ==
    ASSUME RequestInv, NEW f \in FrontEnd, FrontRead(f), UNCHANGED coreVars
    PROVE  RequestInv' /\ \A g \in FrontEnd : Stream(g)' = Stream(g)
<1>1. RoutingInv'
  BY ClearReadKeeps, HttpReadKeeps, MidnetReadKeeps, GiveUpKeeps DEF FrontRead, RequestInv
<1>2. toCore' = toCore
  BY DEF FrontRead, ClearRead, HttpRead, MidnetRead, GiveUp, pipes
<1>3. \/ UNCHANGED <<pc, cur, out, reqs>>
      \/ \E kind, body : Finish(f, kind, body) /\ pc[f] = "wait"
  BY DEF FrontRead, ClearRead, HttpRead, MidnetRead, GiveUp, frontVars
<1>4. CASE UNCHANGED <<pc, cur, out, reqs>>
  BY <1>1, <1>2, <1>4, QuietStepKeeps
<1>5. CASE \E kind, body : Finish(f, kind, body) /\ pc[f] = "wait"
  BY <1>1, <1>2, <1>5, FinishKeepsRequests
<1> QED BY <1>3, <1>4, <1>5

LEMMA CrashKeepsRequests ==
    ASSUME RequestInv, NEW f \in FrontEnd, Crash(f), UNCHANGED coreVars
    PROVE  RequestInv' /\ \A g \in FrontEnd \ {f} : Stream(g)' = Stream(g)
<1>1. RoutingInv'
  BY CrashKeeps DEF RequestInv
<1>2. /\ pc \in [FrontEnd -> Place] /\ cur \in [FrontEnd -> Nat]
      /\ out \in [FrontEnd -> Seq(Seq(Token))]
      /\ pc' = [pc EXCEPT ![f] = "down"] /\ cur' = [cur EXCEPT ![f] = 0]
      /\ out' = [out EXCEPT ![f] = <<>>]
      /\ UNCHANGED <<reqs, toCore, buffer, watched, log>>
  BY DEF RequestInv, RoutingInv, FrontInv, Crash, pipes, coreVars
<1>3. ASSUME NEW g \in FrontEnd
      PROVE  StreamKept(g) /\ (g # f => Stream(g)' = Stream(g))
  <2>1. CASE g # f
    <3>1. pc'[g] = pc[g] /\ cur'[g] = cur[g] /\ out'[g] = out[g] /\ toCore'[g] = toCore[g]
      BY <1>2, <2>1
    <3> QED BY <1>2, <3>1, SameStream
  <2>2. CASE g = f
    <3>1. Held(f) \in Seq(Token) /\ toCore[f] \in Seq(Token) /\ Unsent(f) \in Seq(Token)
      BY StreamIsOwn DEF RequestInv, StreamInv
    <3>2. pc'[f] = "down"
      BY <1>2
    <3>3. Held(f)' = Held(f) /\ Unsent(f)' = <<>>
      BY <1>2, <3>2 DEF Held, Unsent
    <3>4. Held(f) \o toCore[f] \in Seq(Token)
      BY <3>1, ConcatProperties
    <3>5. Stream(f)' = Held(f) \o toCore[f]
      BY <1>2, <3>3, <3>4, ConcatEmptySeq DEF Stream
    <3>6. Stream(f) = Stream(f)' \o Unsent(f) /\ Stream(f)' \in Seq(Token)
      BY <3>4, <3>5 DEF Stream
    <3> QED BY <1>2, <2>2, <3>1, <3>2, <3>6, DownKeeps
  <2> QED BY <2>1, <2>2
<1> QED BY <1>1, <1>2, <1>3, KeptTogether

\* A front end that is done with clear_fd(0) prepares its request, or ends it.
LEMMA ClearDoneKeepsRequests ==
    ASSUME RequestInv, NEW f \in FrontEnd, ClearDone(f), UNCHANGED coreVars
    PROVE  /\ RequestInv'
           /\ reqs[cur[f]].op # "local" => Stream(f)' = Stream(f) \o TextOf(reqs, cur[f])
           /\ reqs[cur[f]].op = "local" => Stream(f)' = Stream(f)
           /\ \A g \in FrontEnd \ {f} : Stream(g)' = Stream(g)
<1> DEFINE id == cur[f]
           T == TextOf(reqs, id)
           pieces == PiecesOf(reqs, f, id)
<1>1. /\ RoutingInv' /\ UNCHANGED <<toCore, toFront, buffer, watched, log>> /\ pc[f] = "clear"
  BY ClearDoneKeeps DEF RequestInv, ClearDone, pipes, coreVars
<1>2. /\ reqs \in Seq(RequestRecord) /\ Len(reqs) <= MaxReq
      /\ id \in DOMAIN reqs /\ reqs[id].from = f /\ id \in Int
      /\ pc \in [FrontEnd -> Place] /\ cur \in [FrontEnd -> Nat]
      /\ out \in [FrontEnd -> Seq(Seq(Token))]
  BY <1>1 DEF RequestInv, RoutingInv, HistoryInv, FrontInv
<1>3. CASE reqs[id].op = "local"
  BY <1>1, <1>3, FinishKeepsRequests DEF ClearDone
<1>4. CASE reqs[id].op # "local"
  <2>1. /\ pc' = [pc EXCEPT ![f] = "send"] /\ out' = [out EXCEPT ![f] = pieces]
        /\ UNCHANGED <<cur, reqs>>
    BY <1>4 DEF ClearDone, PiecesOf
  <2>2. /\ pc'[f] = "send" /\ out'[f] = pieces /\ cur'[f] = id
        /\ \A g \in FrontEnd \ {f} : pc'[g] = pc[g] /\ cur'[g] = cur[g] /\ out'[g] = out[g]
    BY <1>2, <2>1
  <2>3. T \in Seq(Token) /\ Len(pieces) \in Nat \ {0}
    BY <1>2, <1>4, TextProperties, PiecesOfText
  <2>4. pieces \in Seq(Seq(Own(reqs, f)))
    BY <1>2, <1>4, RequestPiecesAreOwn DEF PiecesOf
  <2>5. Made(f)' = 0 /\ Pieces(f)' = pieces
    BY <2>1, <2>2, <2>3 DEF Made, Pieces
  <2>6. Unsent(f)' = T
    <3>1. LeftOf(reqs, f, id, 0) = SubSeq(T, 1, Len(T))
      BY <2>3 DEF LeftOf
    <3>2. Unsent(f)' = LeftOf(reqs, f, id, 0)
      BY <2>1, <2>2, <2>5 DEF Unsent
    <3> QED BY <2>3, <3>1, <3>2, SubSeqFull
  <2>7. Sending(f)'
    <3>1. pieces = SubSeq(pieces, 1, Len(pieces))
      BY <2>4, SubSeqFull
    <3> HIDE DEF pieces
    <3>2. 0 \in 0..(Len(pieces) - 1) /\ 0 + 1 = 1
      BY <2>3
    <3> QED BY <1>4, <2>1, <2>2, <2>5, <3>1, <3>2 DEF Sending
  <2> HIDE DEF T, pieces
  <2>8. Stream(f)' = Stream(f) \o T /\ Stream(f) \in Seq(Token)
    <3>1. Unsent(f) = <<>> /\ Held(f)' = Held(f)
      BY <1>1 DEF Unsent, Held
    <3>2. Held(f) \o toCore[f] \in Seq(Token)
      BY StreamIsOwn, ConcatProperties DEF RequestInv, StreamInv
    <3>3. Stream(f) = Held(f) \o toCore[f]
      BY <3>1, <3>2, ConcatEmptySeq DEF Stream
    <3> QED BY <1>1, <2>6, <3>1, <3>2, <3>3 DEF Stream
  <2>9. Flow(reqs, Stream(f), "clear", id)
    BY <1>1 DEF RequestInv, StreamInv
  <2>10. /\ Flow(reqs, Stream(f)', "send", id)
         /\ \A n \in Int : Above(Stream(f), n) /\ n < id => Above(Stream(f)', n)
    BY <1>2, <1>4, <2>8, <2>9, AppendText DEF T
  <2>11. StreamKept(f)
    <3>1. StreamInv(f)'
      BY <2>1, <2>2, <2>7, <2>10 DEF StreamInv
    <3>2. ASSUME NEW n \in 1..Len(log), Logged(reqs, log[n], Stream(f), pc[f], cur[f])
          PROVE  Logged(reqs', log[n], Stream(f)', pc'[f], cur'[f])
      <4>1. log[n].text[1].id \in Int
        BY <1>2, <3>2, LoggedIsInt
      <4> QED BY <1>1, <2>1, <2>2, <2>10, <3>2, <4>1 DEF Logged
    <3> QED BY <3>1, <3>2 DEF StreamKept
  <2>12. \A g \in FrontEnd \ {f} : StreamKept(g) /\ Stream(g)' = Stream(g)
    BY <1>1, <2>1, <2>2, SameStream
  <2>13. RequestInv'
    BY <1>1, <2>11, <2>12, KeptTogether
  <2> QED BY <1>4, <2>8, <2>12, <2>13 DEF T
<1> QED BY <1>3, <1>4

\* A write moves the stream from the front end to its pipe.
LEMMA SendKeepsRequests ==
    ASSUME RequestInv, NEW f \in FrontEnd, Send(f), UNCHANGED coreVars
    PROVE  RequestInv' /\ \A g \in FrontEnd : Stream(g)' = Stream(g)
<1> DEFINE id == cur[f]
           pieces == PiecesOf(reqs, f, id)
           n == Len(pieces)
           m == Made(f)
           piece == Head(out[f])
           left == LeftOf(reqs, f, id, m + 1)
<1>1. /\ RoutingInv' /\ UNCHANGED <<cur, reqs, buffer, watched, log>> /\ pc[f] = "send"
      /\ toCore' = [toCore EXCEPT ![f] = @ \o piece]
      /\ out' = [out EXCEPT ![f] = Tail(@)]
      /\ pc' = [pc EXCEPT ![f] = IF Len(out[f]) = 1 THEN "wait" ELSE "send"]
  BY SendKeeps DEF RequestInv, Send, coreVars
<1>2. /\ reqs \in Seq(RequestRecord) /\ Len(reqs) <= MaxReq
      /\ id \in DOMAIN reqs /\ reqs[id].from = f
      /\ pc \in [FrontEnd -> Place]
      /\ out \in [FrontEnd -> Seq(Seq(Token))]
      /\ toCore \in [FrontEnd -> Seq(Token)]
      /\ out[f] \in Seq(Seq(Own(reqs, f))) /\ out[f] # <<>>
  BY <1>1 DEF RequestInv, RoutingInv, HistoryInv, FrontInv, PipeInv
<1>3. /\ reqs[id].op # "local"
      /\ m \in 0..(n - 1) /\ out[f] = SubSeq(pieces, m + 1, n)
  BY <1>1 DEF RequestInv, StreamInv, Sending, Pieces
<1>4. n \in Nat \ {0} /\ pieces \in Seq(Seq(Own(reqs, f)))
  BY <1>2, <1>3, PiecesOfText, RequestPiecesAreOwn DEF PiecesOf
<1>5. m = n - Len(out[f]) /\ Len(out[f]) \in Nat
  BY <1>2, LenProperties DEF Made, Pieces
<1>6. piece = pieces[m + 1] /\ Tail(out[f]) = SubSeq(pieces, (m + 1) + 1, n)
  <2>1. m + 1 \in 1..Len(pieces) /\ n \in (m + 1)..Len(pieces)
    BY <1>3, <1>4
  <2> HIDE DEF m, n, pieces
  <2>2. /\ Head(SubSeq(pieces, m + 1, n)) = pieces[m + 1]
        /\ Tail(SubSeq(pieces, m + 1, n)) = SubSeq(pieces, (m + 1) + 1, n)
    BY ONLY <1>4, <2>1, HeadTailOfSubSeq
  <2> QED BY <1>3, <2>2
<1>7. Unsent(f) = piece \o left
  <2>1. m \in Nat /\ m < n
    BY <1>3, <1>4
  <2>2. Unsent(f) = LeftOf(reqs, f, id, m)
    BY <1>1 DEF Unsent
  <2> HIDE DEF m
  <2> QED BY <1>2, <1>3, <1>6, <2>1, <2>2, WriteTakesFront
<1>8. Made(f)' = m + 1
  <2> DEFINE k == Len(out[f])
  <2>1. Len(Tail(out[f])) = k - 1
    BY <1>2, HeadTailProperties
  <2>2. out'[f] = Tail(out[f])
    BY <1>1, <1>2
  <2>3. Made(f)' = n - (k - 1)
    <3>1. Made(f)' = Len(Pieces(f)') - Len(out'[f])
      BY DEF Made
    <3>2. Pieces(f)' = pieces
      BY <1>1 DEF Pieces
    <3> HIDE DEF pieces, k
    <3> QED BY <2>1, <2>2, <3>1, <3>2
  <2>4. m = n - k /\ k \in Nat /\ n \in Nat
    BY <1>4, <1>5
  <2> HIDE DEF m, n, k
  <2>5. n - (k - 1) = m + 1
    BY ONLY <2>4
  <2> QED BY <2>3, <2>5
<1>9. /\ Unsent(f)' = left
      /\ \/ pc'[f] = "wait"
         \/ pc'[f] = "send" /\ m + 1 \in 0..(n - 1)
  <2>1. pc'[f] = IF Len(out[f]) = 1 THEN "wait" ELSE "send"
    BY <1>1, <1>2
  <2>2. CASE Len(out[f]) = 1
    <3>1. m + 1 = n
      BY <1>4, <1>5, <2>2
    <3>2. left = <<>>
      BY <3>1 DEF LeftOf
    <3> QED BY <2>1, <2>2, <3>2 DEF Unsent
  <2>3. CASE Len(out[f]) # 1
    <3> DEFINE k == Len(out[f])
    <3>1. m = n - k /\ k \in Nat /\ k # 1 /\ n \in Nat /\ m \in 0..(n - 1)
      BY <1>3, <1>4, <1>5, <2>3
    <3>2. m + 1 \in 0..(n - 1)
      <4> HIDE DEF m, n, k
      <4> QED BY ONLY <3>1
    <3> QED BY <1>1, <1>8, <2>1, <2>3, <3>2 DEF Unsent
  <2> QED BY <2>2, <2>3
<1> HIDE DEF m, n, pieces, piece, left
<1>10. Stream(f)' = Stream(f)
  <2>1. /\ Held(f) \in Seq(Token) /\ toCore[f] \in Seq(Token)
    BY StreamIsOwn DEF RequestInv, StreamInv
  <2>2. piece \in Seq(Token) /\ left \in Seq(Token)
    <3>1. piece \in Seq(Own(reqs, f))
      BY <1>2, HeadTailProperties DEF piece
    <3>2. m + 1 \in Nat
      BY <1>3, <1>4
    <3>3. left \in Seq(Token)
      BY <1>2, <1>3, <3>2, LeftIsText DEF left
    <3> QED BY <3>1, <3>3, OwnTextIsText
  <2>3. Held(f)' = Held(f) /\ toCore'[f] = toCore[f] \o piece
    BY <1>1, <1>2 DEF Held
  <2>4. Stream(f)' = (Held(f) \o (toCore[f] \o piece)) \o left
    BY <1>9, <2>3 DEF Stream
  <2>5. Stream(f) = (Held(f) \o toCore[f]) \o (piece \o left)
    BY <1>7 DEF Stream
  <2>6. (Held(f) \o (toCore[f] \o piece)) \o left = (Held(f) \o toCore[f]) \o (piece \o left)
    <3> DEFINE held == Held(f)
               piped == toCore[f]
    <3>1. held \in Seq(Token) /\ piped \in Seq(Token)
      BY <2>1
    <3> HIDE DEF held, piped
    <3>2. \A b, c, d \in Seq(Token) : (held \o (b \o c)) \o d = (held \o b) \o (c \o d)
      BY ONLY <3>1, Regroup
    <3>3. (held \o (piped \o piece)) \o left = (held \o piped) \o (piece \o left)
      BY ONLY <2>2, <3>1, <3>2, ZenonT(30)
    <3> QED BY <3>3 DEF held, piped
  <2> QED BY <2>4, <2>5, <2>6
<1>11. StreamKept(f)
  <2>1. CASE pc'[f] = "wait"
    BY <1>1, <1>10, <2>1, RestKeeps
  <2>2. CASE pc'[f] = "send" /\ m + 1 \in 0..(n - 1)
    <3>1. Sending(f)'
      BY <1>1, <1>2, <1>3, <1>6, <1>8, <2>2 DEF Sending, Pieces, n, pieces
    <3> QED BY <1>1, <1>10, <2>2, <3>1 DEF RequestInv, StreamInv, StreamKept
  <2> QED BY <1>9, <2>1, <2>2
<1>12. ASSUME NEW g \in FrontEnd \ {f}
       PROVE  StreamKept(g) /\ Stream(g)' = Stream(g)
  <2>1. toCore'[g] = toCore[g] /\ pc'[g] = pc[g] /\ cur'[g] = cur[g] /\ out'[g] = out[g]
    BY <1>1, <1>2
  <2> QED BY <1>1, <2>1, SameStream
<1> QED BY <1>1, <1>10, <1>11, <1>12, KeptTogether

\* A new request comes after all that is on its way and all that is logged.
LEMMA RequestKeepsRequests ==
    ASSUME RequestInv, NEW f \in FrontEnd, Request(f)
    PROVE  RequestInv' /\ \A g \in FrontEnd : Stream(g)' = Stream(g)
<1>1. RoutingInv' /\ RoutingInv
  BY RequestKeeps DEF RequestInv
<1>2. PICK q \in RequestRecord :
          /\ pc[f] = "idle"
          /\ reqs' = Append(reqs, q)
          /\ cur' = [cur EXCEPT ![f] = Len(reqs) + 1]
          /\ pc' = [pc EXCEPT ![f] = "clear"]
          /\ UNCHANGED <<out, toCore>>
  <2>1. PICK op, w : /\ Begin(f, op, w, Keys(dico))
                     /\ \/ op \in {"get", "put"} /\ w \in Word
                        \/ op \in {"list", "local"} /\ w = NoWord
    BY DEF Request
  <2> DEFINE q == [from |-> f, op |-> op, w |-> w, before |-> Keys(dico)]
  <2>2. Keys(dico) \subseteq Key
    BY <1>1, LenProperties DEF RoutingInv, CoreInv, Keys, ToSet
  <2>3. q \in RequestRecord
    BY <2>1, <2>2 DEF RequestRecord
  <2>4. /\ pc[f] = "idle"
        /\ reqs' = Append(reqs, q)
        /\ cur' = [cur EXCEPT ![f] = Len(reqs) + 1]
        /\ pc' = [pc EXCEPT ![f] = "clear"]
        /\ UNCHANGED <<out, toCore>>
    BY <2>1 DEF Begin, pipes
  <2> HIDE DEF q
  <2> QED BY <2>3, <2>4
<1>3. /\ UNCHANGED <<buffer, watched, log>>
      /\ reqs \in Seq(RequestRecord) /\ Len(reqs) \in Nat
      /\ pc \in [FrontEnd -> Place] /\ cur \in [FrontEnd -> Nat]
      /\ \A g \in FrontEnd : pc[g] \in {"clear", "send", "wait"} => cur[g] \in DOMAIN reqs
  BY <1>1 DEF Request, coreVars, RoutingInv, HistoryInv, FrontInv
<1>4. \A i \in DOMAIN reqs : /\ i \in DOMAIN reqs' /\ reqs'[i] = reqs[i]
                             /\ i \in Nat /\ i < Len(reqs) + 1
  BY <1>2, <1>3, AppendProperties
<1>5. /\ pc'[f] = "clear" /\ cur'[f] = Len(reqs) + 1
      /\ \A g \in FrontEnd \ {f} : pc'[g] = pc[g] /\ cur'[g] = cur[g]
  BY <1>2, <1>3
<1>6. ASSUME NEW g \in FrontEnd
      PROVE  Stream(g)' = Stream(g) /\ Sending(g)'
  <2>1. CASE pc[g] = "send"
    <3>1. /\ pc'[g] = pc[g] /\ cur'[g] = cur[g] /\ reqs'[cur[g]] = reqs[cur[g]]
      BY <1>2, <1>3, <1>4, <1>5, <2>1
    <3>2. Made(g)' = Made(g) /\ Pieces(g)' = Pieces(g)
      BY <1>2, <3>1 DEF Made, Pieces, PiecesOf
    <3>3. LeftOf(reqs', g, cur[g], Made(g)) = LeftOf(reqs, g, cur[g], Made(g))
      BY <3>1 DEF LeftOf, PiecesOf, TextOf
    <3>4. Stream(g)' = Stream(g)
      BY <1>2, <1>3, <3>1, <3>2, <3>3 DEF Stream, Held, Unsent
    <3>5. Sending(g)
      BY DEF RequestInv, StreamInv
    <3> QED BY <1>2, <2>1, <3>1, <3>2, <3>4, <3>5 DEF Sending
  <2>2. CASE pc[g] # "send"
    <3>1. pc'[g] # "send"
      BY <1>5, <2>2
    <3> QED BY <1>2, <1>3, <2>2, <3>1 DEF Stream, Held, Unsent, Sending
  <2> QED BY <2>1, <2>2
<1>7. ASSUME NEW g \in FrontEnd
      PROVE  StreamKept(g)
  <2>1. Stream(g) \in Seq(Own(reqs, g)) /\ Flow(reqs, Stream(g), pc[g], cur[g])
    BY StreamIsOwn, <1>1 DEF RequestInv, StreamInv
  <2>2. /\ \A place, id : Flow(reqs, Stream(g), place, id) => Flow(reqs', Stream(g), place, id)
        /\ \A place, id : Flow(reqs, Stream(g), place, id) /\ place # "down"
                               => Flow(reqs', Stream(g), "clear", Len(reqs) + 1)
    BY <1>2, <1>3, <2>1, GrowHistory
  <2>3. Flow(reqs', Stream(g), pc'[g], cur'[g])
    BY <1>2, <1>5, <2>1, <2>2
  <2>4. StreamInv(g)'
    BY <1>6, <2>3 DEF StreamInv
  <2>5. ASSUME NEW n \in 1..Len(log), Logged(reqs, log[n], Stream(g), pc[g], cur[g])
        PROVE  Logged(reqs', log[n], Stream(g)', pc'[g], cur'[g])
    <3> DEFINE old == log[n].text[1].id
    <3>1. /\ old \in DOMAIN reqs /\ reqs[old].from = log[n].from
          /\ \/ AllOf(reqs, log[n].text, old)
             \/ log[n].as = "list" /\ Remains(reqs, log[n].text, old)
          /\ Above(Stream(g), old)
          /\ pc[g] = "clear" => old < cur[g]
      BY <2>5 DEF Logged
    <3>2. /\ old \in DOMAIN reqs' /\ reqs'[old] = reqs[old] /\ old < Len(reqs) + 1
          /\ AllOf(reqs', log[n].text, old) <=> AllOf(reqs, log[n].text, old)
          /\ Remains(reqs', log[n].text, old) <=> Remains(reqs, log[n].text, old)
      BY <1>4, <3>1 DEF TextOf, AllOf, Remains
    <3>3. pc'[g] = "clear" => old < cur'[g]
      BY <1>5, <3>1, <3>2
    <3> HIDE DEF old
    <3> QED BY <1>6, <3>1, <3>2, <3>3 DEF Logged, old
  <2> QED BY <2>4, <2>5 DEF StreamKept
<1> QED BY <1>1, <1>3, <1>6, <1>7, KeptTogether
-----------------------------------------------------------------------------
LEMMA RequestInit == Init => RequestInv
<1> SUFFICES ASSUME Init
             PROVE  RequestInv
  OBVIOUS
<1>1. RoutingInv
  BY RoutingInit
<1>2. ASSUME NEW f \in FrontEnd
      PROVE  StreamInv(f)
  <2>1. buffer = <<>> /\ toCore[f] = <<>> /\ pc[f] = "idle"
    BY DEF Init, MessagesInit, CoreInit, FrontInit
  <2>2. Stream(f) = <<>>
    <3>1. Held(f) = <<>> /\ Unsent(f) = <<>>
      BY <2>1 DEF Held, Unsent
    <3>2. <<>> \in Seq(Token) /\ <<>> \o <<>> = <<>>
      BY ConcatEmptySeq
    <3> QED BY <2>1, <3>1, <3>2 DEF Stream
  <2>3. Flow(reqs, Stream(f), pc[f], cur[f])
    BY <2>2 DEF Flow, Follows, Increasing, Complete, Below
  <2> QED BY <2>1, <2>3 DEF StreamInv, Sending
<1>3. LogInv
  <2>1. log = <<>>
    BY DEF Init, CoreInit
  <2> QED BY <2>1 DEF LogInv
<1> QED BY <1>1, <1>2, <1>3 DEF RequestInv

LEMMA RequestNext == RequestInv /\ [Next]_vars => RequestInv'
<1> SUFFICES ASSUME RequestInv, [Next]_vars
             PROVE  RequestInv'
  OBVIOUS
<1>1. CASE CoreStep
  BY <1>1, CoreReadPartKeepsRequests, CoreReadAllKeepsRequests,
     CoreDropsKeepsRequests, CoreWriteKeepsRequests DEF CoreStep
<1>2. ASSUME NEW f \in FrontEnd, FrontStep(f)
      PROVE  RequestInv'
  <2>1. UNCHANGED coreVars
    BY <1>2 DEF FrontStep
  <2>2. CASE ClearDone(f)
    BY <2>1, <2>2, ClearDoneKeepsRequests
  <2>3. CASE Send(f)
    BY <2>1, <2>3, SendKeepsRequests
  <2>4. CASE FrontRead(f)
    BY ONLY RequestInv, f \in FrontEnd, <2>1, <2>4, FrontReadKeepsRequests
  <2> QED BY <1>2, <2>2, <2>3, <2>4 DEF FrontStep, FrontRead
<1>3. ASSUME NEW f \in FrontEnd, Request(f)
      PROVE  RequestInv'
  BY <1>3, RequestKeepsRequests
<1>4. ASSUME NEW f \in FrontEnd, Die(f)
      PROVE  RequestInv'
  BY <1>4, CrashKeepsRequests DEF Die
<1>5. CASE UNCHANGED vars
  <2>1. UNCHANGED <<reqs, log, buffer, watched, toCore, pc, cur, out>>
    BY <1>5 DEF vars, pipes, coreVars, frontVars
  <2>2. RoutingInv'
    BY <1>5, RoutingNext DEF RequestInv
  <2>3. \A f \in FrontEnd : StreamKept(f)
    BY <2>1, SameStream
  <2> QED BY <2>1, <2>2, <2>3, KeptTogether
<1> QED BY <1>1, <1>2, <1>3, <1>4, <1>5 DEF Next

LEMMA RequestHolds == Spec => []RequestInv
BY RequestInit, RequestNext, PTL DEF Spec

\* What the core executes is the text of one request, whole, for all constants:
\* neither the pieces in which it comes, nor cancelled, overflowing, cut and
\* lost requests before it, mix two of them (midas.c:444-494).  The only piece
\* of a request ever executed is its word "list", and only as the command list.
THEOREM RequestsAreIntact == Spec => []IntactRequests
<1>1. RequestInv => IntactRequests
  <2> SUFFICES ASSUME RequestInv, NEW n \in DOMAIN log
               PROVE  LET id == log[n].text[1].id
                      IN  /\ id \in DOMAIN reqs
                          /\ log[n].from = reqs[id].from
                          /\ \/ AllOf(reqs, log[n].text, id)
                             \/ log[n].as = "list" /\ Remains(reqs, log[n].text, id)
    BY DEF IntactRequests, AllOf, Remains, TextOf
  <2>1. log \in Seq([from : FrontEnd, text : Seq(Token), as : Kind])
    BY DEF RequestInv, LogInv
  <2>2. n \in 1..Len(log)
    BY <2>1, LenProperties
  <2>3. log[n].from \in FrontEnd
    <3>1. log[n] \in [from : FrontEnd, text : Seq(Token), as : Kind]
      BY <2>1, <2>2, ElementOfSeq
    <3> QED BY <3>1
  <2>4. Logged(reqs, log[n], Stream(log[n].from), pc[log[n].from], cur[log[n].from])
    BY <2>2, <2>3 DEF RequestInv, LogInv
  <2> QED BY <2>4 DEF Logged
<1> QED BY <1>1, RequestHolds, PTL

\* No request is executed twice, for all constants: requests of one front end
\* are executed in the order they were made, those of two are different.
THEOREM RequestsRunOnce == Spec => []ExecutedAtMostOnce
<1>1. RequestInv /\ IntactRequests => ExecutedAtMostOnce
  <2> SUFFICES ASSUME RequestInv, IntactRequests,
                      NEW m \in DOMAIN log, NEW n \in DOMAIN log, m # n,
                      log[m].text[1].id = log[n].text[1].id
               PROVE  FALSE
    BY DEF ExecutedAtMostOnce
  <2>0. /\ log \in Seq([from : FrontEnd, text : Seq(Token), as : Kind])
        /\ reqs \in Seq(RequestRecord)
    BY DEF RequestInv, LogInv, RoutingInv, HistoryInv
  <2>1. m \in 1..Len(log) /\ n \in 1..Len(log) /\ Len(log) \in Nat
    BY <2>0, LenProperties
  <2>2. log[m].from = log[n].from /\ log[m].text[1].id \in DOMAIN reqs
    BY DEF IntactRequests
  <2> DEFINE id == log[m].text[1].id
  <2>3. id \in Int
    BY <2>0, <2>2, LenProperties
  <2>4. ~(id < id)
    BY <2>3
  <2>5. m < n \/ n < m
    BY <2>1
  <2> QED BY <2>1, <2>2, <2>4, <2>5 DEF RequestInv, LogInv
<1> QED BY <1>1, RequestHolds, RequestsAreIntact, PTL
-----------------------------------------------------------------------------
(***************************************************************************)
(* The daemon implements Service, for all constants: what the core accepts *)
(* is the next request of its front end, or a later one, and its           *)
(* dictionary changes by that request and by nothing else.                 *)
(***************************************************************************)

\* The text that a turn of the loop executes.
Executed(f) == SubSeq(Received(f), 1, EndOfText(Received(f)) - 1)

SortedInv == StrictlySorted(dico)

\* What a whole text says is what the client asked.
LEMMA TextSaysRequest ==
    ASSUME NEW r \in Seq(RequestRecord), NEW id \in DOMAIN r,
           NEW text \in Seq(Token), Accepted(text), AllOf(r, text, id)
    PROVE  /\ r[id].op \in {"list", "get", "put"}
           /\ r[id].op = "list" => IsList(text)
           /\ r[id].op # "list" => /\ OneWord(text) /\ ~IsList(text) /\ text[1].sym = r[id].op
                                  /\ text[3] = Term(r[id].w, id) /\ r[id].w \in Word
<1> DEFINE T == TextOf(r, id)
           e == <<Nl(id), Nl(id)>>
<1>1. Len(text) \in Nat /\ Len(text) >= 1 /\ text[1].sym \in {"list", "get", "put", "word"}
  BY LenProperties DEF Accepted, IsList, IsCall, SpellsList
<1>2. /\ Len(T) = Len(text) + 2
      /\ \A i \in 1..Len(text) : T[i] = text[i]
  <2>1. e \in Seq({Nl(id)}) /\ Len(e) = 2
    OBVIOUS
  <2>2. text \in Seq(Token \cup {Nl(id)}) /\ e \in Seq(Token \cup {Nl(id)})
    BY <2>1
  <2>4. T = text \o e
    BY DEF AllOf
  <2> HIDE DEF T, e
  <2>3. /\ Len(text \o e) = Len(text) + Len(e)
        /\ \A i \in 1..(Len(text) + Len(e)) :
              (text \o e)[i] = IF i <= Len(text) THEN text[i] ELSE e[i - Len(text)]
    BY <2>2, ConcatProperties
  <2> QED BY <1>1, <2>1, <2>3, <2>4
<1>3. T[1] = Mark(r[id].op, id)
  BY DEF TextOf, RequestText
<1>4. text[1].sym = r[id].op /\ r[id] \in RequestRecord
  BY <1>1, <1>2, <1>3, ElementOfSeq, LenProperties DEF Mark
<1>5. r[id].op \in {"list", "get", "put"}
  BY <1>1, <1>4 DEF RequestRecord
<1>l. Len(T) = IF r[id].op = "list" THEN 3 ELSE 5
  BY TextLength
<1>6. ASSUME r[id].op = "list"
      PROVE  IsList(text)
  <2>1. Len(text) = 1
    <3> DEFINE n == Len(text)
               m == Len(T)
    <3>1. n \in Nat /\ m = n + 2 /\ m = 3
      BY <1>1, <1>2, <1>6, <1>l
    <3> HIDE DEF n, m
    <3>2. n = 1
      BY ONLY <3>1
    <3> QED BY <3>2 DEF n
  <2> QED BY <1>4, <1>6, <2>1 DEF IsList, SpellsList
<1>7. ASSUME r[id].op # "list"
      PROVE  /\ OneWord(text) /\ ~IsList(text)
             /\ text[3] = Term(r[id].w, id) /\ r[id].w \in Word
  <2>1. Len(text) = 3
    <3> DEFINE n == Len(text)
               m == Len(T)
    <3>1. n \in Nat /\ m = n + 2 /\ m = 5
      BY <1>1, <1>2, <1>7, <1>l
    <3> HIDE DEF n, m
    <3>2. n = 3
      BY ONLY <3>1
    <3> QED BY <3>2 DEF n
  <2>2. T[3] = Term(r[id].w, id)
    BY <1>7 DEF TextOf, RequestText
  <2>3. text[3] = Term(r[id].w, id)
    BY <1>2, <2>1, <2>2
  <2>4. r[id].w \in Word
    BY <1>4, <1>5, <1>7 DEF RequestRecord
  <2> QED BY <2>1, <2>3, <2>4 DEF OneWord, IsList, Term
<1> QED BY <1>4, <1>5, <1>6, <1>7

LEMMA ExecutedIsText ==
    ASSUME RoutingInv, NEW f \in FrontEnd, CoreReadAll(f)
    PROVE  Executed(f) \in Seq(Token)
<1>1. Readable(f) /\ EndOfText(Received(f)) # 0
  BY DEF CoreReadAll, Chosen
<1>2. Received(f) \in Seq(Token)
  BY <1>1, ReceivedIsOwn, OwnTextIsText
<1> QED BY <1>1, <1>2, MarkEndsText DEF Executed

\* What a request may be executed as.
Serves(q, as) ==
    \/ q.op = as /\ as \in {"list", "get", "put"}
    \/ q.op = "put" /\ as = "starved"
    \/ q.op \in {"get", "put"} /\ q.w = ListWord /\ as = "list"

\* The text of a request is executed as what the client asked, or starves.
LEMMA ExecuteServes ==
    ASSUME NEW r \in Seq(RequestRecord), NEW id \in DOMAIN r, NEW f,
           NEW text \in Seq(Token), Accepted(text), Execute(f, text),
           AllOf(r, text, id) \/ (IsList(text) /\ Remains(r, text, id))
    PROVE  \E as \in {"list", "get", "put", "starved"} :
              /\ log' = Append(log, [from |-> f, text |-> text, as |-> as])
              /\ Serves(r[id], as)
              /\ IF as = "put" THEN r[id].w \in Word /\ dico' = PutList(dico, r[id].w)
                 ELSE dico' = dico
<1>1. ~ExecuteWrong(text)
  <2>1. CASE AllOf(r, text, id)
    <3>1. CASE IsList(text)
      BY <3>1 DEF ExecuteWrong
    <3>2. CASE ~IsList(text)
      <4>1. OneWord(text)
        BY <2>1, <3>2, TextSaysRequest
      <4> QED BY <3>2, <4>1 DEF ExecuteWrong, Accepted
    <3> QED BY <3>1, <3>2
  <2>2. CASE IsList(text)
    BY <2>2 DEF ExecuteWrong
  <2> QED BY <2>1, <2>2
<1>2. CASE ExecuteList(text) /\ Record(f, text, "list")
  <2>1. IsList(text) /\ dico' = dico
    BY <1>2 DEF ExecuteList
  <2>2. Serves(r[id], "list")
    <3>1. CASE AllOf(r, text, id)
      <4>1. r[id].op = "list"
        BY <2>1, <3>1, TextSaysRequest
      <4> QED BY <4>1 DEF Serves
    <3>2. CASE Remains(r, text, id)
      BY <3>2 DEF Remains, Serves
    <3> QED BY <3>1, <3>2
  <2> QED BY <1>2, <2>1, <2>2 DEF Record
<1>3. ASSUME OneWord(text), NEW sym \in {"get", "put"}, IsCall(text, sym)
      PROVE  r[id].op = sym /\ text[3].w = r[id].w /\ r[id].w \in Word
  <2>1. ~IsList(text) /\ text[1].sym = sym
    BY <1>3 DEF OneWord, IsList, IsCall
  <2>2. AllOf(r, text, id)
    BY <2>1
  <2>3. /\ r[id].op = "list" => IsList(text)
        /\ r[id].op # "list" => /\ text[1].sym = r[id].op
                               /\ text[3] = Term(r[id].w, id) /\ r[id].w \in Word
    BY <2>2, TextSaysRequest
  <2>4. r[id].op # "list"
    BY <2>1, <2>3
  <2> QED BY <2>1, <2>3, <2>4 DEF Term
<1>4. CASE ExecuteGet(text) /\ Record(f, text, "get")
  <2>1. r[id].op = "get" /\ dico' = dico
    BY <1>3, <1>4 DEF ExecuteGet
  <2> QED BY <1>4, <2>1 DEF Record, Serves
<1>5. CASE ExecutePut(text) /\ Record(f, text, "put")
  <2>1. r[id].op = "put" /\ dico' = PutList(dico, r[id].w) /\ r[id].w \in Word
    BY <1>3, <1>5 DEF ExecutePut
  <2> QED BY <1>5, <2>1 DEF Record, Serves
<1>6. CASE ExecutePutFails(text) /\ Record(f, text, "starved")
  <2>1. r[id].op = "put" /\ dico' = dico
    BY <1>3, <1>6 DEF ExecutePutFails
  <2> QED BY <1>6, <2>1 DEF Record, Serves
<1> QED BY <1>1, <1>2, <1>4, <1>5, <1>6 DEF Execute

\* What is accepted is a request of f, later than those of f before it.
LEMMA ExecutedRequest ==
    ASSUME RequestInv, RequestInv', NEW f \in FrontEnd, CoreReadAll(f),
           UNCHANGED frontVars, Accepted(Executed(f)),
           NEW id, id = Executed(f)[1].id
    PROVE  /\ id \in DOMAIN reqs /\ reqs[id].from = f
           /\ \/ AllOf(reqs, Executed(f), id)
              \/ IsList(Executed(f)) /\ Remains(reqs, Executed(f), id)
           /\ \A n \in 1..Len(log) : log[n].from = f => log[n].text[1].id < id
<1> DEFINE text == Executed(f)
           E == [from : FrontEnd, text : Seq(Token), as : Kind]
           last == Len(log) + 1
<1>1. Execute(f, text) /\ Accepted(text) /\ reqs' = reqs
  BY DEF CoreReadAll, Executed, frontVars
<1>2. log \in Seq(E) /\ log' \in Seq(E) /\ Len(log) \in Nat
  <2>1. log \in Seq(E) /\ log' \in Seq(E)
    BY DEF RequestInv, LogInv
  <2> QED BY <2>1, LenProperties
<1>3. id = text[1].id
  OBVIOUS
<1> HIDE DEF text
<1> PICK as \in Kind : log' = Append(log, [from |-> f, text |-> text, as |-> as])
  BY <1>1, ExecuteRecords
<1> DEFINE entry == [from |-> f, text |-> text, as |-> as]
<1>4. entry.from = f /\ entry.text = text /\ entry.as = as /\ log' = Append(log, entry)
  OBVIOUS
<1>e. entry \in E
  <2>1. text \in Seq(Token)
    BY ExecutedIsText DEF RequestInv, text
  <2> QED BY <2>1
<1> HIDE DEF entry, E
<1>5. /\ Len(log') = last /\ log'[last] = entry
      /\ \A n \in 1..Len(log) : log'[n] = log[n]
  BY ONLY <1>2, <1>4, <1>e, AppendProperties
<1>6. /\ \A n \in 1..Len(log') : \A g \in FrontEnd :
            log'[n].from = g => Logged(reqs', log'[n], Stream(g)', pc'[g], cur'[g])
      /\ \A m, n \in 1..Len(log') :
            (m < n /\ log'[m].from = log'[n].from) => log'[m].text[1].id < log'[n].text[1].id
  BY DEF RequestInv, LogInv
<1>7. Logged(reqs', entry, Stream(f)', pc'[f], cur'[f])
  <2>1. last \in 1..Len(log')
    BY <1>2, <1>5
  <2>2. \A g \in FrontEnd :
            log'[last].from = g => Logged(reqs', log'[last], Stream(g)', pc'[g], cur'[g])
    BY <1>6, <2>1
  <2> QED BY <1>4, <1>5, <2>2
<1>8. /\ id \in DOMAIN reqs /\ reqs[id].from = f
      /\ AllOf(reqs, text, id) \/ Remains(reqs, text, id)
  BY <1>1, <1>3, <1>4, <1>7 DEF Logged
<1>9. AllOf(reqs, text, id) \/ (IsList(text) /\ Remains(reqs, text, id))
  <2>1. Remains(reqs, text, id) => IsList(text)
    BY DEF Remains, IsList, SpellsList, Term
  <2> QED BY <1>8, <2>1
<1>10. \A n \in 1..Len(log) : log[n].from = f => log[n].text[1].id < id
  <2> SUFFICES ASSUME NEW n \in 1..Len(log), log[n].from = f
               PROVE  log[n].text[1].id < id
    OBVIOUS
  <2>1. n \in 1..Len(log') /\ last \in 1..Len(log') /\ n < last
    BY <1>2, <1>5
  <2>2. log'[n] = log[n] /\ log'[last] = entry
    BY <1>5
  <2> QED BY <1>3, <1>4, <1>6, <2>1, <2>2
<1> QED BY <1>8, <1>9, <1>10 DEF text
-----------------------------------------------------------------------------
(* The dictionary.                                                         *)

\* A turn of the loop leaves the dictionary alone, or puts the word of a put.
LEMMA CoreReadAllStores ==
    ASSUME RequestInv, RequestInv', NEW f \in FrontEnd, CoreReadAll(f), UNCHANGED frontVars
    PROVE  \/ dico' = dico
           \/ /\ Accepted(Executed(f)) /\ OneWord(Executed(f))
              /\ Executed(f)[1].sym = "put" /\ Executed(f)[3].w \in Word
              /\ dico' = PutList(dico, Executed(f)[3].w)
<1> DEFINE text == Executed(f)
<1>1. Execute(f, text)
  BY DEF CoreReadAll, Executed
<1> HIDE DEF text
<1>2. CASE ExecutePut(text)
  <2>1. /\ IsCall(text, "put") /\ OneWord(text) /\ dico' = PutList(dico, text[3].w)
        /\ Accepted(text) /\ text[1].sym = "put"
    BY <1>2 DEF ExecutePut, Accepted, IsCall
  <2>2. text \in Seq(Token)
    BY ExecutedIsText DEF text, RequestInv
  <2>3. Len(text) = 3 /\ text[3].sym = "word"
    BY <2>1 DEF OneWord
  <2>4. text[3] \in Token
    <3>1. 3 \in 1..Len(text)
      BY <2>3
    <3> QED BY <2>2, <3>1, ElementOfSeq
  <2>5. text[3].w \in Word
    BY <2>3, <2>4 DEF Token
  <2> QED BY <2>1, <2>5 DEF text
<1>3. CASE ~ExecutePut(text)
  BY <1>1, <1>3 DEF Execute, ExecuteList, ExecuteGet, ExecutePutFails, ExecuteWrong
<1> QED BY <1>2, <1>3

\* Every other step leaves the dictionary and the log alone.
LEMMA OtherStepsStoreNothing ==
    ASSUME [Next]_vars
    PROVE  \/ \E f \in FrontEnd : CoreReadAll(f) /\ UNCHANGED frontVars
           \/ UNCHANGED <<dico, log, reqs>>
           \/ \E f \in FrontEnd : Request(f)
<1>1. CASE CoreStep
  BY <1>1 DEF CoreStep, CoreReadPart, CoreOverflow, CoreWrite, CoreTimeout, frontVars
<1>2. ASSUME NEW f \in FrontEnd, FrontStep(f)
      PROVE  UNCHANGED <<dico, log, reqs>>
  BY <1>2 DEF FrontStep, ClearRead, ClearDone, Send, HttpRead, MidnetRead, GiveUp, Finish,
              coreVars, frontVars
<1>3. ASSUME NEW f \in FrontEnd, Die(f)
      PROVE  UNCHANGED <<dico, log, reqs>>
  BY <1>3 DEF Die, Crash, coreVars
<1>4. CASE UNCHANGED vars
  BY <1>4 DEF vars, coreVars, frontVars
<1> QED BY <1>1, <1>2, <1>3, <1>4 DEF Next

LEMMA SortedNext ==
    ASSUME RequestInv, RequestInv', SortedInv, [Next]_vars
    PROVE  SortedInv'
<1>1. dico \in Seq(Key)
  BY DEF RequestInv, RoutingInv, CoreInv
<1>2. ASSUME NEW f \in FrontEnd, CoreReadAll(f), UNCHANGED frontVars
      PROVE  SortedInv'
  <2>1. CASE dico' = dico
    BY <2>1 DEF SortedInv
  <2>2. ASSUME Executed(f)[3].w \in Word, dico' = PutList(dico, Executed(f)[3].w)
        PROVE  SortedInv'
    BY <1>1, <2>2, PutListSorted DEF SortedInv
  <2> QED BY <1>2, <2>1, <2>2, CoreReadAllStores
<1>3. CASE UNCHANGED <<dico, log, reqs>>
  BY <1>3 DEF SortedInv
<1>4. ASSUME NEW f \in FrontEnd, Request(f)
      PROVE  SortedInv'
  BY <1>4 DEF SortedInv, Request, coreVars
<1> QED BY <1>2, <1>3, <1>4, OtherStepsStoreNothing
-----------------------------------------------------------------------------
(* The refinement.                                                         *)

Asked(q) == [from |-> q.from, op |-> q.op, w |-> q.w]
MadeOf(r) == [i \in DOMAIN r |-> Asked(r[i])]
TakenOf(l) == {[id |-> l[n].text[1].id, as |-> l[n].as] : n \in DOMAIN l}

LEMMA MadeGrows ==
    ASSUME NEW r \in Seq(RequestRecord), NEW q \in RequestRecord
    PROVE  MadeOf(Append(r, q)) = Append(MadeOf(r), Asked(q))
<1> DEFINE A == {Asked(x) : x \in RequestRecord}
           new == Append(r, q)
<1>1. /\ Len(r) \in Nat /\ DOMAIN r = 1..Len(r) /\ DOMAIN new = 1..(Len(r) + 1)
      /\ \A i \in 1..Len(r) : new[i] = r[i] /\ r[i] \in RequestRecord
      /\ new[Len(r) + 1] = q
  BY AppendProperties, LenProperties, ElementOfSeq
<1>2. /\ MadeOf(r) = [i \in 1..Len(r) |-> Asked(r[i])]
      /\ MadeOf(new) = [i \in 1..(Len(r) + 1) |-> Asked(new[i])]
  BY <1>1 DEF MadeOf
<1> DEFINE old == MadeOf(r)
           longer == MadeOf(new)
           a == Asked(q)
<1>3. old \in Seq(A) /\ Len(old) = Len(r) /\ a \in A
  <2>1. \A i \in 1..Len(r) : Asked(r[i]) \in A
    BY <1>1
  <2>2. a \in A
    OBVIOUS
  <2> HIDE DEF A
  <2>3. old \in [1..Len(r) -> A]
    BY <1>2, <2>1
  <2> HIDE DEF old, a
  <2>4. old \in Seq(A)
    BY <1>1, <2>3
  <2>5. Len(old) = Len(r)
    BY <1>1, <2>3, <2>4
  <2> QED BY <2>2, <2>4, <2>5
<1>4. /\ DOMAIN longer = 1..(Len(r) + 1)
      /\ \A i \in 1..Len(r) : longer[i] = old[i]
      /\ longer[Len(r) + 1] = a
  BY <1>1, <1>2
<1>5. longer = [i \in 1..(Len(r) + 1) |-> longer[i]]
  BY <1>2
<1> HIDE DEF A, old, longer, a
<1>6. longer = Append(old, a)
  <2> DEFINE both == Append(old, a)
             k == Len(r) + 1
  <2>1. /\ both \in Seq(A) /\ Len(both) = k
        /\ \A i \in 1..Len(r) : both[i] = old[i]
        /\ both[k] = a
    BY <1>1, <1>3, AppendProperties
  <2> HIDE DEF both
  <2>2. both = [i \in 1..k |-> both[i]]
    BY <2>1, LenProperties
  <2>3. \A i \in 1..k : longer[i] = both[i]
    BY <1>1, <1>4, <2>1
  <2> QED BY <1>5, <2>2, <2>3 DEF both
<1> QED BY <1>6 DEF longer, old, a, new

\* A client makes a request.
LEMMA RequestMakes ==
    ASSUME RequestInv, NEW f \in FrontEnd, Request(f)
    PROVE  Promise!Make
<1>1. PICK op, w : /\ Begin(f, op, w, Keys(dico))
                   /\ \/ op \in {"get", "put"} /\ w \in Word
                      \/ op \in {"list", "local"} /\ w = NoWord
  BY DEF Request
<1> DEFINE q == [from |-> f, op |-> op, w |-> w, before |-> Keys(dico)]
<1>2. /\ reqs \in Seq(RequestRecord) /\ dico \in Seq(Key)
      /\ reqs' = Append(reqs, q) /\ UNCHANGED <<dico, log>>
  BY <1>1 DEF RequestInv, RoutingInv, HistoryInv, CoreInv, Request, Begin, coreVars
<1>3. q \in RequestRecord
  <2>1. Keys(dico) \subseteq Key
    BY <1>2, LenProperties DEF Keys, ToSet
  <2> QED BY <1>1, <2>1 DEF RequestRecord
<1>4. Asked(q) \in [from : {"http", "midnet"}, op : {"get", "put"}, w : Word]
          \cup [from : {"http", "midnet"}, op : {"list", "local"}, w : {0}]
  BY <1>1 DEF Asked, FrontEnd, NoWord
<1> HIDE DEF q
<1>5. MadeOf(reqs)' = Append(MadeOf(reqs), Asked(q))
  BY <1>2, <1>3, MadeGrows DEF MadeOf
<1>6. Keys(dico)' = Keys(dico) /\ TakenOf(log)' = TakenOf(log)
  BY <1>2 DEF Keys, ToSet, TakenOf
<1> QED BY <1>4, <1>5, <1>6 DEF Promise!Make, MadeOf, Asked, TakenOf

LEMMA TakeIsNext ==
    ASSUME NEW i \in DOMAIN MadeOf(reqs), NEW as \in {"list", "get", "put", "starved"},
           Promise!Take(i, as)
    PROVE  Promise!Next
BY Zenon DEF Promise!Next, MadeOf, Asked

\* The core executes one.
LEMMA CoreReadAllTakes ==
    ASSUME RequestInv, RequestInv', IntactRequests, SortedInv,
           NEW f \in FrontEnd, CoreReadAll(f), UNCHANGED frontVars
    PROVE  Promise!Next \/ UNCHANGED Promise!vars
<1> DEFINE text == Executed(f)
           id == text[1].id
<1>1. /\ reqs \in Seq(RequestRecord) /\ dico \in Seq(Key) /\ reqs' = reqs
      /\ log \in Seq([from : FrontEnd, text : Seq(Token), as : Kind])
  BY DEF RequestInv, RoutingInv, HistoryInv, CoreInv, LogInv, frontVars
<1>2. MadeOf(reqs)' = MadeOf(reqs)
  BY <1>1 DEF MadeOf, Asked
<1>3. CASE Accepted(text)
  <2>1. /\ text \in Seq(Token) /\ Execute(f, text)
        /\ id \in DOMAIN reqs /\ reqs[id].from = f
        /\ AllOf(reqs, text, id) \/ (IsList(text) /\ Remains(reqs, text, id))
        /\ \A n \in 1..Len(log) : log[n].from = f => log[n].text[1].id < id
    <3>1. text \in Seq(Token) /\ Execute(f, text)
      BY ExecutedIsText DEF RequestInv, CoreReadAll, Executed
    <3>2. /\ id \in DOMAIN reqs /\ reqs[id].from = f
          /\ AllOf(reqs, text, id) \/ (IsList(text) /\ Remains(reqs, text, id))
          /\ \A n \in 1..Len(log) : log[n].from = f => log[n].text[1].id < id
      BY <1>3, ExecutedRequest
    <3> QED BY <3>1, <3>2
  <2> PICK as \in {"list", "get", "put", "starved"} :
          /\ log' = Append(log, [from |-> f, text |-> text, as |-> as])
          /\ Serves(reqs[id], as)
          /\ IF as = "put" THEN reqs[id].w \in Word /\ dico' = PutList(dico, reqs[id].w)
             ELSE dico' = dico
    BY <1>1, <1>3, <2>1, ExecuteServes
  <2>3. TakenOf(log)' = TakenOf(log) \cup {[id |-> id, as |-> as]}
    <3> DEFINE entry == [from |-> f, text |-> text, as |-> as]
               E == [from : FrontEnd, text : Seq(Token), as : Kind]
               Took(e) == [id |-> e.text[1].id, as |-> e.as]
    <3>1. entry \in E /\ log \in Seq(E) /\ entry.text[1].id = id /\ entry.as = as
      BY <1>1, <2>1 DEF Kind
    <3>2. log' = Append(log, entry)
      OBVIOUS
    <3>4. /\ TakenOf(log) = {Took(log[n]) : n \in DOMAIN log}
          /\ TakenOf(log)' = {Took(log'[n]) : n \in DOMAIN log'}
          /\ Took(entry) = [id |-> id, as |-> as]
      BY <3>1 DEF TakenOf
    <3> HIDE DEF entry, id, E, Took
    <3>3. /\ DOMAIN log = 1..Len(log) /\ DOMAIN log' = 1..(Len(log) + 1) /\ Len(log) \in Nat
          /\ \A n \in 1..Len(log) : log'[n] = log[n]
          /\ log'[Len(log) + 1] = entry
      BY ONLY <3>1, <3>2, AppendProperties, LenProperties
    <3> DEFINE grown == log'
               last == Len(log) + 1
    <3>5. /\ DOMAIN log = 1..Len(log) /\ DOMAIN grown = 1..last /\ last = Len(log) + 1
          /\ \A n \in 1..Len(log) : grown[n] = log[n]
          /\ grown[last] = entry /\ Len(log) \in Nat
      BY <3>3
    <3> HIDE DEF grown, last
    <3>6. DOMAIN grown = DOMAIN log \cup {last}
      BY ONLY <3>5
    <3>7. {Took(grown[n]) : n \in DOMAIN grown}
          = {Took(log[n]) : n \in DOMAIN log} \cup {Took(entry)}
      <4>1. \A n \in DOMAIN log : Took(grown[n]) = Took(log[n])
        BY ONLY <3>5
      <4>2. Took(grown[last]) = Took(entry)
        BY ONLY <3>5
      <4> QED BY ONLY <3>6, <4>1, <4>2
    <3> QED BY <3>4, <3>7 DEF grown
  <2> HIDE DEF id
  <2>4. /\ MadeOf(reqs)[id] = Asked(reqs[id]) /\ id \in DOMAIN MadeOf(reqs)
        /\ \A j \in DOMAIN reqs : MadeOf(reqs)[j] = Asked(reqs[j])
    BY <2>1 DEF MadeOf
  <2>5. \A t \in TakenOf(log) : /\ t.id \in DOMAIN reqs
                                /\ reqs[t.id].from = f => t.id < id
    <3> SUFFICES ASSUME NEW n \in DOMAIN log
                 PROVE  /\ log[n].text[1].id \in DOMAIN reqs
                        /\ reqs[log[n].text[1].id].from = f => log[n].text[1].id < id
      BY DEF TakenOf
    <3>1. log[n].text[1].id \in DOMAIN reqs /\ reqs[log[n].text[1].id].from = log[n].from
      BY DEF IntactRequests
    <3>2. n \in 1..Len(log)
      BY <1>1, LenProperties
    <3> QED BY <2>1, <3>1, <3>2
  <2>6. \A t \in TakenOf(log) : t.id # id
    <3>1. ~(id < id)
      BY <1>1, <2>1, LenProperties
    <3> QED BY <2>1, <2>5, <3>1
  <2>7. Promise!InTurn(id)
    <3>1. \A t \in TakenOf(log) : MadeOf(reqs)[t.id].from = MadeOf(reqs)[id].from => t.id < id
      <4> SUFFICES ASSUME NEW t \in TakenOf(log),
                          MadeOf(reqs)[t.id].from = MadeOf(reqs)[id].from
                   PROVE  t.id < id
        OBVIOUS
      <4>1. t.id \in DOMAIN reqs /\ (reqs[t.id].from = f => t.id < id)
        BY <2>5
      <4>2. MadeOf(reqs)[t.id] = Asked(reqs[t.id]) /\ MadeOf(reqs)[id] = Asked(reqs[id])
        BY <2>4, <4>1
      <4>3. reqs[t.id].from = reqs[id].from
        BY <4>2 DEF Asked
      <4> QED BY <2>1, <4>1, <4>3
    <3> QED BY <2>6, <3>1 DEF Promise!InTurn, MadeOf, Asked, TakenOf
  <2>8. Promise!TakenAs(id, as)
    <3>1. /\ MadeOf(reqs)[id].op = reqs[id].op /\ MadeOf(reqs)[id].w = reqs[id].w
      BY <2>4 DEF Asked
    <3> QED BY <3>1 DEF Promise!TakenAs, Serves, MadeOf, Asked
  <2>9. Keys(dico)' = IF as = "put" THEN Keys(dico) \cup {Cut[MadeOf(reqs)[id].w]} ELSE Keys(dico)
    <3>1. CASE as # "put"
      BY <3>1 DEF Keys, ToSet
    <3>2. CASE as = "put"
      <4>1. MadeOf(reqs)[id].w = reqs[id].w
        BY <2>4 DEF Asked
      <4>2. Keys(PutList(dico, reqs[id].w)) = Keys(dico) \cup {Cut[reqs[id].w]}
        BY <1>1, <3>2, PutListKeys DEF SortedInv
      <4> QED BY <3>2, <4>1, <4>2 DEF Keys, ToSet
    <3> QED BY <3>1, <3>2
  <2> PICK i : i = id
    OBVIOUS
  <2>10. Promise!Take(i, as)
    BY <1>2, <2>3, <2>7, <2>8, <2>9 DEF Promise!Take, Promise!TakenAs, Promise!InTurn, MadeOf, Asked, TakenOf
  <2>11. i \in DOMAIN MadeOf(reqs)
    BY <2>4
  <2>12. as \in {"list", "get", "put", "starved"}
    OBVIOUS
  <2> QED BY ONLY <2>10, <2>11, <2>12, TakeIsNext, Zenon
<1>4. CASE ~Accepted(text)
  <2>1. dico' = dico
    BY <1>4, CoreReadAllStores
  <2>2. log' = log
    BY <1>4, ExecuteRecords DEF CoreReadAll, Executed
  <2> QED BY <1>1, <2>1, <2>2 DEF Promise!vars, Keys, ToSet
<1> QED BY <1>3, <1>4

LEMMA PromiseInit == Init => Promise!Init
BY DEF Init, CoreInit, FrontInit, Promise!Init, Keys, ToSet

LEMMA PromiseNext ==
    ASSUME RequestInv, RequestInv', IntactRequests, SortedInv, [Next]_vars
    PROVE  [Promise!Next]_(Promise!vars)
<1>1. ASSUME NEW f \in FrontEnd, CoreReadAll(f), UNCHANGED frontVars
      PROVE  Promise!Next \/ UNCHANGED Promise!vars
  BY <1>1, CoreReadAllTakes
<1>2. CASE UNCHANGED <<dico, log, reqs>>
  BY <1>2 DEF Promise!vars, Keys, ToSet
<1>3. ASSUME NEW f \in FrontEnd, Request(f)
      PROVE  Promise!Next
  BY <1>3, RequestMakes DEF Promise!Next
<1> QED BY <1>1, <1>2, <1>3, OtherStepsStoreNothing

LEMMA SortedHolds == Spec => []SortedInv
<1>1. Init => SortedInv
  BY DEF Init, CoreInit, SortedInv, StrictlySorted, IsSorted
<1>2. RequestInv /\ RequestInv' /\ SortedInv /\ [Next]_vars => SortedInv'
  BY SortedNext
<1> QED BY <1>1, <1>2, RequestHolds, PTL DEF Spec

\* Whatever delays run out, whatever is cancelled, cut or lost, and whoever
\* dies, the daemon's dictionary changes by whole requests that its clients
\* made, each at most once and those of a front end in order (midas.c:444-494),
\* and a put that is run stores its word: unless there was no memory, or the
\* word is "list" and the remains of the put were run as that command.
THEOREM PromiseIsKept == Spec => KeepsPromise
<1>1. RequestInv /\ RequestInv' /\ IntactRequests /\ SortedInv /\ [Next]_vars
          => [Promise!Next]_(Promise!vars)
  BY PromiseNext
<1> QED
  BY <1>1, PromiseInit, RequestHolds, RequestsAreIntact, SortedHolds, PTL
  DEF Spec, KeepsPromise, Promise!Spec
=============================================================================
