---------------------------- MODULE AnswerProofs -----------------------------
(***************************************************************************)
(* What the clients of Midas are told: that the model is of its type, and, *)
(* with timely processes, that an answer is the client's own, that it is   *)
(* true, and that a word is announced as added once.  For any dictionary,  *)
(* pipe size and number of requests; RECEPTION_LENGTH (2048) exceeds       *)
(* BUFFER_LENGTH (1448), so that a request, at most five tokens here, fits *)
(* the core's buffer: ReceptionLength >= 5.                                *)
(*                                                                         *)
(* AskInv: while f waits, its request is on its way whole and nothing of   *)
(* an answer has come, or the answer is all there is and the request is    *)
(* gone; or the core does not watch f (Stranded), and nothing ever comes.  *)
(* OwnInv: what f hears is then of its own request.  TruthInv: a verdict   *)
(* says what get() or put() did since the request began (Judging), and the *)
(* words of a list, written, read and coming, are the stored ones, nothing *)
(* of them after the empty line that ends it (Enumerating).  AddInv: a     *)
(* word is stored from the moment a client is being told of it.            *)
(*                                                                         *)
(* At the end, that errors are earned, where the longest list fits the     *)
(* buffer of MidNet (AnswersFit; one that does not is cut, midnet.c:130).  *)
(* ErrorInv: the request of f is on its way, or its answer is, up to the   *)
(* end that f looks for, or there was no memory to store its word.         *)
(***************************************************************************)
EXTENDS MidasProofs, FiniteSetTheorems

\* The lines of a text are its tokens but the line feeds.
LEMMA LinesProperties ==
    ASSUME NEW S, NEW text \in Seq(S)
    PROVE  /\ Lines(text) \in Seq(S)
           /\ \A n \in 1..Len(Lines(text)) :
                 \E i \in 1..Len(text) : text[i].sym # "nl" /\ Lines(text)[n] = text[i]
           /\ \A i \in 1..Len(text) : text[i].sym # "nl" =>
                 \E n \in 1..Len(Lines(text)) : Lines(text)[n] = text[i]
<1> DEFINE at == {i \in DOMAIN text : text[i].sym # "nl"}
           UpTo(i) == {j \in at : j <= i}
           N == Cardinality(at)
           Line(n) == CHOOSE i \in at : Cardinality(UpTo(i)) = n
           rank == [i \in at |-> Cardinality(UpTo(i))]
<1>1. /\ Len(text) \in Nat /\ DOMAIN text = 1..Len(text)
      /\ \A i \in 1..Len(text) : text[i] \in S
  BY LenProperties, ElementOfSeq
<1>2. Lines(text) = [n \in 1..N |-> text[Line(n)]]
  BY DEF Lines
<1>3. /\ at \subseteq 1..Len(text)
      /\ \A i \in 1..Len(text) : text[i].sym # "nl" => i \in at
      /\ \A i \in at : text[i].sym # "nl"
  BY <1>1
<1> HIDE DEF at
<1>4. IsFiniteSet(at) /\ N \in Nat
  <2>1. IsFiniteSet(1..Len(text))
    BY <1>1, FS_Interval
  <2> QED BY <1>3, <2>1, FS_Subset, FS_CardinalityType
<1>5. \A i \in at : IsFiniteSet(UpTo(i)) /\ Cardinality(UpTo(i)) \in 1..N
  <2> SUFFICES ASSUME NEW i \in at
               PROVE  IsFiniteSet(UpTo(i)) /\ Cardinality(UpTo(i)) \in 1..N
    OBVIOUS
  <2>1. UpTo(i) \in SUBSET at /\ UpTo(i) # {}
    BY <1>1, <1>3
  <2> HIDE DEF UpTo
  <2>2. IsFiniteSet(UpTo(i)) /\ Cardinality(UpTo(i)) <= N
    BY <1>4, <2>1, FS_Subset
  <2>3. Cardinality(UpTo(i)) \in Nat /\ Cardinality(UpTo(i)) # 0
    BY <2>1, <2>2, FS_CardinalityType, FS_EmptySet
  <2> QED BY <1>4, <2>2, <2>3
<1>6. \A i, k \in at : Cardinality(UpTo(i)) = Cardinality(UpTo(k)) => i = k
  <2> SUFFICES ASSUME NEW i \in at, NEW k \in at, i < k,
                      Cardinality(UpTo(i)) = Cardinality(UpTo(k))
               PROVE  FALSE
    BY <1>1, <1>3
  <2>1. UpTo(i) \in SUBSET UpTo(k) /\ k \in UpTo(k) /\ k \notin UpTo(i)
    <3>1. \A j \in at : j \in Int
      BY <1>1, <1>3
    <3>2. \A j \in at : j <= i => j <= k
      BY <3>1
    <3>3. k <= k /\ ~(k <= i)
      BY <3>1
    <3> QED BY <3>2, <3>3
  <2>2. IsFiniteSet(UpTo(k))
    BY <1>5
  <2> HIDE DEF UpTo
  <2> QED BY <2>1, <2>2, FS_Subset
<1>7. rank \in Surjection(at, 1..N)
  <2> HIDE DEF UpTo
  <2>1. rank \in Injection(at, 1..N)
    BY <1>5, <1>6 DEF Injection, IsInjective
  <2>2. IsFiniteSet(1..N) /\ Cardinality(1..N) = N
    BY <1>4, FS_Interval
  <2> HIDE DEF rank
  <2> QED BY <2>1, <2>2, FS_Injection
<1>8. \A n \in 1..N : \E i \in at : Cardinality(UpTo(i)) = n
  <2> HIDE DEF UpTo
  <2> QED BY <1>7 DEF Surjection
<1> HIDE DEF UpTo, N, rank
<1>9. \A n \in 1..N : Line(n) \in at
  BY <1>8
<1>10. \A i \in at : Line(Cardinality(UpTo(i))) = i
  BY <1>6
<1>11. \A n \in 1..N : text[Line(n)] \in S
  BY <1>1, <1>3, <1>9
<1> HIDE DEF Line
<1>12. Lines(text) \in Seq(S) /\ Len(Lines(text)) = N
  <2>1. Lines(text) \in [1..N -> S]
    BY <1>2, <1>11
  <2> QED BY <1>4, <2>1 DEF N
<1>13. \A n \in 1..N : Lines(text)[n] = text[Line(n)]
  BY <1>2
<1>14. \A n \in 1..Len(Lines(text)) :
          \E i \in 1..Len(text) : text[i].sym # "nl" /\ Lines(text)[n] = text[i]
  BY <1>3, <1>9, <1>12, <1>13
<1>15. ASSUME NEW i \in 1..Len(text), text[i].sym # "nl"
       PROVE  \E n \in 1..Len(Lines(text)) : Lines(text)[n] = text[i]
  BY <1>3, <1>5, <1>10, <1>12, <1>13, <1>15 DEF N
<1> QED BY <1>12, <1>14, <1>15

\* A verdict page says of each line what the last number up to it says.
LEMMA VerdictsProperties ==
    ASSUME NEW lines \in Seq(Token)
    PROVE  /\ Verdicts(lines) \in Seq(Token)
           /\ Len(Verdicts(lines)) = Len(lines)
           /\ \A i \in 1..Len(lines) :
                 /\ Verdicts(lines)[i].id = lines[i].id
                 /\ lines[i].sym \in {"zero", "one"} => Verdicts(lines)[i].sym = lines[i].sym
<1> DEFINE Digits(i) == {j \in 1..i : lines[j].sym \in {"zero", "one"}}
           Said_(i) == IF Digits(i) = {} THEN "one" ELSE lines[Max(Digits(i))].sym
<1>1. /\ Len(lines) \in Nat /\ DOMAIN lines = 1..Len(lines)
      /\ \A i \in 1..Len(lines) : lines[i] \in Token
  BY LenProperties, ElementOfSeq
<1>2. Verdicts(lines) = [i \in 1..Len(lines) |-> Mark(Said_(i), lines[i].id)]
  BY <1>1 DEF Verdicts
<1>3. ASSUME NEW i \in 1..Len(lines)
      PROVE  /\ Said_(i) \in {"zero", "one"}
             /\ lines[i].sym \in {"zero", "one"} => Said_(i) = lines[i].sym
  <2>1. CASE Digits(i) = {}
    <3>1. lines[i].sym \notin {"zero", "one"}
      BY <1>1, <2>1
    <3> QED BY <2>1, <3>1
  <2>2. CASE Digits(i) # {}
    <3>1. /\ Digits(i) \subseteq 0..i
          /\ \A j \in Digits(i) : j <= i /\ lines[j].sym \in {"zero", "one"}
          /\ lines[i].sym \in {"zero", "one"} => i \in Digits(i)
      BY <1>1
    <3> HIDE DEF Digits
    <3>2. Max(Digits(i)) \in Digits(i) /\ \A j \in Digits(i) : j <= Max(Digits(i))
      BY <2>2, <3>1, GreatestElement
    <3>3. lines[i].sym \in {"zero", "one"} => Max(Digits(i)) = i
      <4>1. Max(Digits(i)) \in Int
        BY <3>1, <3>2
      <4> QED BY <3>1, <3>2, <4>1
    <3> QED BY <2>2, <3>1, <3>2, <3>3
  <2> QED BY <2>1, <2>2
<1> HIDE DEF Said_
<1>4. \A i \in 1..Len(lines) : Mark(Said_(i), lines[i].id) \in Token
  <2> SUFFICES ASSUME NEW i \in 1..Len(lines)
               PROVE  Mark(Said_(i), lines[i].id) \in Token
    OBVIOUS
  <2>1. lines[i].id \in ReqId
    BY <1>1 DEF Token
  <2> QED BY <1>3, <2>1 DEF Mark, Token, Symbol
<1>5. Verdicts(lines) \in [1..Len(lines) -> Token]
  BY <1>2, <1>4
<1>6. Verdicts(lines) \in Seq(Token) /\ Len(Verdicts(lines)) = Len(lines)
  BY <1>1, <1>5
<1>7. \A i \in 1..Len(lines) : /\ Verdicts(lines)[i].id = lines[i].id
                               /\ Verdicts(lines)[i].sym = Said_(i)
  BY <1>2 DEF Mark
<1> QED BY <1>3, <1>6, <1>7
-----------------------------------------------------------------------------
(* One turn of the reading loops.                                          *)

HttpRoom == ReceptionLength - Len(inbuf["http"])
HttpText == inbuf["http"] \o Chunk(toFront["http"], HttpRoom)
HttpLast == IF EndOfText(HttpText) # 0 THEN EndOfText(HttpText) ELSE LastNewline(HttpText)
HttpUsed == page["http"] \o Lines(SubSeq(HttpText, 1, HttpLast))
HttpKept == SubSeq(HttpText, HttpLast + 1, Len(HttpText))
HttpOp == reqs[cur["http"]].op

\* The ways in which a turn of the HTTP front end ends.
LEMMA HttpReadCases ==
    ASSUME HttpRead
    PROVE  /\ pc["http"] = "wait" /\ toFront["http"] # <<>>
           /\ toFront' = [toFront EXCEPT !["http"] = Rest(@, HttpRoom)] /\ toCore' = toCore
           /\ \/ (HttpRoom <= 0 \/ Miscounted(HttpOp, HttpText)) /\ Finish("http", "error", <<>>)
              \/ /\ FirstNewline(HttpText) = 1
                 /\ Finish("http", "page", HttpPage(HttpOp, page["http"]))
              \/ /\ EndOfText(HttpText) # 0
                 /\ Finish("http", "page", HttpPage(HttpOp, HttpUsed))
              \/ /\ FirstNewline(HttpText) # 1 /\ EndOfText(HttpText) = 0
                 /\ page' = [page EXCEPT !["http"] = HttpUsed]
                 /\ inbuf' = [inbuf EXCEPT !["http"] = HttpKept]
                 /\ UNCHANGED <<pc, cur, out, reqs, told>>
BY DEF HttpRead, HttpRoom, HttpText, HttpLast, HttpUsed, HttpKept, HttpOp

MidnetRoom == BufferLength - Len(inbuf["midnet"])
MidnetText == inbuf["midnet"] \o Chunk(toFront["midnet"], MidnetRoom)

\* And those in which a turn of MidNet ends.
LEMMA MidnetReadCases ==
    ASSUME MidnetRead
    PROVE  /\ pc["midnet"] = "wait" /\ toFront["midnet"] # <<>>
           /\ toFront' = [toFront EXCEPT !["midnet"] = Rest(@, MidnetRoom)] /\ toCore' = toCore
           /\ \/ Whole(MidnetText) /\ Finish("midnet", "page", MidnetText)
              \/ ~Whole(MidnetText) /\ Full(MidnetText) /\ Finish("midnet", "cut", MidnetText)
              \/ /\ ~Whole(MidnetText) /\ ~Full(MidnetText)
                 /\ inbuf' = [inbuf EXCEPT !["midnet"] = MidnetText]
                 /\ UNCHANGED <<pc, cur, out, page, reqs, told>>
BY DEF MidnetRead, MidnetRoom, MidnetText

\* What the HTTP front end reads, uses and keeps is made of the tokens it finds.
LEMMA HttpTextsAre ==
    ASSUME NEW S, inbuf["http"] \in Seq(S), toFront["http"] \in Seq(S), page["http"] \in Seq(S)
    PROVE  /\ HttpRoom \in Int
           /\ HttpText \in Seq(S) /\ HttpUsed \in Seq(S) /\ HttpKept \in Seq(S)
           /\ Rest(toFront["http"], HttpRoom) \in Seq(S)
           /\ HttpLast \in 0..Len(HttpText)
           /\ SubSeq(HttpText, 1, HttpLast) \in Seq(S)
           /\ Lines(SubSeq(HttpText, 1, HttpLast)) \in Seq(S)
<1>1. HttpRoom \in Int
  BY BoundAssumption, LenProperties DEF HttpRoom
<1>2. Rest(toFront["http"], HttpRoom) \in Seq(S) /\ HttpText \in Seq(S)
  BY <1>1, ChunkAndRest, ConcatProperties DEF HttpText
<1>3. HttpLast \in 0..Len(HttpText) /\ Len(HttpText) \in Nat
  BY <1>2, EndOfTextBounds, LastNewlineBounds, LenProperties DEF HttpLast
<1>4. SubSeq(HttpText, 1, HttpLast) \in Seq(S) /\ HttpKept \in Seq(S)
  BY <1>2, <1>3, PieceOfText DEF HttpKept
<1>5. Lines(SubSeq(HttpText, 1, HttpLast)) \in Seq(S)
  BY <1>4, LinesProperties
<1>6. HttpUsed \in Seq(S)
  BY <1>5, ConcatProperties DEF HttpUsed
<1> QED BY <1>1, <1>2, <1>3, <1>4, <1>5, <1>6

LEMMA MidnetTextsAre ==
    ASSUME NEW S, inbuf["midnet"] \in Seq(S), toFront["midnet"] \in Seq(S)
    PROVE  /\ MidnetRoom \in Int
           /\ MidnetText \in Seq(S) /\ Rest(toFront["midnet"], MidnetRoom) \in Seq(S)
<1>1. MidnetRoom \in Int
  BY BoundAssumption, LenProperties DEF MidnetRoom
<1> QED BY <1>1, ChunkAndRest, ConcatProperties DEF MidnetText

\* What ends a request says what becomes of the client and of the front end.
LEMMA FinishEnds ==
    ASSUME NEW f, NEW kind, NEW body, Finish(f, kind, body)
    PROVE  /\ told' = [told EXCEPT ![cur[f]] = [kind |-> kind, body |-> body]]
           /\ pc' = [pc EXCEPT ![f] = "idle"] /\ cur' = [cur EXCEPT ![f] = 0]
           /\ inbuf' = [inbuf EXCEPT ![f] = <<>>] /\ page' = [page EXCEPT ![f] = <<>>]
           /\ UNCHANGED <<out, reqs>>
BY DEF Finish

\* A new request is the last of the history and knows the keys of its time.
LEMMA RequestAppends ==
    ASSUME RoutingInv, NEW f \in FrontEnd, Request(f)
    PROVE  /\ \E q \in RequestRecord : /\ q.from = f /\ q.before = Keys(dico)
                                        /\ reqs' = Append(reqs, q)
           /\ pc[f] = "idle" /\ Len(reqs) < MaxReq
           /\ cur' = [cur EXCEPT ![f] = Len(reqs) + 1]
           /\ pc' = [pc EXCEPT ![f] = "clear"]
           /\ UNCHANGED <<out, inbuf, page, told, toCore, toFront>> /\ UNCHANGED coreVars
           /\ Len(reqs) \in Nat /\ Len(reqs') = Len(reqs) + 1
           /\ \A i \in DOMAIN reqs : i \in DOMAIN reqs' /\ reqs'[i] = reqs[i]
           /\ Len(reqs) + 1 \in DOMAIN reqs' /\ reqs'[Len(reqs) + 1].before = Keys(dico)
           /\ DOMAIN reqs' = DOMAIN reqs \cup {Len(reqs) + 1}
           /\ Len(reqs) + 1 \notin DOMAIN reqs
<1>1. Keys(dico) \subseteq Key
  BY LenProperties DEF RoutingInv, CoreInv, Keys, ToSet
<1>2. PICK op, w : /\ Begin(f, op, w, Keys(dico))
                   /\ \/ op \in {"get", "put"} /\ w \in Word
                      \/ op \in {"list", "local"} /\ w = NoWord
  BY DEF Request
<1> DEFINE q == [from |-> f, op |-> op, w |-> w, before |-> Keys(dico)]
<1>3. q \in RequestRecord /\ q.from = f /\ q.before = Keys(dico)
  BY <1>1, <1>2 DEF RequestRecord
<1>4. reqs' = Append(reqs, q)
  BY <1>2 DEF Begin
<1>5. reqs \in Seq(RequestRecord)
  BY DEF RoutingInv, HistoryInv
<1> HIDE DEF q
<1>6. /\ pc[f] = "idle" /\ Len(reqs) < MaxReq
      /\ cur' = [cur EXCEPT ![f] = Len(reqs) + 1]
      /\ pc' = [pc EXCEPT ![f] = "clear"]
      /\ UNCHANGED <<out, inbuf, page, told, toCore, toFront>> /\ UNCHANGED coreVars
  BY <1>2 DEF Begin, Request, pipes
<1>7. /\ Len(reqs) \in Nat /\ DOMAIN reqs = 1..Len(reqs) /\ DOMAIN reqs' = 1..(Len(reqs) + 1)
      /\ Len(reqs') = Len(reqs) + 1
      /\ \A i \in 1..Len(reqs) : reqs'[i] = reqs[i]
      /\ reqs'[Len(reqs) + 1] = q
  BY <1>3, <1>4, <1>5, AppendProperties, LenProperties
<1>8. /\ \A i \in DOMAIN reqs : i \in DOMAIN reqs' /\ reqs'[i] = reqs[i]
      /\ DOMAIN reqs' = DOMAIN reqs \cup {Len(reqs) + 1}
      /\ Len(reqs) + 1 \notin DOMAIN reqs
      /\ Len(reqs) + 1 \in DOMAIN reqs'
  BY <1>7
<1> QED BY <1>3, <1>4, <1>6, <1>7, <1>8
-----------------------------------------------------------------------------
(* Types.                                                                  *)

TypeInv ==
    /\ listening \in BOOLEAN
    /\ cur \in [FrontEnd -> 0..Len(reqs)]
    /\ page \in [FrontEnd -> Seq(Token)]
    /\ told \in [ReqId -> [kind : Outcome, body : Seq(Token)]]

LEMMA FinishKeepsTypes ==
    ASSUME TypeInv, HistoryInv, NEW f \in FrontEnd, NEW kind \in Outcome, NEW body \in Seq(Token),
           Finish(f, kind, body), UNCHANGED listening
    PROVE  TypeInv'
<1>1. /\ told' = [told EXCEPT ![cur[f]] = [kind |-> kind, body |-> body]]
      /\ cur' = [cur EXCEPT ![f] = 0] /\ page' = [page EXCEPT ![f] = <<>>]
      /\ reqs' = reqs
  BY FinishEnds
<1>2. 0 \in 0..Len(reqs) /\ <<>> \in Seq(Token)
  BY LenProperties DEF HistoryInv
<1>3. [kind |-> kind, body |-> body] \in [kind : Outcome, body : Seq(Token)]
  OBVIOUS
<1> QED BY <1>1, <1>2, <1>3 DEF TypeInv

LEMMA FrontStepKeepsTypes ==
    ASSUME TypeInv, RoutingInv, NEW f \in FrontEnd, FrontStep(f)
    PROVE  TypeInv'
<1>1. HistoryInv /\ listening' = listening /\ <<>> \in Seq(Token)
  BY DEF RoutingInv, FrontStep, coreVars
<1>2. CASE ClearRead(f) \/ Send(f)
  BY <1>1, <1>2 DEF TypeInv, ClearRead, Send, frontVars
<1>3. CASE ClearDone(f)
  <2>1. CASE reqs[cur[f]].op = "local"
    BY <1>1, <1>3, <2>1, FinishKeepsTypes DEF ClearDone, Outcome
  <2>2. CASE reqs[cur[f]].op # "local"
    BY <1>1, <1>3, <2>2 DEF TypeInv, ClearDone
  <2> QED BY <2>1, <2>2
<1>4. CASE f = "http" /\ HttpRead
  <2>1. /\ inbuf["http"] \in Seq(Token) /\ toFront["http"] \in Seq(Token)
        /\ page["http"] \in Seq(Token)
    BY <1>4 DEF TypeInv, RoutingInv, PipeInv, FrontInv
  <2>2. HttpUsed \in Seq(Token)
    BY <2>1, HttpTextsAre
  <2>3. \A op, lines : lines \in Seq(Token) => HttpPage(op, lines) \in Seq(Token)
    BY VerdictsProperties DEF HttpPage
  <2>4. CASE page' = [page EXCEPT !["http"] = HttpUsed] /\ UNCHANGED <<cur, reqs, told>>
    BY <1>1, <2>2, <2>4 DEF TypeInv
  <2>5. ASSUME NEW kind \in Outcome, NEW body \in Seq(Token), Finish("http", kind, body)
        PROVE  TypeInv'
    BY <1>1, <1>4, <2>5, FinishKeepsTypes
  <2>6. /\ "error" \in Outcome /\ "page" \in Outcome
        /\ HttpPage(HttpOp, page["http"]) \in Seq(Token)
        /\ HttpPage(HttpOp, HttpUsed) \in Seq(Token)
    BY <2>1, <2>2, <2>3 DEF Outcome
  <2> QED BY <1>1, <1>4, <2>4, <2>5, <2>6, HttpReadCases
<1>5. CASE f = "midnet" /\ MidnetRead
  <2>1. inbuf["midnet"] \in Seq(Token) /\ toFront["midnet"] \in Seq(Token)
    BY <1>5 DEF RoutingInv, PipeInv, FrontInv
  <2>2. MidnetText \in Seq(Token)
    BY <2>1, MidnetTextsAre
  <2>3. "page" \in Outcome /\ "cut" \in Outcome
    BY DEF Outcome
  <2>4. CASE UNCHANGED <<cur, reqs, told, page>>
    BY <1>1, <2>4 DEF TypeInv
  <2> QED BY <1>1, <1>5, <2>2, <2>3, <2>4, MidnetReadCases, FinishKeepsTypes
<1>6. CASE GiveUp(f)
  BY <1>1, <1>6, FinishKeepsTypes DEF GiveUp, Outcome
<1> QED BY <1>2, <1>3, <1>4, <1>5, <1>6 DEF FrontStep

LEMMA TypeNext ==
    ASSUME TypeInv, RoutingInv, [Next]_vars
    PROVE  TypeInv'
<1>1. CASE CoreStep
  BY <1>1 DEF TypeInv, CoreStep, CoreReadPart, CoreReadAll, CoreOverflow, CoreWrite,
              CoreTimeout, frontVars
<1>2. ASSUME NEW f \in FrontEnd, FrontStep(f)
      PROVE  TypeInv'
  BY <1>2, FrontStepKeepsTypes
<1>3. ASSUME NEW f \in FrontEnd, Request(f)
      PROVE  TypeInv'
  <2>1. /\ listening' = listening /\ page' = page /\ told' = told
        /\ cur' = [cur EXCEPT ![f] = Len(reqs) + 1]
    BY <1>3 DEF Request, Begin, coreVars
  <2>2. PICK q \in RequestRecord : reqs' = Append(reqs, q)
    BY <1>3, RequestAppends
  <2>3. Len(reqs) \in Nat /\ Len(reqs') = Len(reqs) + 1
    BY <2>2, AppendProperties, LenProperties DEF RoutingInv, HistoryInv
  <2> QED BY <2>1, <2>3 DEF TypeInv
<1>4. ASSUME NEW f \in FrontEnd, Die(f)
      PROVE  TypeInv'
  <2>1. 0 \in 0..Len(reqs) /\ <<>> \in Seq(Token)
    BY LenProperties DEF RoutingInv, HistoryInv
  <2> QED BY <1>4, <2>1 DEF TypeInv, Die, Crash, coreVars
<1>5. CASE UNCHANGED vars
  BY <1>5 DEF TypeInv, vars, coreVars, frontVars
<1> QED BY <1>1, <1>2, <1>3, <1>4, <1>5 DEF Next

LEMMA TypeHolds == Spec => []TypeInv
<1>1. Init => TypeInv
  <2> SUFFICES ASSUME Init
               PROVE  TypeInv
    OBVIOUS
  <2>1. listening \in BOOLEAN /\ reqs = <<>>
    BY DEF Init, CoreInit, FrontInit
  <2>2. cur \in [FrontEnd -> 0..0] /\ Len(reqs) = 0
    BY <2>1 DEF Init, FrontInit
  <2>3. page \in [FrontEnd -> Seq(Token)]
    BY DEF Init, FrontInit
  <2>4. told \in [ReqId -> [kind : Outcome, body : Seq(Token)]]
    <3>1. [kind |-> "none", body |-> <<>>] \in [kind : Outcome, body : Seq(Token)]
      BY DEF Outcome
    <3> QED BY <3>1 DEF Init, FrontInit
  <2> QED BY <2>1, <2>2, <2>3, <2>4 DEF TypeInv
<1>2. RequestInv /\ TypeInv /\ [Next]_vars => TypeInv'
  BY TypeNext DEF RequestInv
<1> QED BY <1>1, <1>2, RequestHolds, PTL DEF Spec

\* Every process of the daemon keeps to its types, for all constants, whatever
\* runs out, is lost or dies.
THEOREM MidasTypeCorrect == Spec => []TypeOK
<1>1. RequestInv /\ TypeInv => TypeOK
  <2> SUFFICES ASSUME RequestInv, TypeInv
               PROVE  TypeOK
    OBVIOUS
  <2>1. HistoryInv /\ PipeInv /\ CoreInv /\ FrontInv
    BY DEF RequestInv, RoutingInv
  <2>2. buffer \in Seq(Token)
    <3>1. <<>> \in Seq(Token)
      OBVIOUS
    <3>2. ASSUME NEW f \in FrontEnd, buffer \in Seq(Own(reqs, f))
          PROVE  buffer \in Seq(Token)
      BY <3>2, OwnTextIsText
    <3> QED BY <2>1, <3>1, <3>2 DEF CoreInv
  <2>3. pending \in Seq(Seq(Token))
    BY <2>1, OwnTextIsText DEF CoreInv
  <2>4. watched \in SUBSET FrontEnd
    BY <2>1 DEF CoreInv
  <2>5. log \in Seq([from : FrontEnd, text : Seq(Token), as : Kind])
    BY DEF RequestInv, LogInv
  <2> QED BY <2>1, <2>2, <2>3, <2>4, <2>5 DEF TypeOK, TypeInv, HistoryInv, PipeInv, CoreInv, FrontInv, Text
<1> QED BY <1>1, RequestHolds, TypeHolds, PTL
-----------------------------------------------------------------------------
(* The mark "\n\n".                                                        *)

LEMMA NoMark ==
    ASSUME NEW S, NEW text \in Seq(S)
    PROVE  EndOfText(text) = 0 <=>
               \A i \in 1..(Len(text) - 1) : ~(text[i].sym = "nl" /\ text[i + 1].sym = "nl")
<1> DEFINE ends == {i \in 1..(Len(text) - 1) :
                       text[i].sym = "nl" /\ text[i + 1].sym = "nl"}
<1>1. ends \subseteq Nat /\ 0 \notin ends
  OBVIOUS
<1>2. EndOfText(text) = IF ends = {} THEN 0 ELSE Min(ends)
  BY DEF EndOfText
<1>3. ends # {} => Min(ends) # 0
  <2> HIDE DEF ends
  <2> QED BY <1>1, LeastElement
<1> QED BY <1>2, <1>3

\* A text without the mark has none in its parts.
LEMMA NoMarkInParts ==
    ASSUME NEW S, NEW a \in Seq(S), NEW b \in Seq(S), EndOfText(a \o b) = 0
    PROVE  EndOfText(a) = 0 /\ EndOfText(b) = 0
<1> DEFINE t == a \o b
<1>1. /\ t \in Seq(S) /\ Len(a) \in Nat /\ Len(b) \in Nat /\ Len(t) = Len(a) + Len(b)
      /\ \A i \in 1..(Len(a) + Len(b)) : t[i] = IF i <= Len(a) THEN a[i] ELSE b[i - Len(a)]
  BY ConcatProperties, LenProperties
<1> HIDE DEF t
<1>2. \A i \in 1..(Len(t) - 1) : ~(t[i].sym = "nl" /\ t[i + 1].sym = "nl")
  BY <1>1, NoMark DEF t
<1>3. \A i \in 1..(Len(a) - 1) : ~(a[i].sym = "nl" /\ a[i + 1].sym = "nl")
  <2> SUFFICES ASSUME NEW i \in 1..(Len(a) - 1)
               PROVE  ~(a[i].sym = "nl" /\ a[i + 1].sym = "nl")
    OBVIOUS
  <2>1. t[i] = a[i] /\ t[i + 1] = a[i + 1] /\ i \in 1..(Len(t) - 1)
    BY <1>1
  <2> QED BY <1>2, <2>1
<1>4. \A i \in 1..(Len(b) - 1) : ~(b[i].sym = "nl" /\ b[i + 1].sym = "nl")
  <2> SUFFICES ASSUME NEW i \in 1..(Len(b) - 1)
               PROVE  ~(b[i].sym = "nl" /\ b[i + 1].sym = "nl")
    OBVIOUS
  <2> DEFINE k == Len(a) + i
  <2>1. /\ k \in 1..(Len(t) - 1) /\ k \in 1..(Len(a) + Len(b)) /\ k + 1 \in 1..(Len(a) + Len(b))
        /\ ~(k <= Len(a)) /\ ~(k + 1 <= Len(a)) /\ k - Len(a) = i /\ k + 1 - Len(a) = i + 1
    BY <1>1
  <2>2. t[k] = b[i] /\ t[k + 1] = b[i + 1]
    <3> HIDE DEF k
    <3> QED BY <1>1, <2>1
  <2> HIDE DEF k
  <2> QED BY <1>2, <2>1, <2>2
<1> QED BY <1>3, <1>4, NoMark

\* The text of a request ends with the only mark in it.
LEMMA TextShape ==
    ASSUME NEW r \in Seq(RequestRecord), NEW id \in DOMAIN r, r[id].op # "local"
    PROVE  LET T == TextOf(r, id)
           IN  /\ Len(T) \in {3, 5}
               /\ \A i \in 1..(Len(T) - 1) :
                     (T[i].sym = "nl" /\ T[i + 1].sym = "nl") <=> i = Len(T) - 1
<1> DEFINE T == TextOf(r, id)
<1>1. r[id] \in RequestRecord
  BY ElementOfSeq, LenProperties
<1>2. CASE r[id].op = "list"
  <2>1. T = <<Mark("list", id), Nl(id), Nl(id)>>
    BY <1>2 DEF TextOf, RequestText
  <2>2. Len(T) = 3 /\ T[1].sym = "list" /\ T[2].sym = "nl" /\ T[3].sym = "nl"
    BY <2>1 DEF Mark, Nl
  <2> HIDE DEF T
  <2> QED BY <2>2 DEF T
<1>3. CASE r[id].op # "list"
  <2>1. r[id].op \in {"get", "put"}
    BY <1>1, <1>3 DEF RequestRecord
  <2>2. T = <<Mark(r[id].op, id), Nl(id), Term(r[id].w, id), Nl(id), Nl(id)>>
    BY <1>3 DEF TextOf, RequestText
  <2>3. /\ Len(T) = 5 /\ T[1].sym = r[id].op /\ T[2].sym = "nl" /\ T[3].sym = "word"
        /\ T[4].sym = "nl" /\ T[5].sym = "nl"
    BY <2>2 DEF Mark, Nl, Term
  <2> HIDE DEF T
  <2>4. \A i \in 1..4 : (T[i].sym = "nl" /\ T[i + 1].sym = "nl") <=> i = 4
    BY <2>1, <2>3
  <2> QED BY <2>3, <2>4 DEF T
<1> QED BY <1>2, <1>3

LEMMA TextMark ==
    ASSUME NEW r \in Seq(RequestRecord), Len(r) <= MaxReq,
           NEW id \in DOMAIN r, r[id].op # "local",
           NEW head \in Seq(Token), NEW left \in Seq(Token), TextOf(r, id) = head \o left
    PROVE  /\ EndOfText(head) # 0 => left = <<>>
           /\ EndOfText(head) = 0 => left # <<>> /\ Len(head) <= 4
<1> DEFINE T == TextOf(r, id)
<1>2. /\ Len(T) \in {3, 5}
      /\ \A i \in 1..(Len(T) - 1) :
            (T[i].sym = "nl" /\ T[i + 1].sym = "nl") <=> i = Len(T) - 1
  BY TextShape
<1>3. /\ Len(head) \in Nat /\ Len(left) \in Nat /\ Len(T) = Len(head) + Len(left)
      /\ \A i \in 1..Len(head) : T[i] = head[i]
  <2>1. /\ Len(head) \in Nat /\ Len(left) \in Nat
        /\ Len(head \o left) = Len(head) + Len(left)
        /\ \A i \in 1..(Len(head) + Len(left)) :
              (head \o left)[i] = IF i <= Len(head) THEN head[i] ELSE left[i - Len(head)]
    BY ConcatProperties, LenProperties
  <2> QED BY <2>1
<1> HIDE DEF T
<1>4. ASSUME EndOfText(head) # 0
      PROVE  left = <<>>
  <2>1. PICK i \in 1..(Len(head) - 1) : head[i].sym = "nl" /\ head[i + 1].sym = "nl"
    BY <1>4, NoMark
  <2>2. i \in 1..(Len(T) - 1) /\ T[i] = head[i] /\ T[i + 1] = head[i + 1]
    BY <1>3
  <2>3. i = Len(T) - 1
    BY <1>2, <2>1, <2>2
  <2>4. Len(left) = 0
    BY <1>3, <2>3
  <2> QED BY <2>4, EmptySeq
<1>5. ASSUME EndOfText(head) = 0
      PROVE  left # <<>> /\ Len(head) <= 4
  <2>1. \A i \in 1..(Len(head) - 1) : ~(head[i].sym = "nl" /\ head[i + 1].sym = "nl")
    BY <1>5, NoMark
  <2>2. Len(head) # Len(T)
    <3> SUFFICES ASSUME Len(head) = Len(T)
                 PROVE  FALSE
      OBVIOUS
    <3> DEFINE i == Len(T) - 1
    <3>1. i \in 1..(Len(T) - 1) /\ i \in 1..(Len(head) - 1) /\ T[i] = head[i] /\ T[i + 1] = head[i + 1]
      BY <1>2, <1>3, SMTT(30)
    <3>2. T[i].sym = "nl" /\ T[i + 1].sym = "nl"
      BY <1>2, <3>1
    <3> HIDE DEF i
    <3> QED BY <2>1, <3>1, <3>2
  <2>3. Len(left) # 0 /\ Len(head) <= 4
    BY <1>2, <1>3, <2>2
  <2> QED BY <2>3, EmptySeq
<1> QED BY <1>4, <1>5
-----------------------------------------------------------------------------
(* What the core has to expect of the front ends.                          *)

\* Nothing of f will be executed any more: the core watches the pipe of a front
\* end that died in the middle of a request, and no request ends there.
Stranded(f) ==
    \E g \in FrontEnd \ {f} :
        watched = {g} /\ pc[g] = "down" /\ EndOfText(Stream(g)) = 0

\* What is still to be written to f, and whether f has any of an answer.
Owed(f) == IF current = f THEN pending ELSE <<>>
Unanswered(f) == inbuf[f] = <<>> /\ toFront[f] = <<>> /\ page[f] = <<>> /\ Owed(f) = <<>>

\* Between two requests nothing of f is on its way to the core; during one, all
\* of it is, or the core has taken all of it.
Asking(f) ==
    /\ pc[f] \in {"idle", "clear"} => Stream(f) = <<>>
    /\ pc[f] = "send" => Stream(f) = TextOf(reqs, cur[f])
    /\ pc[f] = "wait" => \/ Stream(f) = <<>>
                         \/ Stream(f) = TextOf(reqs, cur[f]) /\ Unanswered(f)

\* The core keeps no whole request, answers with an empty buffer, and watches
\* the pipe of one living front end only once it has read some of it.
LoopInv ==
    /\ EndOfText(buffer) = 0
    /\ pending # <<>> => watched = FrontEnd /\ buffer = <<>>
    /\ \/ watched = FrontEnd
       \/ \E f \in FrontEnd : watched = {f} /\ (pc[f] # "down" => buffer # <<>>)

\* A front end has used nothing before it waits, and when it writes a request
\* nothing of an answer is left.
Reading(f) ==
    /\ pc[f] # "wait" => inbuf[f] = <<>> /\ page[f] = <<>>
    /\ pc[f] = "send" => toFront[f] = <<>> /\ Owed(f) = <<>>
    /\ pc[f] \in {"send", "wait"} => reqs[cur[f]].op # "local"

AskInv ==
    /\ LoopInv
    /\ \A f \in FrontEnd : Reading(f) /\ (pc[f] # "down" => Stranded(f) \/ Asking(f))

LEMMA EmptyTexts ==
    /\ EndOfText(<<>>) = 0
    /\ \A S, a, b : a \in Seq(S) /\ b \in Seq(S) /\ a \o b = <<>> => a = <<>> /\ b = <<>>
<1>1. EndOfText(<<>>) = 0
  <2>1. <<>> \in Seq({}) /\ Len(<<>>) = 0
    OBVIOUS
  <2>2. \A i \in 1..(Len(<<>>) - 1) : FALSE
    BY <2>1
  <2> QED BY <2>1, <2>2, NoMark
<1>2. ASSUME NEW S, NEW a \in Seq(S), NEW b \in Seq(S), a \o b = <<>>
      PROVE  a = <<>> /\ b = <<>>
  <2>1. Len(a) \in Nat /\ Len(b) \in Nat /\ Len(a) + Len(b) = Len(a \o b) /\ Len(a \o b) = 0
    BY <1>2, ConcatProperties, LenProperties
  <2>2. Len(a) = 0 /\ Len(b) = 0
    BY <2>1
  <2> QED BY <2>2, EmptySeq
<1> QED BY <1>1, <1>2

\* A read of a pipe that is not empty finds something.
LEMMA ReadFinds ==
    ASSUME NEW S, NEW pipe \in Seq(S), pipe # <<>>, NEW room \in Int, room >= 1
    PROVE  Chunk(pipe, room) \in Seq(S) /\ Chunk(pipe, room) # <<>>
<1> DEFINE n == IF Len(pipe) < room THEN Len(pipe) ELSE room
<1>1. Len(pipe) \in Nat /\ Len(pipe) # 0
  BY LenProperties, EmptySeq
<1>2. n \in 0..Len(pipe) /\ n >= 1
  BY <1>1
<1> HIDE DEF n
<1>3. Len(SubSeq(pipe, 1, n)) = n
  BY <1>2, PrefixProperties
<1>4. Chunk(pipe, room) = SubSeq(pipe, 1, n)
  BY DEF Chunk, n
<1>5. Len(Chunk(pipe, room)) # 0
  BY <1>2, <1>3, <1>4
<1> QED BY <1>5, ChunkAndRest

\* What the core may read from a living front end is one request of it, or
\* nothing.
LEMMA WatchedAsks ==
    ASSUME RequestInv, AskInv, NEW f \in FrontEnd, f \in watched, pc[f] # "down"
    PROVE  /\ Asking(f)
           /\ Stream(f) # <<>> =>
                /\ pc[f] \in {"send", "wait"} /\ Stream(f) = TextOf(reqs, cur[f])
                /\ cur[f] \in DOMAIN reqs /\ reqs[cur[f]].op # "local"
<1>1. ~Stranded(f)
  BY DEF Stranded
<1>2. Asking(f) /\ Reading(f)
  BY <1>1 DEF AskInv
<1>3. pc[f] \in Place /\ (pc[f] \in {"clear", "send", "wait"} => cur[f] \in DOMAIN reqs)
  BY DEF RequestInv, RoutingInv, FrontInv
<1> QED BY <1>2, <1>3 DEF Asking, Reading, Place

LEMMA PartOfRequest ==
    ASSUME RequestInv, AskInv, NEW f \in FrontEnd, f \in watched, pc[f] # "down",
           NEW head \in Seq(Token), NEW left \in Seq(Token), Stream(f) = head \o left,
           head # <<>>
    PROVE  /\ pc[f] \in {"send", "wait"} /\ Stream(f) = TextOf(reqs, cur[f])
           /\ EndOfText(head) # 0 => left = <<>>
           /\ EndOfText(head) = 0 => left # <<>> /\ Len(head) <= 4
<1>1. Stream(f) # <<>>
  BY EmptyTexts
<1>2. /\ pc[f] \in {"send", "wait"} /\ Stream(f) = TextOf(reqs, cur[f])
      /\ cur[f] \in DOMAIN reqs /\ reqs[cur[f]].op # "local"
  BY <1>1, WatchedAsks
<1>3. reqs \in Seq(RequestRecord) /\ Len(reqs) <= MaxReq
  BY DEF RequestInv, RoutingInv, HistoryInv
<1>4. TextOf(reqs, cur[f]) = head \o left
  BY <1>2
<1> DEFINE id == cur[f]
           r == reqs
<1>5. /\ id \in DOMAIN r /\ r[id].op # "local" /\ r \in Seq(RequestRecord) /\ Len(r) <= MaxReq
      /\ TextOf(r, id) = head \o left
  BY <1>2, <1>3, <1>4
<1> HIDE DEF id, r
<1>6. /\ EndOfText(head) # 0 => left = <<>>
      /\ EndOfText(head) = 0 => left # <<>> /\ Len(head) <= 4
  BY ONLY <1>5, head \in Seq(Token), left \in Seq(Token), TextMark
<1> QED BY <1>2, <1>6

\* The core watches one pipe alone only while it has read some of it, unless
\* its front end died.
LEMMA OneOrBoth ==
    ASSUME RequestInv, AskInv, NEW f \in FrontEnd, f \in watched, pc[f] # "down"
    PROVE  \/ watched = FrontEnd /\ buffer = <<>>
           \/ watched = {f} /\ buffer # <<>> /\ buffer \in Seq(Token) /\ Held(f) = buffer
<1>1. watched = FrontEnd \/ \E g \in FrontEnd : watched = {g} /\ (pc[g] # "down" => buffer # <<>>)
  BY DEF AskInv, LoopInv
<1>2. buffer = <<>> \/ \E g \in FrontEnd : watched = {g} /\ buffer \in Seq(Own(reqs, g))
  BY DEF RequestInv, RoutingInv, CoreInv
<1>3. CASE watched = FrontEnd
  <2>1. \A g \in FrontEnd : watched # {g}
    BY <1>3 DEF FrontEnd
  <2> QED BY <1>2, <1>3, <2>1
<1>4. CASE watched # FrontEnd
  <2>1. watched = {f} /\ buffer # <<>>
    BY <1>1, <1>4
  <2>2. buffer \in Seq(Own(reqs, f))
    BY <1>2, <2>1
  <2> QED BY <2>1, <2>2, OwnTextIsText DEF Held
<1> QED BY <1>3, <1>4

\* When everything has settled the core has nothing of a living front end that
\* it watches, and watches both.
LEMMA SettledCore ==
    ASSUME RequestInv, AskInv, Settled, NEW f \in FrontEnd, f \in watched, pc[f] # "down"
    PROVE  Stream(f) = <<>> /\ watched = FrontEnd /\ buffer = <<>>
<1>1. toCore[f] = <<>> /\ pc[f] # "send"
  BY DEF Settled, Readable
<1>2. Held(f) \in Seq(Token)
  BY StreamIsOwn DEF RequestInv, StreamInv
<1>3. Stream(f) = Held(f)
  <2>1. Unsent(f) = <<>>
    BY <1>1 DEF Unsent
  <2> QED BY <1>1, <1>2, <2>1, ConcatEmptySeq DEF Stream
<1>4. CASE watched = {f} /\ buffer # <<>> /\ buffer \in Seq(Token) /\ Held(f) = buffer
  <2>1. Stream(f) = buffer \o <<>> /\ <<>> \in Seq(Token)
    BY <1>3, <1>4, ConcatEmptySeq
  <2>2. EndOfText(buffer) = 0
    BY DEF AskInv, LoopInv
  <2> QED BY <1>4, <2>1, <2>2, PartOfRequest
<1>5. CASE watched = FrontEnd /\ buffer = <<>>
  BY <1>3, <1>5 DEF Held
<1> QED BY <1>4, <1>5, OneOrBoth

\* What is emptied unread is of a front end that died.
LEMMA DropsAreOfDead ==
    ASSUME RequestInv, AskInv, ReceptionLength >= 5,
           CoreOverflow \/ (Settled /\ CoreTimeout),
           NEW f \in FrontEnd, pc[f] # "down"
    PROVE  watched # {f} /\ Held(f) = <<>>
<1> SUFFICES ASSUME watched = {f}
             PROVE  FALSE
  BY DEF Held
<1>1. watched # FrontEnd
  BY DEF FrontEnd
<1>2. CASE Settled /\ CoreTimeout
  BY <1>1, <1>2, SettledCore
<1>3. CASE CoreOverflow
  <2>1. Len(buffer) >= ReceptionLength
    BY <1>3 DEF CoreOverflow
  <2>2. buffer # <<>> /\ buffer \in Seq(Token) /\ Held(f) = buffer
    BY <1>1, OneOrBoth
  <2>3. toCore[f] \in Seq(Token) /\ Unsent(f) \in Seq(Token)
    BY StreamIsOwn DEF RequestInv, StreamInv
  <2>4. Stream(f) = buffer \o (toCore[f] \o Unsent(f)) /\ toCore[f] \o Unsent(f) \in Seq(Token)
    <3> DEFINE a == buffer
               b == toCore[f]
               c == Unsent(f)
    <3>1. a \in Seq(Token) /\ b \in Seq(Token) /\ c \in Seq(Token)
      BY <2>2, <2>3
    <3>2. Stream(f) = (a \o b) \o c
      BY <2>2 DEF Stream
    <3> HIDE DEF a, b, c
    <3>3. (a \o b) \o c = a \o (b \o c) /\ b \o c \in Seq(Token)
      BY ONLY <3>1, ConcatAssociative, ConcatProperties, SMTT(30)
    <3> QED BY <3>2, <3>3 DEF a, b, c
  <2>5. EndOfText(buffer) = 0
    BY DEF AskInv, LoopInv
  <2>6. Len(buffer) <= 4
    <3> DEFINE left == toCore[f] \o Unsent(f)
    <3>1. left \in Seq(Token) /\ Stream(f) = buffer \o left
      BY <2>4
    <3> HIDE DEF left
    <3> QED BY <2>2, <2>5, <3>1, PartOfRequest
  <2> QED BY <2>1, <2>2, <2>6, LenProperties, BoundAssumption
<1> QED BY <1>2, <1>3

\* A front end that still writes has something to write.
LEMMA LeftIsNotEmpty ==
    ASSUME NEW r \in Seq(RequestRecord), Len(r) <= MaxReq,
           NEW id \in DOMAIN r, r[id].op # "local", NEW f,
           NEW m \in Nat, m < Len(PiecesOf(r, f, id))
    PROVE  LeftOf(r, f, id, m) # <<>>
<1> DEFINE T == TextOf(r, id)
           first == IF m = 0 THEN 1 ELSE m + 2
<1>1. T \in Seq(Token) /\ Len(T) \in Nat /\ Len(T) >= 3
  BY TextIsLong
<1>2. /\ Len(PiecesOf(r, f, id)) \in Nat
      /\ f = "midnet" => Len(PiecesOf(r, f, id)) = 1
      /\ f # "midnet" => Len(PiecesOf(r, f, id)) = Len(T) - 1
  BY PiecesOfText
<1>3. first \in 1..Len(T)
  <2>1. CASE f = "midnet"
    <3>1. m < 1
      BY <1>2, <2>1, Zenon
    <3>2. m = 0
      BY <3>1
    <3> QED BY <1>1, <3>2
  <2>2. CASE f # "midnet"
    <3>1. m < Len(T) - 1
      BY <1>2, <2>2, Zenon
    <3> QED BY <1>1, <3>1
  <2> QED BY <2>1, <2>2
<1>4. LeftOf(r, f, id, m) = SubSeq(T, first, Len(T))
  BY <1>2 DEF LeftOf
<1> HIDE DEF T, first
<1>5. Len(SubSeq(T, first, Len(T))) = Len(T) - first + 1
  <2>1. \A i \in first..Len(T) : T[i] \in Token
    BY <1>1, <1>3, ElementOfSeq
  <2> QED BY <1>1, <1>3, <2>1, SubSeqProperties
<1>6. Len(LeftOf(r, f, id, m)) # 0
  BY <1>1, <1>3, <1>4, <1>5
<1> QED BY <1>6

\* What the core executes of a living front end is all of its request, and the
\* front end waits for the answer.
LEMMA ExecutedWaits ==
    ASSUME RequestInv, AskInv, NEW f \in FrontEnd, CoreReadAll(f), UNCHANGED frontVars,
           pc[f] # "down"
    PROVE  /\ pc[f] = "wait" /\ Stream(f)' = <<>> /\ Stream(f) = TextOf(reqs, cur[f])
           /\ Asking(f) /\ Unanswered(f)
<1>1. /\ Stream(f) = Received(f) \o Stream(f)'
      /\ Received(f) \in Seq(Token) /\ Stream(f)' \in Seq(Token)
  BY CoreReadAllKeepsRequests
<1>2. EndOfText(Received(f)) # 0 /\ f \in watched
  BY DEF CoreReadAll, Chosen, Readable
<1>3. Received(f) # <<>>
  BY <1>2, EmptyTexts
<1>4. /\ pc[f] \in {"send", "wait"} /\ Stream(f) = TextOf(reqs, cur[f])
      /\ Stream(f)' = <<>>
  <2> DEFINE left == Stream(f)'
             head == Received(f)
  <2>1. /\ Stream(f) = head \o left /\ head \in Seq(Token) /\ left \in Seq(Token)
        /\ head # <<>> /\ EndOfText(head) # 0
    BY <1>1, <1>2, <1>3
  <2> HIDE DEF left, head
  <2>2. /\ pc[f] \in {"send", "wait"} /\ Stream(f) = TextOf(reqs, cur[f])
        /\ left = <<>>
    BY <1>2, <2>1, PartOfRequest
  <2> QED BY <2>2 DEF left
<1>5. pc[f] # "send"
  <2> SUFFICES ASSUME pc[f] = "send"
               PROVE  FALSE
    OBVIOUS
  <2> DEFINE id == cur[f]
             m == Made(f)
  <2>1. /\ Unsent(f)' = Unsent(f) /\ Unsent(f) \in Seq(Token)
        /\ Held(f)' \in Seq(Token) /\ toCore'[f] \in Seq(Token)
    <3>1. Unsent(f)' = Unsent(f)
      BY DEF Unsent, Made, Pieces, frontVars
    <3>2. RequestInv'
      BY CoreReadAllKeepsRequests
    <3>3. Unsent(f) \in Seq(Token)
      BY StreamIsOwn DEF RequestInv, StreamInv
    <3>4. RoutingInv' /\ Sending(f)'
      BY <3>2 DEF RequestInv, StreamInv
    <3>5. Held(f)' \in Seq(Token) /\ toCore'[f] \in Seq(Token)
      <4>1. toCore'[f] \in Seq(Token)
        BY <3>4 DEF RoutingInv, PipeInv
      <4>2. Held(f)' = <<>>
        BY DEF Held, CoreReadAll
      <4> QED BY <4>1, <4>2
    <3> QED BY <3>1, <3>3, <3>5
  <2>2. Unsent(f) = <<>>
    <3>1. (Held(f)' \o toCore'[f]) \o Unsent(f) = <<>>
      BY <1>4, <2>1 DEF Stream
    <3>2. Held(f)' \o toCore'[f] \in Seq(Token)
      BY <2>1, ConcatProperties
    <3> QED BY <2>1, <3>1, <3>2, EmptyTexts
  <2>3. /\ id \in DOMAIN reqs /\ reqs[id].op # "local" /\ m \in 0..(Len(Pieces(f)) - 1)
        /\ reqs \in Seq(RequestRecord) /\ Len(reqs) <= MaxReq
    BY DEF RequestInv, RoutingInv, HistoryInv, FrontInv, StreamInv, Sending
  <2>4. LeftOf(reqs, f, id, m) = <<>> /\ Len(Pieces(f)) \in Nat
    BY <2>2, <2>3, PiecesOfText DEF Unsent, Pieces
  <2> QED BY <2>3, <2>4, LeftIsNotEmpty DEF Pieces
<1>6. Asking(f) /\ Stream(f) # <<>>
  BY <1>1, <1>2, <1>3, WatchedAsks, EmptyTexts
<1> QED BY <1>4, <1>5, <1>6 DEF Asking

\* A front end moves nothing of the other one, nor of the core.
LEMMA FrontStepIsLocal ==
    ASSUME RequestInv, TypeInv, NEW f \in FrontEnd, FrontStep(f)
    PROVE  /\ UNCHANGED coreVars /\ reqs' = reqs
           /\ pc[f] \in {"clear", "send", "wait"} /\ pc'[f] # "down"
           /\ \A g \in FrontEnd \ {f} :
                 /\ pc'[g] = pc[g] /\ cur'[g] = cur[g] /\ inbuf'[g] = inbuf[g]
                 /\ page'[g] = page[g] /\ toFront'[g] = toFront[g]
                 /\ Stream(g)' = Stream(g)
           /\ ~ClearDone(f) => Stream(f)' = Stream(f)
<1>1. UNCHANGED coreVars
  BY DEF FrontStep
<1>2. /\ pc \in [FrontEnd -> Place] /\ cur \in [FrontEnd -> Nat]
      /\ inbuf \in [FrontEnd -> Seq(Token)] /\ page \in [FrontEnd -> Seq(Token)]
      /\ toFront \in [FrontEnd -> Seq(Token)]
  BY DEF RequestInv, RoutingInv, FrontInv, PipeInv, TypeInv
<1>3. CASE ClearDone(f)
  <2>1. /\ reqs' = reqs /\ toFront' = toFront /\ pc[f] = "clear"
        /\ pc' = [pc EXCEPT ![f] = "idle"] \/ pc' = [pc EXCEPT ![f] = "send"]
        /\ cur' = [cur EXCEPT ![f] = 0] \/ cur' = cur
        /\ inbuf' = [inbuf EXCEPT ![f] = <<>>] \/ inbuf' = inbuf
        /\ page' = [page EXCEPT ![f] = <<>>] \/ page' = page
    BY <1>3 DEF ClearDone, Finish, pipes
  <2>2. \A g \in FrontEnd \ {f} : Stream(g)' = Stream(g)
    BY <1>1, <1>3, ClearDoneKeepsRequests
  <2> QED BY <1>1, <1>2, <1>3, <2>1, <2>2
<1>4. CASE Send(f)
  <2>1. /\ reqs' = reqs /\ toFront' = toFront /\ pc[f] = "send"
        /\ pc' = [pc EXCEPT ![f] = "wait"] \/ pc' = [pc EXCEPT ![f] = "send"]
        /\ cur' = cur /\ inbuf' = inbuf /\ page' = page
    BY <1>4 DEF Send
  <2>2. \A g \in FrontEnd : Stream(g)' = Stream(g)
    BY <1>1, <1>4, SendKeepsRequests
  <2> QED BY <1>1, <1>2, <2>1, <2>2
<1>5. CASE FrontRead(f)
  <2>1. \A g \in FrontEnd : Stream(g)' = Stream(g)
    BY ONLY RequestInv, f \in FrontEnd, <1>1, <1>5, FrontReadKeepsRequests
  <2>2. \E left : toFront' = [toFront EXCEPT ![f] = left]
    <3>1. toFront = [toFront EXCEPT ![f] = toFront[f]]
      BY <1>2
    <3> QED BY <1>5, <3>1 DEF FrontRead, ClearRead, HttpRead, MidnetRead, GiveUp, pipes
  <2>3. /\ reqs' = reqs /\ pc[f] \in {"clear", "wait"}
        /\ pc' = [pc EXCEPT ![f] = "idle"] \/ pc' = pc
        /\ cur' = [cur EXCEPT ![f] = 0] \/ cur' = cur
        /\ \E text : inbuf' = [inbuf EXCEPT ![f] = text] \/ inbuf' = inbuf
        /\ \E text : page' = [page EXCEPT ![f] = text] \/ page' = page
    <3>1. CASE ClearRead(f)
      BY <3>1 DEF ClearRead, frontVars
    <3>2. CASE pc[f] = "wait" /\ \E kind, body : Finish(f, kind, body)
      BY <3>2 DEF Finish
    <3>3. CASE GiveUp(f)
      BY <3>2, <3>3 DEF GiveUp
    <3>4. CASE f = "http" /\ HttpRead
      <4>1. pc["http"] = "wait"
        BY <3>4, HttpReadCases
      <4>2. CASE /\ page' = [page EXCEPT !["http"] = HttpUsed]
                 /\ inbuf' = [inbuf EXCEPT !["http"] = HttpKept]
                 /\ UNCHANGED <<pc, cur, out, reqs, told>>
        BY <3>4, <4>1, <4>2
      <4>3. CASE \E kind, body : Finish("http", kind, body)
        BY <3>2, <3>4, <4>1, <4>3
      <4> QED BY <3>4, <4>2, <4>3, HttpReadCases
    <3>5. CASE f = "midnet" /\ MidnetRead
      <4>1. pc["midnet"] = "wait"
        BY <3>5, MidnetReadCases
      <4>2. CASE /\ inbuf' = [inbuf EXCEPT !["midnet"] = MidnetText]
                 /\ UNCHANGED <<pc, cur, out, page, reqs, told>>
        BY <3>5, <4>1, <4>2
      <4>3. CASE \E kind, body : Finish("midnet", kind, body)
        BY <3>2, <3>5, <4>1, <4>3
      <4> QED BY <3>5, <4>2, <4>3, MidnetReadCases
    <3> QED BY <1>5, <3>1, <3>3, <3>4, <3>5 DEF FrontRead
  <2>4. pc'[f] # "down"
    BY <1>2, <2>3
  <2> QED BY <1>1, <1>2, <2>1, <2>2, <2>3, <2>4
<1> QED BY <1>3, <1>4, <1>5 DEF FrontStep, FrontRead

\* The core does not come back from the pipe of a dead front end.
LEMMA StrandedStays ==
    ASSUME RequestInv, TypeInv, NEW f \in FrontEnd, Stranded(f), [Next]_vars
    PROVE  Stranded(f)'
<1>1. PICK g \in FrontEnd \ {f} : watched = {g} /\ pc[g] = "down" /\ EndOfText(Stream(g)) = 0
  BY DEF Stranded
<1> DEFINE Dead(h) == watched = {h} /\ pc[h] = "down" /\ EndOfText(Stream(h)) = 0
<1>2. SUFFICES Dead(g)'
  BY DEF Stranded
<1>3. Stream(g) \in Seq(Token)
  BY StreamIsOwn DEF RequestInv, StreamInv
<1>4. \A h \in FrontEnd : h \in watched => h = g
  BY <1>1
<1>5. CASE CoreStep
  <2>1. pc' = pc /\ UNCHANGED frontVars
    BY <1>5 DEF CoreStep, frontVars
  <2>2. ASSUME NEW h \in FrontEnd, CoreReadPart(h)
        PROVE  watched' = {g} /\ Stream(g)' = Stream(g)
    <3>1. Stream(g)' = Stream(g)
      BY <2>1, <2>2, CoreReadPartKeepsRequests
    <3>2. watched' = {g}
      BY <1>1, <1>4, <2>2 DEF CoreReadPart, Chosen, Readable, WatchOnly
    <3> QED BY <3>1, <3>2
  <2>3. ASSUME NEW h \in FrontEnd, CoreReadAll(h)
        PROVE  FALSE
    <3>1. h = g /\ EndOfText(Received(h)) # 0
      BY <1>4, <2>3 DEF CoreReadAll, Chosen, Readable
    <3>2. Stream(h) = Received(h) \o Stream(h)' /\ Received(h) \in Seq(Token) /\ Stream(h)' \in Seq(Token)
      BY <2>1, <2>3, CoreReadAllKeepsRequests
    <3> DEFINE a == Received(g)
               b == Stream(g)'
    <3>3. a \in Seq(Token) /\ b \in Seq(Token) /\ EndOfText(a \o b) = 0
      BY <1>1, <3>1, <3>2
    <3> HIDE DEF a, b
    <3>4. EndOfText(a) = 0
      BY ONLY <3>3, NoMarkInParts
    <3> QED BY <3>1, <3>4 DEF a
  <2>4. CASE CoreOverflow \/ CoreTimeout
    <3>1. /\ Stream(g) = Held(g) \o Stream(g)' /\ Stream(g)' \in Seq(Token)
          /\ watched' = watched
      BY <2>1, <2>4, CoreDropsKeepsRequests DEF CoreOverflow, CoreTimeout
    <3>2. Held(g) \in Seq(Token)
      BY StreamIsOwn DEF RequestInv, StreamInv
    <3> DEFINE a == Held(g)
               b == Stream(g)'
    <3>3. a \in Seq(Token) /\ b \in Seq(Token) /\ EndOfText(a \o b) = 0
      BY <1>1, <1>3, <3>1, <3>2
    <3> HIDE DEF a, b
    <3>4. EndOfText(b) = 0
      BY ONLY <3>3, NoMarkInParts
    <3> QED BY <1>1, <2>1, <3>1, <3>4 DEF b
  <2>5. CASE CoreWrite
    BY <1>1, <2>1, <2>5, CoreWriteKeepsRequests DEF CoreWrite
  <2> QED BY <1>1, <1>5, <2>1, <2>2, <2>3, <2>4, <2>5 DEF CoreStep
<1>6. ASSUME NEW h \in FrontEnd, FrontStep(h)
      PROVE  Dead(g)'
  <2>1. h # g
    BY <1>1, <1>6, FrontStepIsLocal
  <2> QED BY <1>1, <1>6, <2>1, FrontStepIsLocal DEF coreVars
<1>7. ASSUME NEW h \in FrontEnd, Request(h)
      PROVE  Dead(g)'
  <2>1. h # g /\ pc' = [pc EXCEPT ![h] = "clear"] /\ watched' = watched
    BY <1>1, <1>7 DEF Request, Begin, coreVars
  <2>2. Stream(g)' = Stream(g)
    BY <1>7, RequestKeepsRequests
  <2> QED BY <1>1, <2>1, <2>2 DEF RequestInv, RoutingInv, FrontInv
<1>8. ASSUME NEW h \in FrontEnd, Die(h)
      PROVE  Dead(g)'
  <2>1. h # g /\ pc' = [pc EXCEPT ![h] = "down"] /\ watched' = watched
    BY <1>1, <1>8 DEF Die, Crash, coreVars
  <2>2. Stream(g)' = Stream(g)
    BY <1>8, <2>1, CrashKeepsRequests DEF Die
  <2> QED BY <1>1, <2>1, <2>2 DEF RequestInv, RoutingInv, FrontInv
<1>9. CASE UNCHANGED vars
  <2>1. Stream(g)' = Stream(g) /\ watched' = watched /\ pc' = pc
    BY <1>9, SameStream DEF vars, pipes, coreVars, frontVars
  <2> QED BY <1>1, <2>1
<1> QED BY <1>5, <1>6, <1>7, <1>8, <1>9 DEF Next

\* The loop of the core goes on as it should.
LEMMA LoopNext ==
    ASSUME RequestInv, TypeInv, AskInv, Timely, ReceptionLength >= 5, [Next]_vars
    PROVE  LoopInv'
<1>1. /\ EndOfText(buffer) = 0
      /\ pending # <<>> => watched = FrontEnd /\ buffer = <<>>
      /\ \/ watched = FrontEnd
         \/ \E f \in FrontEnd : watched = {f} /\ (pc[f] # "down" => buffer # <<>>)
  BY DEF AskInv, LoopInv
<1>2. ASSUME NEW f \in FrontEnd, CoreReadPart(f), UNCHANGED frontVars
      PROVE  LoopInv'
  <2>1. /\ Readable(f) /\ AtSelect /\ Len(buffer) < ReceptionLength
        /\ EndOfText(Received(f)) = 0 /\ pending' = pending
        /\ buffer' = Received(f) /\ watched' = watched \cap {f} /\ pc' = pc
    BY <1>2 DEF CoreReadPart, Chosen, WatchOnly, frontVars
  <2>2. toCore[f] # <<>> /\ toCore[f] \in Seq(Token) /\ f \in watched
    BY <2>1 DEF Readable, RequestInv, RoutingInv, PipeInv
  <2>3. buffer \in Seq(Token)
    <3>1. <<>> \in Seq(Token)
      OBVIOUS
    <3>2. ASSUME NEW g \in FrontEnd, buffer \in Seq(Own(reqs, g))
          PROVE  buffer \in Seq(Token)
      BY <3>2, OwnTextIsText
    <3> QED BY <3>1, <3>2 DEF RequestInv, RoutingInv, CoreInv
  <2> DEFINE room == ReceptionLength - Len(buffer)
             taken == Chunk(toCore[f], room)
  <2>4. room \in Int /\ room >= 1
    BY <2>1, <2>3, LenProperties, BoundAssumption
  <2> HIDE DEF room
  <2>5. taken # <<>> /\ taken \in Seq(Token)
    BY <2>2, <2>4, ReadFinds
  <2>6. Received(f) = buffer \o taken
    BY DEF Received, room
  <2> HIDE DEF taken
  <2>7. Received(f) # <<>>
    BY <2>3, <2>5, <2>6, EmptyTexts
  <2>8. watched' = {f}
    BY <2>1, <2>2
  <2> QED BY <2>1, <2>7, <2>8 DEF LoopInv, AtSelect
<1>3. ASSUME NEW f \in FrontEnd, CoreReadAll(f)
      PROVE  LoopInv'
  BY <1>3, EmptyTexts DEF CoreReadAll, WatchBoth, LoopInv
<1>4. CASE (CoreOverflow \/ (Settled /\ CoreTimeout)) /\ UNCHANGED frontVars
  <2>1. buffer' = <<>> /\ watched' = watched /\ pending' = pending /\ pending = <<>> /\ pc' = pc
    BY <1>4 DEF CoreOverflow, CoreTimeout, AtSelect, frontVars
  <2>2. \A f \in FrontEnd : watched = {f} => pc[f] = "down"
    BY <1>4, DropsAreOfDead
  <2> QED BY <1>1, <2>1, <2>2, EmptyTexts DEF LoopInv
<1>5. CASE CoreWrite
  BY <1>1, <1>5 DEF CoreWrite, AtSelect, LoopInv
<1>6. ASSUME UNCHANGED coreVars, \A f \in FrontEnd : pc'[f] # "down" => pc[f] # "down"
      PROVE  LoopInv'
  BY <1>1, <1>6 DEF coreVars, LoopInv
<1>7. ASSUME NEW f \in FrontEnd, FrontStep(f)
      PROVE  LoopInv'
  <2>1. \A g \in FrontEnd : pc'[g] # "down" => pc[g] # "down"
    BY <1>7, FrontStepIsLocal
  <2> QED BY <1>6, <1>7, <2>1, FrontStepIsLocal
<1>8. ASSUME NEW f \in FrontEnd, Request(f) \/ Die(f)
      PROVE  LoopInv'
  <2>1. /\ pc[f] # "down" /\ UNCHANGED coreVars
        /\ pc' = [pc EXCEPT ![f] = "clear"] \/ pc' = [pc EXCEPT ![f] = "down"]
    BY <1>8 DEF Request, Begin, Die, Crash
  <2>2. \A g \in FrontEnd : pc'[g] # "down" => pc[g] # "down"
    BY <2>1 DEF RequestInv, RoutingInv, FrontInv
  <2> QED BY <1>6, <2>1, <2>2
<1>9. CASE UNCHANGED vars
  BY <1>6, <1>9 DEF vars, frontVars
<1> QED BY <1>2, <1>3, <1>4, <1>5, <1>7, <1>8, <1>9 DEF Next, CoreStep

\* The delays of timely processes end late enough.
LEMMA DelaysAreLong ==
    ASSUME Timely, NEW f \in FrontEnd, FrontStep(f)
    PROVE  /\ ClearDone(f) => QuietFor(f)
           /\ GiveUp(f) => Settled
<1>1. ASSUME ClearDone(f)
      PROVE  QuietFor(f)
  <2>1. pc[f] = "clear" /\ toFront[f] = <<>>
    BY <1>1 DEF ClearDone, Quiet
  <2> QED BY <2>1 DEF FrontStep, ClearRead, Send, HttpRead, MidnetRead, GiveUp
<1>2. ASSUME GiveUp(f)
      PROVE  Settled
  <2>1. pc[f] = "wait" /\ toFront[f] = <<>>
    BY <1>2 DEF GiveUp
  <2> QED BY <2>1 DEF FrontStep, ClearRead, Send, HttpRead, MidnetRead, ClearDone
<1> QED BY <1>1, <1>2

\* What a step of its own leaves f to read.
LEMMA ReadingFrontStep ==
    ASSUME RequestInv, TypeInv, AskInv, Timely, NEW f \in FrontEnd, FrontStep(f)
    PROVE  Reading(f)'
<1>1. /\ UNCHANGED coreVars /\ Reading(f)
      /\ pc \in [FrontEnd -> Place] /\ inbuf \in [FrontEnd -> Seq(Token)]
      /\ page \in [FrontEnd -> Seq(Token)]
  BY FrontStepIsLocal DEF RequestInv, RoutingInv, FrontInv, TypeInv, AskInv
<1>2. CASE \E kind, body : Finish(f, kind, body)
  BY <1>1, <1>2, FinishEnds DEF Reading
<1>3. CASE ClearRead(f)
  BY <1>1, <1>3 DEF ClearRead, frontVars, Reading
<1>4. CASE ClearDone(f) /\ reqs[cur[f]].op # "local"
  <2>1. pc[f] = "clear" /\ toFront[f] = <<>> /\ toFront' = toFront
    BY <1>4 DEF ClearDone, Quiet, pipes
  <2>2. Owed(f)' = <<>>
    BY <1>1, <1>4, DelaysAreLong DEF Owed, QuietFor, AtSelect, coreVars
  <2> QED BY <1>1, <1>4, <2>1, <2>2 DEF ClearDone, Reading
<1>5. CASE Send(f)
  BY <1>1, <1>5 DEF Send, Reading, Owed, coreVars
<1>6. CASE pc[f] = "wait" /\ UNCHANGED <<pc, cur, reqs>>
  BY <1>1, <1>6 DEF Reading
<1>7. CASE f = "http" /\ HttpRead
  BY <1>2, <1>6, <1>7, HttpReadCases
<1>8. CASE f = "midnet" /\ MidnetRead
  BY <1>2, <1>6, <1>8, MidnetReadCases
<1> QED BY <1>2, <1>3, <1>4, <1>5, <1>7, <1>8 DEF FrontStep, ClearDone, GiveUp

LEMMA ReadingNext ==
    ASSUME RequestInv, TypeInv, AskInv, Timely, NEW f \in FrontEnd, [Next]_vars
    PROVE  Reading(f)'
<1>1. /\ Reading(f) /\ pc \in [FrontEnd -> Place] /\ toFront \in [FrontEnd -> Seq(Token)]
      /\ cur \in [FrontEnd -> Nat]
      /\ pc[f] \in {"send", "wait"} => cur[f] \in DOMAIN reqs
  BY DEF RequestInv, RoutingInv, FrontInv, PipeInv, AskInv
<1>2. CASE CoreStep
  <2>1. UNCHANGED frontVars
    BY <1>2 DEF CoreStep
  <2>2. SUFFICES ASSUME pc[f] = "send"
                 PROVE  toFront'[f] = <<>> /\ Owed(f)' = <<>>
    BY <1>1, <2>1 DEF Reading, frontVars
  <2>3. toFront[f] = <<>> /\ Owed(f) = <<>>
    BY <1>1, <2>2 DEF Reading
  <2>4. ASSUME NEW g \in FrontEnd, CoreReadPart(g)
        PROVE  toFront'[f] = <<>> /\ Owed(f)' = <<>>
    BY <2>3, <2>4 DEF CoreReadPart, TakeFrom, AtSelect, Owed
  <2>5. ASSUME NEW g \in FrontEnd, CoreReadAll(g)
        PROVE  toFront'[f] = <<>> /\ Owed(f)' = <<>>
    <3>1. g # f
      BY <2>1, <2>2, <2>5, ExecutedWaits
    <3> QED BY <2>3, <2>5, <3>1 DEF CoreReadAll, TakeFrom, Owed
  <2>6. CASE CoreOverflow \/ CoreTimeout
    BY <2>3, <2>6 DEF CoreOverflow, CoreTimeout, AtSelect, Owed, pipes
  <2>7. CASE CoreWrite
    <3>1. pending # <<>> /\ current' = current
          /\ toFront' = [toFront EXCEPT ![current] = @ \o Head(pending)]
      BY <2>7 DEF CoreWrite, AtSelect
    <3>2. current # f
      BY <2>3, <3>1 DEF Owed
    <3> QED BY <1>1, <2>3, <3>1, <3>2 DEF Owed
  <2> QED BY <1>2, <2>4, <2>5, <2>6, <2>7 DEF CoreStep
<1>3. ASSUME NEW g \in FrontEnd, FrontStep(g)
      PROVE  Reading(f)'
  <2>1. CASE g = f
    BY <1>3, <2>1, ReadingFrontStep
  <2>2. CASE g # f
    BY <1>1, <1>3, <2>2, FrontStepIsLocal DEF Reading, Owed, coreVars
  <2> QED BY <2>1, <2>2
<1>4. ASSUME NEW g \in FrontEnd, Request(g)
      PROVE  Reading(f)'
  <2>1. /\ pc[g] = "idle" /\ pc' = [pc EXCEPT ![g] = "clear"] 
        /\ cur' = [cur EXCEPT ![g] = Len(reqs) + 1]
        /\ UNCHANGED <<inbuf, page, toFront>> /\ UNCHANGED coreVars
        /\ \A i \in DOMAIN reqs : reqs'[i] = reqs[i]
    BY <1>4, RequestAppends DEF RequestInv
  <2> QED BY <1>1, <2>1 DEF Reading, Owed, coreVars
<1>5. ASSUME NEW g \in FrontEnd, Die(g)
      PROVE  Reading(f)'
  <2>1. /\ pc' = [pc EXCEPT ![g] = "down"] /\ cur' = [cur EXCEPT ![g] = 0]
        /\ inbuf' = [inbuf EXCEPT ![g] = <<>>] /\ page' = [page EXCEPT ![g] = <<>>]
        /\ toFront' = toFront /\ reqs' = reqs /\ UNCHANGED coreVars
    BY <1>5 DEF Die, Crash, pipes
  <2>2. inbuf \in [FrontEnd -> Seq(Token)] /\ page \in [FrontEnd -> Seq(Token)]
    BY DEF RequestInv, RoutingInv, FrontInv, TypeInv
  <2> QED BY <1>1, <2>1, <2>2 DEF Reading, Owed, coreVars
<1>6. CASE UNCHANGED vars
  BY <1>1, <1>6 DEF Reading, Owed, vars, pipes, coreVars, frontVars
<1> QED BY <1>2, <1>3, <1>4, <1>5, <1>6 DEF Next

\* A step of the core leaves a living front end all of its request, or nothing.
LEMMA AskingCoreStep ==
    ASSUME RequestInv, TypeInv, AskInv, Timely, ReceptionLength >= 5, CoreStep,
           NEW f \in FrontEnd, pc[f] # "down", Asking(f)
    PROVE  Asking(f)'
<1>1. UNCHANGED frontVars /\ UNCHANGED <<pc, cur, reqs, inbuf, page>>
  BY DEF CoreStep, frontVars
<1>2. ASSUME Stream(f)' = Stream(f), Unanswered(f) => Unanswered(f)'
      PROVE  Asking(f)'
  BY <1>1, <1>2 DEF Asking
<1>3. ASSUME AtSelect, toFront' = toFront, pending' = <<>> \/ current' # f
      PROVE  Unanswered(f) => Unanswered(f)'
  BY <1>1, <1>3 DEF Unanswered, Owed, AtSelect
<1>4. ASSUME NEW g \in FrontEnd, CoreReadPart(g)
      PROVE  Asking(f)'
  <2>1. AtSelect /\ toFront' = toFront /\ pending' = <<>>
    BY <1>4 DEF CoreReadPart, TakeFrom, AtSelect
  <2> QED BY <1>1, <1>2, <1>3, <1>4, <2>1, CoreReadPartKeepsRequests
<1>5. ASSUME NEW g \in FrontEnd, CoreReadAll(g)
      PROVE  Asking(f)'
  <2>1. AtSelect /\ toFront' = toFront /\ current' = g
    BY <1>5 DEF CoreReadAll, TakeFrom
  <2>2. CASE g = f
    <3>1. pc[f] = "wait" /\ Stream(f)' = <<>>
      BY <1>1, <1>5, <2>2, ExecutedWaits
    <3> QED BY <1>1, <3>1 DEF Asking
  <2>3. CASE g # f
    BY <1>1, <1>2, <1>3, <1>5, <2>1, <2>3, CoreReadAllKeepsRequests
  <2> QED BY <2>2, <2>3
<1>6. CASE CoreOverflow \/ (Settled /\ CoreTimeout)
  <2>1. AtSelect /\ toFront' = toFront /\ pending' = <<>>
    BY <1>6 DEF CoreOverflow, CoreTimeout, AtSelect, pipes
  <2>2. Stream(f) = Held(f) \o Stream(f)' /\ Stream(f)' \in Seq(Token)
    BY <1>1, <1>6, CoreDropsKeepsRequests
  <2>3. Held(f) = <<>>
    BY <1>6, DropsAreOfDead
  <2>4. Stream(f)' = Stream(f)
    BY <2>2, <2>3, ConcatEmptySeq
  <2> QED BY <1>2, <1>3, <2>1, <2>4
<1>7. CASE CoreWrite
  <2>1. pending # <<>> /\ current' = current
        /\ toFront' = [toFront EXCEPT ![current] = @ \o Head(pending)]
    BY <1>7 DEF CoreWrite, AtSelect
  <2>2. Stream(f)' = Stream(f)
    BY <1>1, <1>7, CoreWriteKeepsRequests
  <2>3. Unanswered(f) => Unanswered(f)'
    <3>1. current \in FrontEnd /\ toFront \in [FrontEnd -> Seq(Token)]
      BY DEF RequestInv, RoutingInv, CoreInv, PipeInv
    <3>2. Unanswered(f) => current # f
      BY <2>1 DEF Unanswered, Owed
    <3> QED BY <1>1, <2>1, <3>1, <3>2 DEF Unanswered, Owed
  <2> QED BY <1>2, <2>2, <2>3
<1> QED BY <1>4, <1>5, <1>6, <1>7 DEF CoreStep

\* When a second without data ends and everything has settled, a front end
\* that has not been answered is stranded.
LEMMA GivesUpOnNothing ==
    ASSUME RequestInv, AskInv, Settled, NEW f \in FrontEnd, pc[f] # "down",
           Asking(f)
    PROVE  Stream(f) = <<>> \/ Stranded(f)
<1>1. CASE f \in watched
  BY <1>1, SettledCore
<1>2. CASE f \notin watched
  <2>1. PICK g \in FrontEnd \ {f} : watched = {g}
    BY <1>2 DEF AskInv, LoopInv
  <2>2. pc[g] = "down"
    <3> SUFFICES ASSUME pc[g] # "down"
                 PROVE  FALSE
      OBVIOUS
    <3>1. watched = FrontEnd
      BY <2>1, SettledCore
    <3> QED BY <1>2, <3>1
  <2>3. toCore[g] = <<>> /\ Unsent(g) = <<>> /\ Held(g) = buffer
    BY <2>1, <2>2 DEF Settled, Readable, Unsent, Held
  <2>4. Stream(g) = buffer
    <3>1. Held(g) \in Seq(Token)
      BY StreamIsOwn DEF RequestInv, StreamInv
    <3> QED BY <2>3, <3>1, ConcatEmptySeq DEF Stream
  <2>5. EndOfText(buffer) = 0
    BY DEF AskInv, LoopInv
  <2> QED BY <2>1, <2>2, <2>4, <2>5 DEF Stranded
<1> QED BY <1>1, <1>2

LEMMA AskingFrontStep ==
    ASSUME RequestInv, TypeInv, AskInv, Timely, NEW f \in FrontEnd, FrontStep(f),
           Asking(f)
    PROVE  Asking(f)' \/ Stranded(f)
<1>1. /\ UNCHANGED coreVars /\ Reading(f) /\ reqs' = reqs
      /\ ~ClearDone(f) => Stream(f)' = Stream(f)
      /\ pc \in [FrontEnd -> Place]
      /\ pc[f] \in {"clear", "send", "wait"} => cur[f] \in DOMAIN reqs
  BY FrontStepIsLocal DEF RequestInv, RoutingInv, FrontInv, AskInv
<1>2. CASE ClearRead(f)
  BY <1>1, <1>2 DEF ClearRead, ClearDone, Quiet, frontVars, Asking
<1>3. CASE ClearDone(f) /\ reqs[cur[f]].op = "local"
  <2>1. pc'[f] = "idle" /\ pc[f] = "clear"
    BY <1>1, <1>3 DEF ClearDone, Finish
  <2>2. Stream(f)' = Stream(f)
    BY <1>1, <1>3, ClearDoneKeepsRequests
  <2> QED BY <2>1, <2>2 DEF Asking
<1>4. CASE ClearDone(f) /\ reqs[cur[f]].op # "local"
  <2>1. pc'[f] = "send" /\ pc[f] = "clear" /\ cur' = cur
    BY <1>1, <1>4 DEF ClearDone
  <2>2. Stream(f)' = Stream(f) \o TextOf(reqs, cur[f]) /\ Stream(f) = <<>>
    BY <1>1, <1>4, <2>1, ClearDoneKeepsRequests DEF Asking
  <2>3. TextOf(reqs, cur[f]) \in Seq(Token)
    BY <1>1, <1>4, <2>1, TextProperties DEF RequestInv, RoutingInv, HistoryInv
  <2>4. Stream(f)' = TextOf(reqs, cur[f])
    BY <2>2, <2>3, ConcatEmptySeq
  <2> QED BY <1>1, <2>1, <2>4 DEF Asking
<1>5. CASE Send(f)
  <2>1. /\ pc[f] = "send" /\ pc'[f] \in {"send", "wait"}
        /\ UNCHANGED <<cur, inbuf, page, toFront>>
    BY <1>1, <1>5 DEF Send
  <2>2. Stream(f)' = TextOf(reqs, cur[f])
    BY <1>1, <2>1 DEF Asking, ClearDone
  <2>3. Unanswered(f)'
    BY <1>1, <2>1 DEF Reading, Unanswered, Owed, coreVars
  <2> QED BY <1>1, <2>1, <2>2, <2>3 DEF Asking
<1>6. ASSUME pc[f] = "wait", Stream(f) = <<>>, pc'[f] \in {"idle", "wait"}
      PROVE  Asking(f)'
  BY <1>1, <1>6 DEF Asking, ClearDone
<1>7. CASE pc[f] = "wait" /\ toFront[f] # <<>> /\ pc'[f] \in {"idle", "wait"}
  BY <1>6, <1>7 DEF Asking, Unanswered
<1>8. CASE f = "http" /\ HttpRead
  BY <1>1, <1>7, <1>8, HttpReadCases DEF Finish
<1>9. CASE f = "midnet" /\ MidnetRead
  BY <1>1, <1>7, <1>9, MidnetReadCases DEF Finish
<1>10. CASE GiveUp(f)
  <2>1. Settled /\ pc[f] = "wait" /\ pc'[f] = "idle"
    BY <1>1, <1>10, DelaysAreLong DEF GiveUp, Finish
  <2>2. Stream(f) = <<>> \/ Stranded(f)
    BY <2>1, GivesUpOnNothing
  <2> QED BY <1>6, <2>1, <2>2
<1> QED BY <1>2, <1>3, <1>4, <1>5, <1>8, <1>9, <1>10 DEF FrontStep

\* A front end that died is not restarted.
LEMMA DeadStays ==
    ASSUME RequestInv, TypeInv, NEW f \in FrontEnd, [Next]_vars, pc'[f] # "down"
    PROVE  pc[f] # "down"
<1>1. pc \in [FrontEnd -> Place]
  BY DEF RequestInv, RoutingInv, FrontInv
<1>2. ASSUME NEW g \in FrontEnd, Request(g) \/ Die(g)
      PROVE  pc[f] # "down"
  <2>1. /\ pc[g] # "down"
        /\ pc' = [pc EXCEPT ![g] = "clear"] \/ pc' = [pc EXCEPT ![g] = "down"]
    BY <1>2 DEF Request, Begin, Die, Crash
  <2> QED BY <1>1, <2>1
<1>3. ASSUME NEW g \in FrontEnd, FrontStep(g)
      PROVE  pc[f] # "down"
  BY <1>3, FrontStepIsLocal
<1>4. pc' = pc => pc[f] # "down"
  OBVIOUS
<1> QED BY <1>2, <1>3, <1>4 DEF Next, CoreStep, vars, frontVars

LEMMA AskNext ==
    ASSUME RequestInv, TypeInv, AskInv, Timely, ReceptionLength >= 5, [Next]_vars
    PROVE  AskInv'
<1>1. LoopInv' /\ \A f \in FrontEnd : Reading(f)'
  BY LoopNext, ReadingNext
<1>2. ASSUME NEW f \in FrontEnd, pc'[f] # "down"
      PROVE  Stranded(f)' \/ Asking(f)'
  <2>1. pc \in [FrontEnd -> Place] /\ cur \in [FrontEnd -> Nat]
        /\ (pc[f] \in {"send", "wait"} => cur[f] \in DOMAIN reqs)
    BY DEF RequestInv, RoutingInv, FrontInv
  <2>2. pc[f] # "down"
    BY <1>2, DeadStays
  <2>3. CASE Stranded(f)
    BY <2>3, StrandedStays
  <2>4. CASE Asking(f)
    <3>1. CASE CoreStep
      BY <2>2, <2>4, <3>1, AskingCoreStep
    <3>2. ASSUME NEW g \in FrontEnd, FrontStep(g)
          PROVE  Stranded(f)' \/ Asking(f)'
      <4>1. CASE g = f
        BY <2>4, <3>2, <4>1, AskingFrontStep, StrandedStays
      <4>2. CASE g # f
        BY <2>4, <3>2, <4>2, FrontStepIsLocal DEF Asking, Unanswered, Owed, coreVars
      <4> QED BY <4>1, <4>2
    <3>3. ASSUME NEW g \in FrontEnd, Request(g)
          PROVE  Asking(f)'
      <4>1. /\ pc[g] = "idle" /\ pc' = [pc EXCEPT ![g] = "clear"]
            /\ cur' = [cur EXCEPT ![g] = Len(reqs) + 1]
            /\ UNCHANGED <<inbuf, page, toFront>> /\ UNCHANGED coreVars
            /\ \A i \in DOMAIN reqs : reqs'[i] = reqs[i]
            /\ Stream(f)' = Stream(f)
        BY <3>3, RequestAppends, RequestKeepsRequests DEF RequestInv
      <4>2. Unanswered(f)' <=> Unanswered(f)
        BY <4>1 DEF Unanswered, Owed, coreVars
      <4>3. CASE g = f
        BY <2>1, <2>4, <4>1, <4>3 DEF Asking
      <4>4. CASE g # f
        <5>1. pc'[f] = pc[f] /\ cur'[f] = cur[f]
          BY <2>1, <4>1, <4>4
        <5>2. cur[f] \in DOMAIN reqs => TextOf(reqs', cur'[f]) = TextOf(reqs, cur[f])
          BY <4>1, <5>1 DEF TextOf
        <5> QED BY <2>1, <2>4, <4>1, <4>2, <5>1, <5>2 DEF Asking
      <4> QED BY <4>3, <4>4
    <3>4. ASSUME NEW g \in FrontEnd, Die(g)
          PROVE  Asking(f)'
      <4>1. /\ pc' = [pc EXCEPT ![g] = "down"] /\ cur' = [cur EXCEPT ![g] = 0]
            /\ inbuf' = [inbuf EXCEPT ![g] = <<>>] /\ page' = [page EXCEPT ![g] = <<>>]
            /\ toFront' = toFront /\ reqs' = reqs /\ UNCHANGED coreVars
        BY <3>4 DEF Die, Crash, pipes
      <4>2. inbuf \in [FrontEnd -> Seq(Token)] /\ page \in [FrontEnd -> Seq(Token)]
        BY DEF RequestInv, RoutingInv, FrontInv, TypeInv
      <4>3. g # f
        BY <1>2, <2>1, <4>1
      <4>4. Stream(f)' = Stream(f)
        BY <3>4, <4>3, CrashKeepsRequests DEF Die
      <4>5. Unanswered(f)' <=> Unanswered(f)
        BY <4>1, <4>2, <4>3 DEF Unanswered, Owed, coreVars
      <4> QED BY <2>1, <2>4, <4>1, <4>3, <4>4, <4>5 DEF Asking
    <3>5. CASE UNCHANGED vars
      <4>1. Stream(f)' = Stream(f)
        BY <3>5, SameStream DEF vars, pipes, coreVars, frontVars
      <4> QED BY <2>4, <3>5, <4>1 DEF Asking, Unanswered, Owed, vars, pipes, coreVars, frontVars
    <3> QED BY <3>1, <3>2, <3>3, <3>4, <3>5 DEF Next
  <2> QED BY <2>2, <2>3, <2>4 DEF AskInv
<1> QED BY <1>1, <1>2 DEF AskInv

LEMMA AskHolds ==
    ASSUME Timely, ReceptionLength >= 5
    PROVE  Spec => []AskInv
<1>1. Init => AskInv
  <2> SUFFICES ASSUME Init
               PROVE  AskInv
    OBVIOUS
  <2>1. /\ buffer = <<>> /\ pending = <<>> /\ watched = FrontEnd
        /\ \A f \in FrontEnd : /\ pc[f] = "idle" /\ inbuf[f] = <<>> /\ page[f] = <<>>
                               /\ toCore[f] = <<>>
    BY DEF Init, CoreInit, FrontInit, MessagesInit
  <2>2. \A f \in FrontEnd : Stream(f) = <<>>
    <3> SUFFICES ASSUME NEW f \in FrontEnd
                 PROVE  Stream(f) = <<>>
      OBVIOUS
    <3>1. Held(f) = <<>> /\ toCore[f] = <<>> /\ Unsent(f) = <<>>
      BY <2>1 DEF Held, Unsent
    <3>2. <<>> \o <<>> = <<>>
      <4>1. <<>> \in Seq({})
        OBVIOUS
      <4> QED BY <4>1, ConcatEmptySeq
    <3> QED BY <3>1, <3>2 DEF Stream
  <2> QED BY <2>1, <2>2, EmptyTexts DEF AskInv, LoopInv, Reading, Asking
<1>2. RequestInv /\ TypeInv /\ AskInv /\ [Next]_vars => AskInv'
  BY AskNext
<1> QED BY <1>1, <1>2, RequestHolds, TypeHolds, PTL DEF Spec
-----------------------------------------------------------------------------
(* What the core does for a front end that lives.                          *)

LEMMA MarkBounds ==
    ASSUME NEW S, NEW text \in Seq(S), EndOfText(text) # 0
    PROVE  /\ EndOfText(text) \in 1..(Len(text) - 1)
           /\ text[EndOfText(text)].sym = "nl" /\ text[EndOfText(text) + 1].sym = "nl"
<1> DEFINE ends == {i \in 1..(Len(text) - 1) :
                       text[i].sym = "nl" /\ text[i + 1].sym = "nl"}
<1>1. ends \subseteq Nat /\ ends # {} /\ EndOfText(text) = Min(ends)
  BY DEF EndOfText
<1>2. Min(ends) \in ends
  <2> HIDE DEF ends
  <2> QED BY <1>1, LeastElement
<1> QED BY <1>1, <1>2

\* The request of a living front end as the core executes it.
AskedText(r, id) ==
    IF r[id].op = "list" THEN <<Mark("list", id)>>
    ELSE <<Mark(r[id].op, id), Nl(id), Term(r[id].w, id)>>

LEMMA ExecutedIsAsked ==
    ASSUME RequestInv, AskInv, NEW f \in FrontEnd, CoreReadAll(f), UNCHANGED frontVars,
           pc[f] # "down"
    PROVE  /\ Execute(f, AskedText(reqs, cur[f]))
           /\ cur[f] \in DOMAIN reqs /\ reqs[cur[f]].op # "local"
           /\ reqs[cur[f]] \in RequestRecord
<1> DEFINE id == cur[f]
           T == TextOf(reqs, id)
<1>1. /\ pc[f] = "wait" /\ Stream(f)' = <<>> /\ Stream(f) = T
      /\ Stream(f) = Received(f) \o Stream(f)' /\ Received(f) \in Seq(Token)
  BY ExecutedWaits, CoreReadAllKeepsRequests
<1>2. /\ reqs \in Seq(RequestRecord) /\ id \in DOMAIN reqs /\ reqs[id].op # "local"
      /\ reqs[id] \in RequestRecord
  <2>1. reqs \in Seq(RequestRecord) /\ id \in DOMAIN reqs
    BY <1>1 DEF RequestInv, RoutingInv, HistoryInv, FrontInv
  <2>2. reqs[id].op # "local"
    BY <1>1 DEF AskInv, Reading
  <2>3. reqs[id] \in RequestRecord
    BY <2>1, ElementOfSeq, LenProperties
  <2> QED BY <2>1, <2>2, <2>3
<1>3. Received(f) = T /\ T \in Seq(Token)
  BY <1>1, ConcatEmptySeq
<1>4. EndOfText(T) = Len(T) - 1
  <2>1. EndOfText(T) # 0
    BY <1>3 DEF CoreReadAll
  <2>2. \A i \in 1..(Len(T) - 1) :
            (T[i].sym = "nl" /\ T[i + 1].sym = "nl") <=> i = Len(T) - 1
    BY <1>2, TextShape
  <2> HIDE DEF T
  <2> QED BY <1>3, <2>1, <2>2, MarkBounds
<1>5. SubSeq(T, 1, EndOfText(T) - 1) = AskedText(reqs, id)
  <2>1. CASE reqs[id].op = "list"
    <3>1. T = <<Mark("list", id), Nl(id), Nl(id)>>
      BY <2>1 DEF TextOf, RequestText
    <3>2. EndOfText(T) - 1 = 1 /\ T[1] = Mark("list", id) /\ Len(T) = 3
      <4>1. Len(T) = 3 /\ T[1] = Mark("list", id)
        BY <3>1
      <4> QED BY <1>4, <4>1
    <3> HIDE DEF T
    <3> DEFINE s == SubSeq(T, 1, 1)
    <3>3. s \in Seq(Token) /\ Len(s) = 1 /\ s[1] = T[1]
      <4>1. 1 \in 0..Len(T)
        BY <3>2
      <4> QED BY <1>3, <4>1, PrefixProperties
    <3> HIDE DEF s
    <3>4. s = <<Mark("list", id)>>
      BY <3>2, <3>3
    <3> QED BY <2>1, <3>2, <3>4 DEF AskedText, s
  <2>2. CASE reqs[id].op # "list"
    <3>1. T = <<Mark(reqs[id].op, id), Nl(id), Term(reqs[id].w, id), Nl(id), Nl(id)>>
      BY <2>2 DEF TextOf, RequestText
    <3>2. /\ EndOfText(T) - 1 = 3 /\ Len(T) = 5 /\ T[1] = Mark(reqs[id].op, id)
          /\ T[2] = Nl(id) /\ T[3] = Term(reqs[id].w, id)
      <4>1. /\ Len(T) = 5 /\ T[1] = Mark(reqs[id].op, id)
            /\ T[2] = Nl(id) /\ T[3] = Term(reqs[id].w, id)
        BY <3>1
      <4> QED BY <1>4, <4>1
    <3> HIDE DEF T
    <3> DEFINE s == SubSeq(T, 1, 3)
    <3>3. s \in Seq(Token) /\ Len(s) = 3 /\ s[1] = T[1] /\ s[2] = T[2] /\ s[3] = T[3]
      <4>1. 3 \in 0..Len(T)
        BY <3>2
      <4>2. s \in Seq(Token) /\ Len(s) = 3 /\ \A i \in 1..3 : s[i] = T[i]
        BY <1>3, <4>1, PrefixProperties
      <4> QED BY <4>2
    <3> HIDE DEF s
    <3>4. s = <<Mark(reqs[id].op, id), Nl(id), Term(reqs[id].w, id)>>
      BY <3>2, <3>3
    <3> QED BY <2>2, <3>2, <3>4 DEF AskedText, s
  <2> QED BY <2>1, <2>2
<1>6. Execute(f, SubSeq(Received(f), 1, EndOfText(Received(f)) - 1))
  BY DEF CoreReadAll
<1> QED BY <1>2, <1>3, <1>5, <1>6

\* The verdict on request id.
Verdict(sym, id) == <<Mark(sym, id), Nl(id), Nl(id)>>

\* What executing the request of a living front end does.
LEMMA ExecutedDoes ==
    ASSUME NEW f, NEW id, reqs[id] \in RequestRecord, reqs[id].op # "local",
           Execute(f, AskedText(reqs, id))
    PROVE  \/ /\ reqs[id].op = "list" /\ pending' = ListPieces(dico, id) /\ dico' = dico
           \/ /\ reqs[id].op = "get" /\ dico' = dico
              /\ pending' = AnswerPieces(GetReturn(dico, reqs[id].w), id)
           \/ /\ reqs[id].op = "put" /\ dico' = PutList(dico, reqs[id].w)
              /\ pending' = AnswerPieces(PutReturn(dico, reqs[id].w), id)
           \/ /\ reqs[id].op = "put" /\ dico' = dico /\ pending' = <<>>
              /\ log' = Append(log, [from |-> f, text |-> AskedText(reqs, id), as |-> "starved"])
<1> DEFINE t == AskedText(reqs, id)
           w == reqs[id].w
<1>1. CASE reqs[id].op = "list"
  <2>1. t = <<Mark("list", id)>>
    BY <1>1 DEF AskedText
  <2>2. Len(t) = 1 /\ t[1].sym = "list" /\ t[1].id = id
    BY <2>1 DEF Mark
  <2> HIDE DEF t
  <2>3. IsList(t) /\ ~IsCall(t, "get") /\ ~IsCall(t, "put")
    BY <2>2 DEF IsList, IsCall, SpellsList
  <2>4. Execute(f, t)
    BY DEF t
  <2> QED BY <1>1, <2>2, <2>3, <2>4
          DEF Execute, ExecuteList, ExecuteGet, ExecutePut, ExecutePutFails, ExecuteWrong
<1>2. CASE reqs[id].op # "list"
  <2>1. t = <<Mark(reqs[id].op, id), Nl(id), Term(w, id)>> /\ reqs[id].op \in {"get", "put"}
    BY <1>2 DEF AskedText, RequestRecord
  <2>2. /\ Len(t) = 3 /\ t[1].sym = reqs[id].op /\ t[1].id = id /\ t[2].sym = "nl"
        /\ t[3].sym = "word" /\ t[3].w = w
    BY <2>1 DEF Mark, Nl, Term
  <2> HIDE DEF t, w
  <2>3. FirstNewline(t) = 2
    <3> DEFINE feeds == {i \in 1..Len(t) : t[i].sym = "nl"}
    <3>1. FirstNewline(t) = IF feeds # {} THEN Min(feeds) ELSE 0
      BY DEF FirstNewline, SelectInSeq
    <3>2. feeds = {2}
      BY <2>1, <2>2
    <3>3. Min({2}) = 2
      BY LeastElement
    <3> QED BY <3>1, <3>2, <3>3
  <2>4. ~IsList(t) /\ OneWord(t) /\ \A sym : IsCall(t, sym) <=> sym = reqs[id].op
    BY <2>2, <2>3 DEF IsList, IsCall, OneWord
  <2>5. Execute(f, t)
    BY DEF t
  <2>6. Record(f, t, "starved")
        => log' = Append(log, [from |-> f, text |-> AskedText(reqs, id), as |-> "starved"])
    BY DEF Record, t
  <2> QED BY <1>2, <2>1, <2>2, <2>4, <2>5, <2>6
          DEF Execute, ExecuteList, ExecuteGet, ExecutePut, ExecutePutFails, ExecuteWrong, NoAnswer, w
<1> QED BY <1>1, <1>2
-----------------------------------------------------------------------------
(* What comes to a front end that waits.                                   *)

\* The writes, reads and executions that change what f has of its answer.
Writes(f) ==
    /\ Owed(f) # <<>>
    /\ toFront'[f] = toFront[f] \o Head(Owed(f)) /\ Owed(f)' = Tail(Owed(f))
    /\ inbuf'[f] = inbuf[f] /\ page'[f] = page[f] /\ dico' = dico

Reads(f) ==
    /\ Owed(f)' = Owed(f) /\ dico' = dico /\ toFront[f] # <<>>
    /\ \/ /\ f = "http" /\ FirstNewline(HttpText) # 1 /\ EndOfText(HttpText) = 0
          /\ toFront'[f] = Rest(toFront[f], HttpRoom)
          /\ page'[f] = HttpUsed /\ inbuf'[f] = HttpKept
       \/ /\ f = "midnet" /\ ~Whole(MidnetText) /\ ~Full(MidnetText)
          /\ toFront'[f] = Rest(toFront[f], MidnetRoom)
          /\ page'[f] = page[f] /\ inbuf'[f] = MidnetText

Stays(f) ==
    /\ inbuf'[f] = inbuf[f] /\ toFront'[f] = toFront[f] /\ page'[f] = page[f]
    /\ Owed(f)' = Owed(f)

IsAnswered(f) ==
    /\ Unanswered(f) /\ Execute(f, AskedText(reqs, cur[f]))
    /\ inbuf'[f] = <<>> /\ toFront'[f] = <<>> /\ page'[f] = <<>>
    /\ Owed(f)' = pending'

LEMMA WaitingStep ==
    ASSUME RequestInv, TypeInv, AskInv, Timely, NEW f \in FrontEnd, [Next]_vars,
           pc'[f] = "wait"
    PROVE  /\ cur'[f] = cur[f] /\ cur[f] \in DOMAIN reqs
           /\ reqs[cur[f]] \in RequestRecord /\ reqs[cur[f]].op # "local"
           /\ reqs'[cur[f]] = reqs[cur[f]]
           /\ \/ pc[f] = "send" /\ Unanswered(f)' /\ dico' = dico
              \/ pc[f] = "wait" /\ (IsAnswered(f) \/ Writes(f) \/ Reads(f) \/ Stays(f))
<1>1. /\ pc \in [FrontEnd -> Place] /\ toFront \in [FrontEnd -> Seq(Token)]
      /\ cur \in [FrontEnd -> Nat] /\ inbuf \in [FrontEnd -> Seq(Token)]
      /\ page \in [FrontEnd -> Seq(Token)] /\ reqs \in Seq(RequestRecord)
      /\ pc[f] \in {"send", "wait"} => cur[f] \in DOMAIN reqs /\ reqs[cur[f]].op # "local"
      /\ Reading(f)
  <2>1. Reading(f)
    BY DEF AskInv
  <2> QED BY <2>1 DEF RequestInv, RoutingInv, HistoryInv, FrontInv, PipeInv, TypeInv, Reading
<1> DEFINE Same == cur'[f] = cur[f] /\ cur[f] \in DOMAIN reqs /\ reqs'[cur[f]] = reqs[cur[f]]
                   /\ pc[f] \in {"send", "wait"}
           Comes == \/ pc[f] = "send" /\ Unanswered(f)' /\ dico' = dico
                    \/ pc[f] = "wait" /\ (IsAnswered(f) \/ Writes(f) \/ Reads(f) \/ Stays(f))
<1>2. Same => reqs[cur[f]] \in RequestRecord /\ reqs[cur[f]].op # "local"
  BY <1>1, ElementOfSeq, LenProperties
<1>3. ASSUME CoreStep
      PROVE  Same /\ Comes
  <2>1. UNCHANGED frontVars
    BY <1>3 DEF CoreStep
  <2>2. Same /\ pc[f] = "wait" /\ inbuf' = inbuf /\ page' = page
    BY <1>1, <2>1 DEF frontVars
  <2>3. ASSUME NEW g \in FrontEnd, CoreReadPart(g)
        PROVE  Stays(f)
    BY <2>2, <2>3 DEF CoreReadPart, TakeFrom, AtSelect, Owed, Stays
  <2>4. ASSUME NEW g \in FrontEnd, g # f, CoreReadAll(g)
        PROVE  Stays(f)
    BY <2>2, <2>4 DEF CoreReadAll, TakeFrom, AtSelect, Owed, Stays
  <2>5. ASSUME CoreReadAll(f)
        PROVE  IsAnswered(f)
    <3>1. Execute(f, AskedText(reqs, cur[f]))
      BY <2>1, <2>2, <2>5, ExecutedIsAsked
    <3>2. Unanswered(f)
      BY <2>1, <2>2, <2>5, ExecutedWaits
    <3> QED BY <2>2, <2>5, <3>1, <3>2 DEF IsAnswered, CoreReadAll, TakeFrom, Owed, Unanswered
  <2>6. CASE CoreOverflow \/ CoreTimeout
    BY <2>2, <2>6 DEF CoreOverflow, CoreTimeout, Owed, Stays, pipes
  <2>7. CASE CoreWrite
    <3>1. pending # <<>> /\ current' = current /\ pending' = Tail(pending) /\ dico' = dico
          /\ toFront' = [toFront EXCEPT ![current] = @ \o Head(pending)]
      BY <2>7 DEF CoreWrite, AtSelect
    <3>2. CASE current = f
      BY <1>1, <2>2, <3>1, <3>2 DEF Owed, Writes
    <3>3. CASE current # f
      BY <1>1, <2>2, <3>1, <3>3 DEF Owed, Stays
    <3> QED BY <2>2, <3>2, <3>3
  <2> QED BY <1>3, <2>2, <2>3, <2>4, <2>5, <2>6, <2>7 DEF CoreStep
<1>4. ASSUME NEW g \in FrontEnd, FrontStep(g)
      PROVE  Same /\ Comes
  <2>1. UNCHANGED coreVars /\ reqs' = reqs
    BY <1>4, FrontStepIsLocal
  <2>2. CASE g # f
    <3>1. /\ pc'[f] = pc[f] /\ cur'[f] = cur[f] /\ inbuf'[f] = inbuf[f]
          /\ page'[f] = page[f] /\ toFront'[f] = toFront[f]
      BY <1>4, <2>2, FrontStepIsLocal
    <3>2. Stays(f)
      BY <2>1, <3>1 DEF Stays, Owed, coreVars
    <3> QED BY <1>1, <2>1, <3>1, <3>2
  <2>3. CASE g = f
    <3>1. CASE \E kind, body : Finish(f, kind, body)
      <4>1. pc'[f] = "idle"
        BY <1>1, <3>1, FinishEnds, ZenonT(30)
      <4> QED BY <4>1
    <3>2. CASE ClearRead(f) \/ ClearDone(f)
      BY <1>1, <3>1, <3>2 DEF ClearRead, ClearDone, frontVars
    <3>3. CASE Send(f)
      <4>1. Unanswered(f)'
        BY <1>1, <2>1, <3>3 DEF Send, Reading, Unanswered, Owed, coreVars
      <4> QED BY <1>1, <2>1, <3>3, <4>1 DEF Send, coreVars
    <3>4. CASE f = "http" /\ HttpRead
      <4>1. CASE /\ FirstNewline(HttpText) # 1 /\ EndOfText(HttpText) = 0
                 /\ page' = [page EXCEPT !["http"] = HttpUsed]
                 /\ inbuf' = [inbuf EXCEPT !["http"] = HttpKept]
                 /\ UNCHANGED <<pc, cur, out, reqs, told>>
        <5>1. /\ toFront' = [toFront EXCEPT !["http"] = Rest(@, HttpRoom)]
              /\ toFront["http"] # <<>>
          BY <3>4, HttpReadCases
        <5>2. Reads(f)
          BY <1>1, <2>1, <3>4, <4>1, <5>1 DEF Reads, Owed, coreVars
        <5> QED BY <1>1, <4>1, <5>2
      <4> QED BY <3>1, <3>4, <4>1, HttpReadCases
    <3>5. CASE f = "midnet" /\ MidnetRead
      <4>1. CASE /\ ~Whole(MidnetText) /\ ~Full(MidnetText)
                 /\ inbuf' = [inbuf EXCEPT !["midnet"] = MidnetText]
                 /\ UNCHANGED <<pc, cur, out, page, reqs, told>>
        <5>1. /\ toFront' = [toFront EXCEPT !["midnet"] = Rest(@, MidnetRoom)]
              /\ toFront["midnet"] # <<>>
          BY <3>5, MidnetReadCases
        <5>2. Reads(f)
          BY <1>1, <2>1, <3>5, <4>1, <5>1 DEF Reads, Owed, coreVars
        <5> QED BY <1>1, <4>1, <5>2
      <4> QED BY <3>1, <3>5, <4>1, MidnetReadCases
    <3> QED BY <1>4, <2>3, <3>1, <3>2, <3>3, <3>4, <3>5 DEF FrontStep, GiveUp
  <2> QED BY <2>2, <2>3
<1>5. ASSUME NEW g \in FrontEnd, Request(g)
      PROVE  Same /\ Comes
  <2>1. /\ pc' = [pc EXCEPT ![g] = "clear"] /\ cur' = [cur EXCEPT ![g] = Len(reqs) + 1]
        /\ UNCHANGED <<inbuf, page, toFront>> /\ UNCHANGED coreVars
        /\ \A i \in DOMAIN reqs : reqs'[i] = reqs[i]
    BY <1>5, RequestAppends DEF RequestInv
  <2>2. g # f
    BY <1>1, <2>1
  <2> QED BY <1>1, <2>1, <2>2 DEF Stays, Owed, coreVars
<1>6. ASSUME NEW g \in FrontEnd, Die(g)
      PROVE  Same /\ Comes
  <2>1. /\ pc' = [pc EXCEPT ![g] = "down"] /\ cur' = [cur EXCEPT ![g] = 0]
        /\ inbuf' = [inbuf EXCEPT ![g] = <<>>] /\ page' = [page EXCEPT ![g] = <<>>]
        /\ toFront' = toFront /\ reqs' = reqs /\ UNCHANGED coreVars
    BY <1>6 DEF Die, Crash, pipes
  <2>2. g # f
    BY <1>1, <2>1
  <2> QED BY <1>1, <2>1, <2>2 DEF Stays, Owed, coreVars
<1>7. CASE UNCHANGED vars
  BY <1>1, <1>7 DEF Stays, Owed, vars, pipes, coreVars, frontVars
<1> QED BY <1>2, <1>3, <1>4, <1>5, <1>6, <1>7 DEF Next

\* What the end of an answer tells the client of f.
Tells(f, kind, body) ==
    /\ pc[f] = "wait" /\ dico' = dico /\ toFront[f] # <<>>
    /\ \/ /\ f = "http" /\ kind = "page"
          /\ \/ FirstNewline(HttpText) = 1 /\ body = HttpPage(HttpOp, page["http"])
             \/ EndOfText(HttpText) # 0 /\ body = HttpPage(HttpOp, HttpUsed)
       \/ /\ f = "midnet" /\ body = MidnetText
          /\ \/ kind = "page" /\ Whole(MidnetText)
             \/ kind = "cut" /\ ~Whole(MidnetText)

LEMMA ReqsGrow ==
    ASSUME RequestInv, [Next]_vars
    PROVE  \A i \in DOMAIN reqs : i \in DOMAIN reqs' /\ reqs'[i] = reqs[i]
<1>1. ASSUME NEW f \in FrontEnd, Request(f)
      PROVE  \A i \in DOMAIN reqs : i \in DOMAIN reqs' /\ reqs'[i] = reqs[i]
  BY <1>1, RequestAppends DEF RequestInv
<1>2. CASE \E f \in FrontEnd : CoreReadAll(f) /\ UNCHANGED frontVars
  BY <1>2 DEF frontVars
<1> QED BY <1>1, <1>2, OtherStepsStoreNothing

LEMMA ToldStep ==
    ASSUME RequestInv, TypeInv, [Next]_vars
    PROVE  \/ told' = told
           \/ \E f \in FrontEnd, kind \in Outcome : \E body :
                 /\ cur[f] \in DOMAIN reqs
                 /\ told' = [told EXCEPT ![cur[f]] = [kind |-> kind, body |-> body]]
                 /\ Tells(f, kind, body) \/ (kind \notin {"page", "cut"} /\ body = <<>>)
<1> DEFINE Told == \E f \in FrontEnd, kind \in Outcome : \E body :
                 /\ cur[f] \in DOMAIN reqs
                 /\ told' = [told EXCEPT ![cur[f]] = [kind |-> kind, body |-> body]]
                 /\ Tells(f, kind, body) \/ (kind \notin {"page", "cut"} /\ body = <<>>)
<1>1. CASE CoreStep
  BY <1>1 DEF CoreStep, frontVars
<1>2. ASSUME NEW f \in FrontEnd, Request(f) \/ Die(f)
      PROVE  told' = told
  BY <1>2 DEF Request, Begin, Die, Crash
<1>3. CASE UNCHANGED vars
  BY <1>3 DEF vars, frontVars
<1>4. ASSUME NEW f \in FrontEnd, FrontStep(f)
      PROVE  told' = told \/ Told
  <2>1. pc[f] \in {"clear", "send", "wait"} /\ dico' = dico
    BY <1>4, FrontStepIsLocal DEF coreVars
  <2>2. cur[f] \in DOMAIN reqs
    BY <2>1 DEF RequestInv, RoutingInv, FrontInv
  <2>3. ASSUME NEW kind \in {"error", "rejected"}, Finish(f, kind, <<>>)
        PROVE  Told
    <3>1. told' = [told EXCEPT ![cur[f]] = [kind |-> kind, body |-> <<>>]]
      BY <2>3, FinishEnds
    <3>2. kind \in Outcome /\ kind \notin {"page", "cut"}
      BY DEF Outcome
    <3> QED BY <2>2, <3>1, <3>2
  <2>4. ASSUME NEW kind \in {"page", "cut"}, NEW body, Finish(f, kind, body), Tells(f, kind, body)
        PROVE  Told
    <3>1. told' = [told EXCEPT ![cur[f]] = [kind |-> kind, body |-> body]]
      BY <2>4, FinishEnds
    <3>2. kind \in Outcome
      BY DEF Outcome
    <3> QED BY <2>2, <2>4, <3>1, <3>2
  <2> HIDE DEF Told
  <2>5. CASE ClearRead(f) \/ Send(f)
    BY <2>5 DEF ClearRead, Send, frontVars
  <2>6. CASE ClearDone(f)
    BY <2>3, <2>6 DEF ClearDone
  <2>7. CASE GiveUp(f)
    BY <2>3, <2>7 DEF GiveUp
  <2>8. CASE f = "http" /\ HttpRead
    <3>1. pc["http"] = "wait" /\ toFront["http"] # <<>>
      BY <2>8, HttpReadCases
    <3>2. ASSUME FirstNewline(HttpText) = 1, Finish("http", "page", HttpPage(HttpOp, page["http"]))
          PROVE  Told
      BY <2>1, <2>4, <2>8, <3>1, <3>2 DEF Tells
    <3>3. ASSUME EndOfText(HttpText) # 0, Finish("http", "page", HttpPage(HttpOp, HttpUsed))
          PROVE  Told
      BY <2>1, <2>4, <2>8, <3>1, <3>3 DEF Tells
    <3>4. Finish("http", "error", <<>>) => Told
      BY <2>3, <2>8
    <3> QED BY <2>8, <3>2, <3>3, <3>4, HttpReadCases
  <2>9. CASE f = "midnet" /\ MidnetRead
    <3>1. pc["midnet"] = "wait" /\ toFront["midnet"] # <<>>
      BY <2>9, MidnetReadCases
    <3>2. ASSUME Whole(MidnetText), Finish("midnet", "page", MidnetText)
          PROVE  Told
      BY <2>1, <2>4, <2>9, <3>1, <3>2 DEF Tells
    <3>3. ASSUME ~Whole(MidnetText), Finish("midnet", "cut", MidnetText)
          PROVE  Told
      BY <2>1, <2>4, <2>9, <3>1, <3>3 DEF Tells
    <3> QED BY <2>9, <3>2, <3>3, MidnetReadCases
  <2> QED BY <1>4, <2>5, <2>6, <2>7, <2>8, <2>9 DEF FrontStep
<1> HIDE DEF Told
<1> QED BY <1>1, <1>2, <1>3, <1>4 DEF Next, Told
-----------------------------------------------------------------------------
(* Answers are of the request that a client made.                          *)

OfRequest(id) == {t \in Token : t.id = id}

\* What f has of an answer while it waits, and what it told before, is of the
\* one request.
Hearing(f) ==
    pc[f] = "wait" =>
        /\ inbuf[f] \in Seq(OfRequest(cur[f]))
        /\ toFront[f] \in Seq(OfRequest(cur[f]))
        /\ page[f] \in Seq(OfRequest(cur[f]))
        /\ Owed(f) \in Seq(Seq(OfRequest(cur[f])))

OwnInv ==
    /\ \A f \in FrontEnd : Hearing(f)
    /\ \A i \in ReqId : /\ told[i].body \in Seq(OfRequest(i))
                        /\ told[i].kind # "none" => i \in DOMAIN reqs

LEMMA MarkOfRequest ==
    ASSUME NEW id \in ReqId
    PROVE  /\ \A sym \in {"zero", "one", "nl"} : Mark(sym, id) \in OfRequest(id)
           /\ Nl(id) \in OfRequest(id)
           /\ \A w \in Word : Term(w, id) \in OfRequest(id)
  BY DEF OfRequest, Mark, Nl, Term, Token, Symbol

LEMMA AnswerOfRequest ==
    ASSUME NEW id \in ReqId
    PROVE  \A ret : AnswerPieces(ret, id) \in Seq(Seq(OfRequest(id)))
<1> SUFFICES ASSUME NEW ret
             PROVE  AnswerPieces(ret, id) \in Seq(Seq(OfRequest(id)))
  OBVIOUS
<1> DEFINE S == OfRequest(id)
           verdict == Mark(IF ret = 0 THEN "zero" ELSE "one", id)
<1>1. verdict \in S /\ Nl(id) \in S
  BY MarkOfRequest
<1>2. AnswerPieces(ret, id) = << <<verdict, Nl(id), Nl(id)>> >>
  BY DEF AnswerPieces
<1> HIDE DEF S, verdict
<1>3. AnswerPieces(ret, id) \in Seq(Seq(S))
  BY <1>1, <1>2
<1> QED BY <1>3 DEF S

LEMMA ListOfRequest ==
    ASSUME NEW id \in ReqId, NEW list \in Seq(Key)
    PROVE  ListPieces(list, id) \in Seq(Seq(OfRequest(id)))
<1> DEFINE S == OfRequest(id)
           words == [i \in 1..Len(list) |-> <<Term(list[i], id), Nl(id)>>]
           first == IF list = <<>> THEN << <<Nl(id)>> >> ELSE words
<1>1. Nl(id) \in S /\ \A key \in Key : Term(key, id) \in S
  <2>1. Key \subseteq Word
    BY CutAssumption DEF Key
  <2> QED BY <2>1, MarkOfRequest
<1>2. ListPieces(list, id) = first \o << <<Nl(id)>> >>
  BY DEF ListPieces
<1> HIDE DEF S
<1>3. words \in Seq(Seq(S))
  <2>1. \A i \in 1..Len(list) : <<Term(list[i], id), Nl(id)>> \in Seq(S)
    <3> SUFFICES ASSUME NEW i \in 1..Len(list)
                 PROVE  <<Term(list[i], id), Nl(id)>> \in Seq(S)
      OBVIOUS
    <3>1. Term(list[i], id) \in S
      BY <1>1, ElementOfSeq
    <3> QED BY <1>1, <3>1
  <2> QED BY <2>1, LenProperties
<1>4. << <<Nl(id)>> >> \in Seq(Seq(S))
  BY <1>1
<1>5. first \in Seq(Seq(S))
  BY <1>3, <1>4
<1> HIDE DEF words, first
<1>6. first \o << <<Nl(id)>> >> \in Seq(Seq(S))
  BY <1>4, <1>5, ConcatProperties
<1> QED BY <1>2, <1>6 DEF S

LEMMA HearingNext ==
    ASSUME RequestInv, TypeInv, AskInv, OwnInv, Timely, NEW f \in FrontEnd, [Next]_vars
    PROVE  Hearing(f)'
<1> SUFFICES ASSUME pc'[f] = "wait"
             PROVE  Hearing(f)'
  BY DEF Hearing
<1> DEFINE id == cur[f]
           S == OfRequest(id)
<1>1. /\ cur'[f] = id /\ id \in DOMAIN reqs /\ reqs[id] \in RequestRecord
      /\ reqs[id].op # "local"
      /\ \/ Unanswered(f)'
         \/ pc[f] = "wait" /\ (IsAnswered(f) \/ Writes(f) \/ Reads(f) \/ Stays(f))
  BY WaitingStep
<1>2. id \in ReqId
  <2>1. reqs \in Seq(RequestRecord) /\ Len(reqs) <= MaxReq
    BY DEF RequestInv, RoutingInv, HistoryInv
  <2> QED BY <1>1, <2>1, LenProperties, BoundAssumption DEF ReqId
<1>3. pc[f] = "wait" => /\ inbuf[f] \in Seq(S) /\ toFront[f] \in Seq(S) /\ page[f] \in Seq(S)
                        /\ Owed(f) \in Seq(Seq(S))
  BY DEF OwnInv, Hearing
<1> DEFINE Heard == /\ inbuf'[f] \in Seq(S) /\ toFront'[f] \in Seq(S) /\ page'[f] \in Seq(S)
                    /\ Owed(f)' \in Seq(Seq(S))
<1>4. SUFFICES Heard
  BY <1>1 DEF Hearing, OfRequest
<1>5. <<>> \in Seq(S) /\ <<>> \in Seq(Seq(S))
  OBVIOUS
<1>6. CASE Unanswered(f)'
  BY <1>5, <1>6 DEF Unanswered
<1>7. CASE pc[f] = "wait" /\ IsAnswered(f)
  <2>1. /\ Execute(f, AskedText(reqs, id))
        /\ inbuf'[f] = <<>> /\ toFront'[f] = <<>> /\ page'[f] = <<>> /\ Owed(f)' = pending'
    BY <1>7 DEF IsAnswered
  <2>2. dico \in Seq(Key)
    BY DEF RequestInv, RoutingInv, CoreInv
  <2>3. pending' \in Seq(Seq(S))
    BY <1>1, <1>2, <1>5, <2>1, <2>2, ExecutedDoes, AnswerOfRequest, ListOfRequest
  <2> QED BY <1>5, <2>1, <2>3
<1> HIDE DEF S
<1>8. CASE pc[f] = "wait" /\ Writes(f)
  <2>1. /\ Owed(f) # <<>> /\ Owed(f) \in Seq(Seq(S))
        /\ toFront'[f] = toFront[f] \o Head(Owed(f)) /\ Owed(f)' = Tail(Owed(f))
        /\ inbuf'[f] = inbuf[f] /\ page'[f] = page[f]
    BY <1>3, <1>8 DEF Writes
  <2>2. Head(Owed(f)) \in Seq(S) /\ Tail(Owed(f)) \in Seq(Seq(S))
    BY <2>1, HeadTailProperties
  <2> QED BY <1>3, <1>8, <2>1, <2>2, ConcatProperties
<1>9. CASE pc[f] = "wait" /\ Reads(f)
  <2>1. CASE f = "http"
    <3>1. /\ HttpUsed \in Seq(S) /\ HttpKept \in Seq(S)
          /\ Rest(toFront["http"], HttpRoom) \in Seq(S)
      BY <1>3, <1>9, <2>1, HttpTextsAre
    <3> QED BY <1>3, <1>9, <2>1, <3>1 DEF Reads
  <2>2. CASE f = "midnet"
    <3>1. MidnetText \in Seq(S) /\ Rest(toFront["midnet"], MidnetRoom) \in Seq(S)
      BY <1>3, <1>9, <2>2, MidnetTextsAre
    <3> QED BY <1>3, <1>9, <2>2, <3>1 DEF Reads
  <2> QED BY <1>9, <2>1, <2>2 DEF Reads
<1>10. CASE pc[f] = "wait" /\ Stays(f)
  BY <1>3, <1>10 DEF Stays
<1> QED BY <1>1, <1>6, <1>7, <1>8, <1>9, <1>10

\* A page that is made of lines of one request is of this request.
LEMMA PageOfRequest ==
    ASSUME NEW id, NEW op, NEW lines \in Seq(OfRequest(id))
    PROVE  HttpPage(op, lines) \in Seq(OfRequest(id))
<1>1. lines \in Seq(Token) /\ Len(lines) \in Nat /\ \A i \in 1..Len(lines) : lines[i].id = id
  <2>1. \A i \in 1..Len(lines) : lines[i] \in OfRequest(id)
    BY ElementOfSeq
  <2>2. lines \in Seq(Token)
    BY SeqMonotonic DEF OfRequest
  <2> QED BY <2>1, <2>2, LenProperties DEF OfRequest
<1>2. /\ Verdicts(lines) \in Seq(Token) /\ Len(Verdicts(lines)) = Len(lines)
      /\ \A i \in 1..Len(lines) : Verdicts(lines)[i].id = id
  BY <1>1, VerdictsProperties
<1>3. Verdicts(lines) \in Seq(OfRequest(id))
  <2> DEFINE v == Verdicts(lines)
  <2> HIDE DEF v
  <2>1. v \in Seq(Token) /\ \A i \in 1..Len(v) : v[i].id = id
    BY <1>2 DEF v
  <2>2. \A i \in 1..Len(v) : v[i] \in OfRequest(id)
    BY <2>1, ElementOfSeq DEF OfRequest
  <2>3. v \in Seq(OfRequest(id))
    BY <2>1, <2>2, LenProperties
  <2> QED BY <2>3 DEF v
<1> QED BY <1>3 DEF HttpPage

LEMMA OwnNext ==
    ASSUME RequestInv, TypeInv, AskInv, OwnInv, Timely, [Next]_vars
    PROVE  OwnInv'
<1>1. \A f \in FrontEnd : Hearing(f)'
  BY HearingNext
<1>2. \A i \in DOMAIN reqs : i \in DOMAIN reqs'
  BY ReqsGrow
<1>3. CASE told' = told
  BY <1>1, <1>2, <1>3 DEF OwnInv, OfRequest
<1>4. ASSUME NEW f \in FrontEnd, NEW kind \in Outcome, NEW body, cur[f] \in DOMAIN reqs,
             told' = [told EXCEPT ![cur[f]] = [kind |-> kind, body |-> body]],
             Tells(f, kind, body) \/ (kind \notin {"page", "cut"} /\ body = <<>>)
      PROVE  OwnInv'
  <2> DEFINE id == cur[f]
             S == OfRequest(id)
  <2>1. body \in Seq(S)
    <3>1. CASE body = <<>>
      BY <3>1
    <3>2. CASE Tells(f, kind, body)
      <4>1. inbuf[f] \in Seq(S) /\ toFront[f] \in Seq(S) /\ page[f] \in Seq(S)
        BY <3>2 DEF Tells, OwnInv, Hearing
      <4>2. CASE f = "http"
        <5>1. HttpUsed \in Seq(S) /\ page["http"] \in Seq(S)
          <6> HIDE DEF S
          <6> QED BY <4>1, <4>2, HttpTextsAre
        <5>2. \A op : /\ HttpPage(op, page["http"]) \in Seq(S)
                      /\ HttpPage(op, HttpUsed) \in Seq(S)
          BY <5>1, PageOfRequest
        <5> QED BY <3>2, <4>2, <5>2 DEF Tells
      <4>3. CASE f = "midnet"
        <5>1. MidnetText \in Seq(S)
          <6> HIDE DEF S
          <6> QED BY <4>1, <4>3, MidnetTextsAre
        <5> QED BY <3>2, <4>3, <5>1 DEF Tells
      <4> QED BY <3>2, <4>2, <4>3 DEF Tells
    <3> QED BY <1>4, <3>1, <3>2
  <2>2. told \in [ReqId -> [kind : Outcome, body : Seq(Token)]]
    BY DEF TypeInv
  <2>3. \A i \in ReqId : i # id => told'[i] = told[i]
    BY <1>4, <2>2
  <2>4. id \in ReqId => told'[id] = [kind |-> kind, body |-> body]
    BY <1>4, <2>2
  <2>5. ASSUME NEW i \in ReqId
        PROVE  /\ told'[i].body \in Seq(OfRequest(i))
               /\ told'[i].kind # "none" => i \in DOMAIN reqs'
    <3>1. CASE i = id
      BY <1>2, <1>4, <2>1, <2>4, <2>5, <3>1
    <3>2. CASE i # id
      BY <1>2, <2>3, <3>2 DEF OwnInv
    <3> QED BY <3>1, <3>2
  <2> QED BY <1>1, <2>5 DEF OwnInv, OfRequest
<1> QED BY <1>3, <1>4, ToldStep

LEMMA OwnHolds ==
    ASSUME Timely, ReceptionLength >= 5
    PROVE  Spec => []OwnInv
<1>1. Init => OwnInv
  <2> SUFFICES ASSUME Init
               PROVE  OwnInv
    OBVIOUS
  <2>1. /\ \A f \in FrontEnd : pc[f] = "idle"
        /\ \A i \in ReqId : told[i] = [kind |-> "none", body |-> <<>>]
    BY DEF Init, FrontInit
  <2>2. \A f \in FrontEnd : Hearing(f)
    BY <2>1 DEF Hearing
  <2>3. \A i \in ReqId : told[i].kind = "none" /\ told[i].body = <<>>
    BY <2>1
  <2>4. \A i \in ReqId : <<>> \in Seq(OfRequest(i))
    OBVIOUS
  <2> QED BY <2>2, <2>3, <2>4 DEF OwnInv
<1>2. RequestInv /\ TypeInv /\ AskInv /\ OwnInv /\ [Next]_vars => OwnInv'
  BY OwnNext
<1> QED BY <1>1, <1>2, RequestHolds, TypeHolds, AskHolds, PTL DEF Spec

\* With timely processes and a core buffer that holds the longest request, a
\* client reads the answer to its own request and never the remains of another,
\* whatever else was cancelled, overflowed, cut or lost before.
THEOREM AnswersAreOwn ==
    ASSUME Timely, ReceptionLength >= 5
    PROVE  Spec => []AnswerIsOwn
<1>1. OwnInv => AnswerIsOwn
  <2> SUFFICES ASSUME OwnInv, NEW i \in ReqId, NEW n \in DOMAIN told[i].body
               PROVE  told[i].body[n].id = i
    BY DEF AnswerIsOwn
  <2>1. told[i].body \in Seq(OfRequest(i))
    BY DEF OwnInv
  <2>2. told[i].body[n] \in OfRequest(i)
    BY <2>1, ElementOfSeq, LenProperties
  <2> QED BY <2>2 DEF OfRequest
<1> QED BY <1>1, OwnHolds, PTL
-----------------------------------------------------------------------------
(* The words of a text, and the empty line that ends a list of them.       *)

Words(text) == {text[i].w : i \in {j \in 1..Len(text) : text[j].sym = "word"}}

\* Position i of text ends an empty line: the page of a list stops there.
Blank(text, i) == text[i].sym = "nl" /\ (i = 1 \/ text[i - 1].sym = "nl")
Closed(text) == \E i \in 1..Len(text) : Blank(text, i)

\* No word follows an empty line.
Tidy(text) ==
    \A i \in 1..Len(text) : Blank(text, i) => \A j \in i..Len(text) : text[j].sym # "word"

LEMMA WordsAre ==
    ASSUME NEW text
    PROVE  \A w : w \in Words(text) <=>
                     \E i \in 1..Len(text) : text[i].sym = "word" /\ text[i].w = w
  BY DEF Words

LEMMA WordsOfParts ==
    ASSUME NEW S, NEW a \in Seq(S), NEW b \in Seq(S)
    PROVE  Words(a \o b) = Words(a) \cup Words(b)
<1>1. /\ Len(a) \in Nat /\ Len(b) \in Nat /\ Len(a \o b) = Len(a) + Len(b)
      /\ \A i \in 1..(Len(a) + Len(b)) :
            (a \o b)[i] = IF i <= Len(a) THEN a[i] ELSE b[i - Len(a)]
  BY ConcatProperties, LenProperties
<1> DEFINE s == a \o b
<1> HIDE DEF s
<1>2. /\ Len(s) = Len(a) + Len(b)
      /\ \A i \in 1..Len(a) : i \in 1..Len(s) /\ s[i] = a[i]
      /\ \A i \in 1..Len(b) : Len(a) + i \in 1..Len(s) /\ s[Len(a) + i] = b[i]
      /\ \A i \in 1..Len(s) : \/ i \in 1..Len(a) /\ s[i] = a[i]
                              \/ i - Len(a) \in 1..Len(b) /\ s[i] = b[i - Len(a)]
  BY <1>1 DEF s
<1>3. ASSUME NEW w \in Words(a)
      PROVE  w \in Words(s)
  <2>1. PICK i \in 1..Len(a) : a[i].sym = "word" /\ a[i].w = w
    BY <1>3, WordsAre
  <2>2. i \in 1..Len(s) /\ s[i] = a[i]
    BY <1>2
  <2> QED BY <2>1, <2>2, WordsAre
<1>4. ASSUME NEW w \in Words(b)
      PROVE  w \in Words(s)
  <2>1. PICK i \in 1..Len(b) : b[i].sym = "word" /\ b[i].w = w
    BY <1>4, WordsAre
  <2>2. Len(a) + i \in 1..Len(s) /\ s[Len(a) + i] = b[i]
    BY <1>2
  <2> QED BY <2>1, <2>2, WordsAre
<1>5. ASSUME NEW w \in Words(s)
      PROVE  w \in Words(a) \cup Words(b)
  <2>1. PICK i \in 1..Len(s) : s[i].sym = "word" /\ s[i].w = w
    BY <1>5, WordsAre
  <2>2. \/ i \in 1..Len(a) /\ s[i] = a[i]
        \/ i - Len(a) \in 1..Len(b) /\ s[i] = b[i - Len(a)]
    BY <1>2
  <2> QED BY <2>1, <2>2, WordsAre
<1> QED BY <1>3, <1>4, <1>5 DEF s

LEMMA WordsOfLines ==
    ASSUME NEW S, NEW text \in Seq(S)
    PROVE  Words(Lines(text)) = Words(text)
<1>1. \A n \in 1..Len(Lines(text)) :
         \E i \in 1..Len(text) : text[i].sym # "nl" /\ Lines(text)[n] = text[i]
  BY LinesProperties
<1>2. \A i \in 1..Len(text) : text[i].sym # "nl" =>
         \E n \in 1..Len(Lines(text)) : Lines(text)[n] = text[i]
  BY LinesProperties
<1>3. Words(Lines(text)) \subseteq Words(text)
  BY <1>1 DEF Words
<1>4. Words(text) \subseteq Words(Lines(text))
  BY <1>2 DEF Words
<1> QED BY <1>3, <1>4

LEMMA EmptyIsTidy ==
    Words(<<>>) = {} /\ Tidy(<<>>) /\ ~Closed(<<>>)
  BY DEF Words, Tidy, Closed

\* What follows a line feed of a tidy text is tidy.
LEMMA TidyEnd ==
    ASSUME NEW S, NEW a \in Seq(S), NEW b \in Seq(S), Tidy(a \o b),
           a = <<>> \/ a[Len(a)].sym = "nl"
    PROVE  Tidy(b) /\ (Closed(b) => Closed(a \o b))
<1> DEFINE s == a \o b
           n == Len(a)
<1>1. /\ n \in Nat /\ Len(b) \in Nat /\ Len(s) = n + Len(b)
      /\ \A i \in 1..Len(b) : n + i \in 1..Len(s) /\ s[n + i] = b[i]
      /\ n # 0 => s[n].sym = "nl"
  <2>1. n \in Nat /\ Len(b) \in Nat /\ Len(s) = n + Len(b)
    BY ConcatProperties, LenProperties
  <2>2. \A i \in 1..(n + Len(b)) : s[i] = IF i <= n THEN a[i] ELSE b[i - n]
    BY ConcatProperties
  <2> HIDE DEF s
  <2>3. n # 0 => s[n] = a[n]
    BY <2>1, <2>2
  <2>4. n # 0 => a[n].sym = "nl"
    OBVIOUS
  <2> HIDE DEF n
  <2> QED BY <2>1, <2>2, <2>3, <2>4, SMTT(30)
<1>2. Tidy(s)
  OBVIOUS
<1> HIDE DEF s, n
<1>3. ASSUME NEW i \in 1..Len(b), Blank(b, i)
      PROVE  n + i \in 1..Len(s) /\ Blank(s, n + i)
  <2>1. CASE i = 1
    <3>1. s[n + 1] = b[1] /\ b[1].sym = "nl" /\ n + 1 \in 1..Len(s)
      BY <1>1, <1>3, <2>1 DEF Blank
    <3>2. n = 0 \/ s[n + 1 - 1].sym = "nl"
      BY <1>1
    <3> QED BY <1>1, <2>1, <3>1, <3>2 DEF Blank
  <2>2. CASE i # 1
    <3>1. i - 1 \in 1..Len(b) /\ n + (i - 1) = n + i - 1
      BY <1>1, <1>3, <2>2
    <3>2. s[n + i - 1] = b[i - 1] /\ s[n + i] = b[i]
      BY <1>1, <3>1
    <3> QED BY <1>1, <1>3, <2>2, <3>2 DEF Blank
  <2> QED BY <2>1, <2>2
<1>4. Tidy(b)
  <2> SUFFICES ASSUME NEW i \in 1..Len(b), Blank(b, i), NEW j \in i..Len(b)
               PROVE  b[j].sym # "word"
    BY DEF Tidy
  <2>1. n + j \in (n + i)..Len(s) /\ s[n + j] = b[j]
    BY <1>1
  <2> QED BY <1>2, <1>3, <2>1 DEF Tidy
<1>5. Closed(b) => Closed(s)
  BY <1>3 DEF Closed
<1> QED BY <1>4, <1>5 DEF s

\* A row after rows begins no empty line.
LEMMA TidyRow ==
    ASSUME NEW S, NEW a \in Seq(S), ~Closed(a), NEW b \in Seq(S),
           Len(b) = 2, b[1].sym = "word", b[2].sym = "nl"
    PROVE  Tidy(a \o b) /\ ~Closed(a \o b)
<1> DEFINE s == a \o b
           n == Len(a)
<1>1. /\ n \in Nat /\ Len(s) = n + 2
      /\ \A i \in 1..n : s[i] = a[i]
      /\ s[n + 1].sym = "word"
  <2>1. n \in Nat /\ Len(s) = n + Len(b)
    BY ConcatProperties, LenProperties
  <2>2. \A i \in 1..(n + Len(b)) : s[i] = IF i <= n THEN a[i] ELSE b[i - n]
    BY ConcatProperties
  <2> HIDE DEF s, n
  <2>3. n + 1 \in 1..(n + Len(b)) /\ ~(n + 1 <= n) /\ n + 1 - n = 1
    BY <2>1
  <2>4. s[n + 1] = b[1]
    BY <2>1, <2>2, <2>3
  <2> QED BY <2>1, <2>2, <2>4
<1> HIDE DEF s, n
<1>2. ASSUME NEW i \in 1..Len(s)
      PROVE  ~Blank(s, i)
  <2>1. CASE i \in 1..n
    <3>1. s[i] = a[i] /\ (i # 1 => s[i - 1] = a[i - 1])
      BY <1>1, <2>1
    <3>2. ~Blank(a, i)
      BY <2>1 DEF Closed, n
    <3> QED BY <3>1, <3>2 DEF Blank
  <2>2. CASE i = n + 1
    BY <1>1, <2>2 DEF Blank
  <2>3. CASE i = n + 2
    <3>1. i # 1 /\ i - 1 = n + 1
      BY <1>1, <2>3
    <3> QED BY <1>1, <3>1 DEF Blank
  <2> QED BY <1>1, <1>2, <2>1, <2>2, <2>3
<1> QED BY <1>2 DEF Tidy, Closed, s

LEMMA TidyLineFeed ==
    ASSUME NEW S, NEW a \in Seq(S), Tidy(a), NEW b \in Seq(S), Len(b) = 1, b[1].sym = "nl"
    PROVE  Tidy(a \o b)
<1> DEFINE s == a \o b
           n == Len(a)
<1>1. /\ n \in Nat /\ Len(s) = n + 1
      /\ \A i \in 1..n : s[i] = a[i]
      /\ s[n + 1].sym = "nl"
  <2>1. n \in Nat /\ Len(s) = n + Len(b)
    BY ConcatProperties, LenProperties
  <2>2. \A i \in 1..(n + Len(b)) : s[i] = IF i <= n THEN a[i] ELSE b[i - n]
    BY ConcatProperties
  <2> HIDE DEF s, n
  <2>3. n + 1 \in 1..(n + Len(b)) /\ ~(n + 1 <= n) /\ n + 1 - n = 1
    BY <2>1
  <2>4. s[n + 1] = b[1]
    BY <2>1, <2>2, <2>3
  <2> QED BY <2>1, <2>2, <2>4
<1> HIDE DEF s
<1>2. SUFFICES ASSUME NEW i \in 1..Len(s), Blank(s, i), NEW j \in i..Len(s)
               PROVE  s[j].sym # "word"
  BY DEF Tidy, s
<1>3. CASE j = n + 1
  BY <1>1, <1>3
<1>4. CASE j # n + 1
  <2>1. i \in 1..n /\ j \in i..n /\ s[j] = a[j] /\ s[i] = a[i]
    BY <1>1, <1>4
  <2>2. i # 1 => s[i - 1] = a[i - 1]
    BY <1>1, <2>1
  <2>3. Blank(a, i)
    BY <1>2, <2>1, <2>2 DEF Blank
  <2> QED BY <2>1, <2>3 DEF Tidy
<1> QED BY <1>3, <1>4

LEMMA FirstNewlineIsFirst ==
    ASSUME NEW S, NEW text \in Seq(S)
    PROVE  /\ FirstNewline(text) # 0 =>
                 FirstNewline(text) \in 1..Len(text) /\ text[FirstNewline(text)].sym = "nl"
           /\ \A i \in 1..Len(text) : text[i].sym = "nl" =>
                 FirstNewline(text) # 0 /\ FirstNewline(text) <= i
<1> DEFINE feeds == {i \in 1..Len(text) : text[i].sym = "nl"}
<1>1. FirstNewline(text) = IF feeds # {} THEN Min(feeds) ELSE 0
  BY DEF FirstNewline, SelectInSeq
<1>2. feeds \subseteq Nat
  OBVIOUS
<1>3. feeds # {} => Min(feeds) \in feeds /\ \A i \in feeds : Min(feeds) <= i
  <2> HIDE DEF feeds
  <2> QED BY <1>2, LeastElement
<1>4. CASE feeds = {}
  BY <1>1, <1>4
<1>5. CASE feeds # {}
  <2> DEFINE first == Min(feeds)
  <2>1. first \in feeds /\ \A i \in feeds : first <= i
    BY <1>3, <1>5
  <2>2. FirstNewline(text) = first
    BY <1>1, <1>5
  <2> HIDE DEF first
  <2>3. first \in 1..Len(text) /\ first # 0 /\ text[first].sym = "nl"
    BY <2>1
  <2> QED BY <2>1, <2>2, <2>3
<1> QED BY <1>4, <1>5

LEMMA StartsBlank ==
    ASSUME NEW text, Len(text) \in Nat \ {0}, Tidy(text), text[1].sym = "nl"
    PROVE  Closed(text) /\ Words(text) = {}
<1>1. 1 \in 1..Len(text) /\ Blank(text, 1)
  BY DEF Blank
<1>2. \A j \in 1..Len(text) : text[j].sym # "word"
  BY <1>1 DEF Tidy
<1> QED BY <1>1, <1>2 DEF Closed, Words

\* A text that ends a tidy list holds the words of all that is to come.
LEMMA ListEnds ==
    ASSUME NEW S, NEW text \in Seq(S), NEW rest \in Seq(S), Tidy(text \o rest),
           EndOfText(text) # 0
    PROVE  /\ Closed(text \o rest)
           /\ Words(SubSeq(text, 1, EndOfText(text))) = Words(text \o rest)
           /\ Words(text) = Words(text \o rest)
<1> DEFINE e == EndOfText(text)
           a == SubSeq(text, 1, e)
           b == SubSeq(text, e + 1, Len(text))
           c == b \o rest
<1>1. e \in 1..(Len(text) - 1) /\ text[e].sym = "nl" /\ text[e + 1].sym = "nl"
  BY MarkBounds
<1> HIDE DEF e
<1>2. Len(text) \in Nat /\ e \in 0..Len(text) /\ e \in Nat
  BY <1>1, LenProperties
<1>3. /\ a \in Seq(S) /\ b \in Seq(S) /\ Len(a) = e /\ Len(b) = Len(text) - e
      /\ a[e] = text[e] /\ b[1] = text[e + 1] /\ text = a \o b
  <2>1. e \in 1..e /\ 1 \in 1..(Len(text) - e)
    BY <1>1, <1>2
  <2> QED BY <1>2, <2>1, SplitText
<1> HIDE DEF a, b
<1>4. c \in Seq(S) /\ Len(c) \in Nat \ {0} /\ c[1] = b[1]
  <2>1. /\ c \in Seq(S) /\ Len(c) = Len(b) + Len(rest) /\ Len(rest) \in Nat
        /\ \A i \in 1..(Len(b) + Len(rest)) : c[i] = IF i <= Len(b) THEN b[i] ELSE rest[i - Len(b)]
    BY <1>3, ConcatProperties, LenProperties
  <2>2. Len(b) \in Nat \ {0}
    BY <1>1, <1>2, <1>3
  <2> HIDE DEF c
  <2> QED BY <2>1, <2>2
<1>5. text \o rest = a \o c
  <2>1. (a \o b) \o rest = a \o (b \o rest)
    <3>1. a \in Seq(S) /\ b \in Seq(S) /\ rest \in Seq(S)
      BY <1>3
    <3> QED BY ONLY <3>1, ConcatAssociative
  <2>2. text = a \o b
    BY <1>3
  <2> QED BY <2>1, <2>2
<1>6. Tidy(c) /\ (Closed(c) => Closed(text \o rest))
  <2>1. Tidy(a \o c) /\ a[Len(a)].sym = "nl"
    BY <1>1, <1>3, <1>5
  <2> HIDE DEF c
  <2> QED BY <1>3, <1>4, <1>5, <2>1, TidyEnd
<1>7. Closed(c) /\ Words(c) = {}
  <2> HIDE DEF c
  <2> QED BY <1>1, <1>3, <1>4, <1>6, StartsBlank
<1>8. Words(text \o rest) = Words(a)
  <2>1. Words(a \o c) = Words(a) \cup Words(c)
    <3> HIDE DEF c
    <3> QED BY <1>3, <1>4, WordsOfParts
  <2> QED BY <1>5, <1>7, <2>1
<1>9. Words(a) \subseteq Words(text) /\ Words(text) \subseteq Words(text \o rest)
  <2>1. Words(a \o b) = Words(a) \cup Words(b)
    BY <1>3, WordsOfParts
  <2>2. Words(text \o rest) = Words(text) \cup Words(rest)
    BY WordsOfParts
  <2> QED BY <1>3, <2>1, <2>2
<1> QED BY <1>6, <1>7, <1>8, <1>9 DEF e, a
-----------------------------------------------------------------------------
(* The answer to a list on its way.                                        *)

PiecesWords(pieces) == UNION {Words(pieces[n]) : n \in 1..Len(pieces)}
Row(w, id) == <<Term(w, id), Nl(id)>>
EmptyLine(id) == <<Nl(id)>>

\* Every write is a row with a word, or nothing but line feeds are left.
RowsThenEnd(pieces, id) ==
    \A n \in 1..Len(pieces) :
        \/ \E w \in Key : pieces[n] = Row(w, id)
        \/ \A m \in n..Len(pieces) : pieces[m] = EmptyLine(id)

\* A front end has used the lines before, coming is what the core has written
\* since and owed are the writes to come.
ListWords(before, coming, owed) ==
    Words(before) \cup Words(coming) \cup PiecesWords(owed)

Listing(coming, owed, id) ==
    /\ Tidy(coming)
    /\ Closed(coming) => PiecesWords(owed) = {}
    /\ RowsThenEnd(owed, id)

LEMMA ShapeOfRow ==
    ASSUME NEW w, NEW id
    PROVE  /\ Len(Row(w, id)) = 2 /\ Row(w, id)[1].sym = "word" /\ Row(w, id)[1].w = w
           /\ Row(w, id)[2].sym = "nl"
           /\ Len(EmptyLine(id)) = 1 /\ EmptyLine(id)[1].sym = "nl"
  BY DEF Row, EmptyLine, Term, Nl, Mark

LEMMA WordsOfRow ==
    ASSUME NEW w, NEW id
    PROVE  Words(Row(w, id)) = {w}
<1> DEFINE r == Row(w, id)
<1>1. Len(r) = 2 /\ r[1].sym = "word" /\ r[1].w = w /\ r[2].sym = "nl"
  BY ShapeOfRow
<1> HIDE DEF r
<1>2. w \in Words(r)
  BY <1>1, WordsAre
<1>3. ASSUME NEW v \in Words(r)
      PROVE  v = w
  <2>1. PICK i \in 1..Len(r) : r[i].sym = "word" /\ r[i].w = v
    BY <1>3, WordsAre
  <2>2. i = 1 \/ i = 2
    BY <1>1
  <2> QED BY <1>1, <2>1, <2>2
<1>4. Words(r) = {w}
  BY <1>2, <1>3
<1> QED BY <1>4 DEF r

LEMMA WordsOfEmptyLine ==
    ASSUME NEW id
    PROVE  Words(EmptyLine(id)) = {}
<1> DEFINE l == EmptyLine(id)
<1>1. Len(l) = 1 /\ l[1].sym = "nl"
  BY ShapeOfRow
<1> HIDE DEF l
<1>2. ASSUME NEW v \in Words(l)
      PROVE  FALSE
  <2>1. PICK i \in 1..Len(l) : l[i].sym = "word"
    BY <1>2, WordsAre
  <2> QED BY <1>1, <2>1
<1>3. Words(l) = {}
  BY <1>2
<1> QED BY <1>3 DEF l

LEMMA PiecesWordsAre ==
    ASSUME NEW pieces
    PROVE  \A w : w \in PiecesWords(pieces) <=>
                     \E n \in 1..Len(pieces) : w \in Words(pieces[n])
  BY DEF PiecesWords

\* write_dictionary() announces the words of the dictionary.
LEMMA ListPiecesList ==
    ASSUME NEW list \in Seq(Key), NEW id
    PROVE  RowsThenEnd(ListPieces(list, id), id) /\ PiecesWords(ListPieces(list, id)) = Keys(list)
<1> DEFINE p == ListPieces(list, id)
           line == EmptyLine(id)
<1>1. CASE list = <<>>
  <2>1. p = <<line>> \o <<line>>
    BY <1>1 DEF ListPieces, EmptyLine
  <2> HIDE DEF p, line
  <2>2. Len(p) = 2 /\ p[1] = line /\ p[2] = line
    BY <2>1
  <2> USE DEF line
  <2> HIDE DEF p
  <2>3. RowsThenEnd(p, id)
    BY <2>2 DEF RowsThenEnd
  <2>4. PiecesWords(p) = {}
    <3>1. \A n \in 1..Len(p) : p[n] = EmptyLine(id)
      BY <2>2
    <3>2. \A n \in 1..Len(p) : Words(p[n]) = {}
      BY <3>1, WordsOfEmptyLine
    <3> QED BY <3>2, PiecesWordsAre
  <2>5. Keys(list) = {}
    BY <1>1 DEF Keys, ToSet
  <2> QED BY <2>3, <2>4, <2>5 DEF p
<1>2. CASE list # <<>>
  <2> DEFINE rows == [i \in 1..Len(list) |-> Row(list[i], id)]
             end == <<line>>
             n == Len(list)
  <2>1. p = rows \o end
    BY <1>2 DEF ListPieces, Row, EmptyLine
  <2>2. n \in Nat /\ Len(rows) = n /\ Len(end) = 1 /\ end[1] = line
    BY LenProperties
  <2>3. /\ Len(p) = n + 1 /\ p[n + 1] = line
        /\ \A i \in 1..n : p[i] = Row(list[i], id)
    BY <2>1, <2>2
  <2>4. \A i \in 1..n : list[i] \in Key
    BY ElementOfSeq
  <2> HIDE DEF p, rows, end
  <2>5. RowsThenEnd(p, id)
    <3> SUFFICES ASSUME NEW i \in 1..(n + 1)
                 PROVE  \/ \E w \in Key : p[i] = Row(w, id)
                        \/ \A m \in i..(n + 1) : p[m] = EmptyLine(id)
      BY <2>3 DEF RowsThenEnd
    <3>1. CASE i \in 1..n
      BY <2>3, <2>4, <3>1
    <3>2. CASE i = n + 1
      <4>1. \A m \in i..(n + 1) : m = n + 1
        BY <2>2, <3>2
      <4> QED BY <2>3, <4>1
    <3> QED BY <2>2, <3>1, <3>2
  <2>6. \A w : w \in Keys(list) <=> \E i \in 1..n : w = list[i]
    BY LenProperties DEF Keys, ToSet
  <2>7. ASSUME NEW w
        PROVE  w \in PiecesWords(p) <=> \E i \in 1..n : w = list[i]
    <3>1. ASSUME NEW i \in 1..n, w = list[i]
          PROVE  w \in PiecesWords(p)
      <4>1. i \in 1..Len(p) /\ p[i] = Row(w, id)
        BY <2>2, <2>3, <3>1
      <4>2. Words(p[i]) = {w}
        BY <4>1, WordsOfRow
      <4> QED BY <4>1, <4>2, PiecesWordsAre
    <3>2. ASSUME NEW i \in 1..Len(p), w \in Words(p[i])
          PROVE  i \in 1..n /\ w = list[i]
      <4>1. i # n + 1
        BY <2>3, <3>2, WordsOfEmptyLine
      <4>2. i \in 1..n
        BY <2>2, <2>3, <4>1
      <4>3. Words(p[i]) = {list[i]}
        <5>1. p[i] = Row(list[i], id)
          BY <2>3, <4>2
        <5> QED BY <5>1, WordsOfRow
      <4> QED BY <3>2, <4>2, <4>3
    <3> QED BY <3>1, <3>2, PiecesWordsAre
  <2>8. PiecesWords(p) = Keys(list)
    BY <2>6, <2>7
  <2> QED BY <2>5, <2>8 DEF p
<1> QED BY <1>1, <1>2

\* A write moves the first piece to what is coming.
LEMMA ListingWrites ==
    ASSUME NEW S, NEW coming \in Seq(S), NEW owed \in Seq(Seq(S)), owed # <<>>,
           NEW before, NEW id, Listing(coming, owed, id)
    PROVE  /\ Listing(coming \o Head(owed), Tail(owed), id)
           /\ ListWords(before, coming \o Head(owed), Tail(owed))
                  = ListWords(before, coming, owed)
<1> DEFINE first == Head(owed)
           left == Tail(owed)
           l == Len(owed)
<1>1. /\ first \in Seq(S) /\ left \in Seq(Seq(S)) /\ first = owed[1]
      /\ l \in Nat \ {0} /\ Len(left) = l - 1
      /\ \A n \in 1..(l - 1) : left[n] = owed[n + 1]
  <2>1. /\ first \in Seq(S) /\ left \in Seq(Seq(S)) /\ Len(left) = l - 1
        /\ \A n \in 1..Len(left) : left[n] = owed[n + 1]
    BY HeadTailProperties
  <2>2. l \in Nat \ {0} /\ first = owed[1]
    BY EmptySeq, SMTT(30)
  <2> QED BY <2>1, <2>2
<1> HIDE DEF first, left
<1>2. PiecesWords(owed) = Words(first) \cup PiecesWords(left)
  <2>1. ASSUME NEW w \in PiecesWords(owed)
        PROVE  w \in Words(first) \cup PiecesWords(left)
    <3>1. PICK n \in 1..l : w \in Words(owed[n])
      BY <2>1, PiecesWordsAre
    <3>2. CASE n = 1
      BY <1>1, <3>1, <3>2
    <3>3. CASE n # 1
      <4>1. n - 1 \in 1..Len(left) /\ left[n - 1] = owed[n]
        BY <1>1, <3>3
      <4> QED BY <3>1, <4>1, PiecesWordsAre
    <3> QED BY <3>2, <3>3
  <2>2. ASSUME NEW w \in PiecesWords(left)
        PROVE  w \in PiecesWords(owed)
    <3>1. PICK n \in 1..Len(left) : w \in Words(left[n])
      BY <2>2, PiecesWordsAre
    <3>2. n + 1 \in 1..l /\ left[n] = owed[n + 1]
      BY <1>1
    <3> QED BY <3>1, <3>2, PiecesWordsAre
  <2>3. ASSUME NEW w \in Words(first)
        PROVE  w \in PiecesWords(owed)
    <3>1. 1 \in 1..l /\ first = owed[1]
      BY <1>1
    <3> QED BY <2>3, <3>1, PiecesWordsAre
  <2> QED BY <2>1, <2>2, <2>3
<1>3. Words(coming \o first) = Words(coming) \cup Words(first)
  BY <1>1, WordsOfParts
<1>4. RowsThenEnd(left, id)
  <2> SUFFICES ASSUME NEW n \in 1..(l - 1)
               PROVE  \/ \E w \in Key : left[n] = Row(w, id)
                      \/ \A m \in n..(l - 1) : left[m] = EmptyLine(id)
    BY <1>1 DEF RowsThenEnd
  <2>1. n + 1 \in 1..l /\ left[n] = owed[n + 1]
    BY <1>1
  <2>2. \A m \in n..(l - 1) : m + 1 \in (n + 1)..l /\ left[m] = owed[m + 1]
    BY <1>1
  <2> QED BY <2>1, <2>2 DEF Listing, RowsThenEnd
<1>5. Tidy(coming \o first) /\ (Closed(coming \o first) => PiecesWords(left) = {})
  <2>1. 1 \in 1..l
    BY <1>1
  <2>2. CASE \E w \in Key : first = Row(w, id)
    <3>1. PICK w \in Key : first = Row(w, id)
      BY <2>2
    <3>2. Words(first) = {w} /\ Len(first) = 2 /\ first[1].sym = "word" /\ first[2].sym = "nl"
      BY <3>1, WordsOfRow, ShapeOfRow
    <3>3. ~Closed(coming)
      BY <1>2, <3>2 DEF Listing
    <3> QED BY <1>1, <3>2, <3>3, TidyRow
  <2>3. CASE \A m \in 1..l : owed[m] = EmptyLine(id)
    <3>1. first = EmptyLine(id)
      BY <1>1, <2>1, <2>3
    <3>2. Len(first) = 1 /\ first[1].sym = "nl"
      BY <3>1, ShapeOfRow
    <3>3. Tidy(coming \o first)
      BY <1>1, <3>2, TidyLineFeed DEF Listing
    <3>4. PiecesWords(owed) = {}
      <4>1. \A m \in 1..l : Words(owed[m]) = {}
        BY <2>3, WordsOfEmptyLine
      <4> QED BY <4>1, PiecesWordsAre
    <3> QED BY <1>2, <3>3, <3>4
  <2> QED BY <1>1, <2>1, <2>2, <2>3 DEF Listing, RowsThenEnd
<1>6. Listing(coming \o first, left, id)
  BY <1>4, <1>5 DEF Listing
<1>7. ListWords(before, coming \o first, left) = ListWords(before, coming, owed)
  BY <1>2, <1>3 DEF ListWords
<1> QED BY <1>6, <1>7 DEF first, left

\* A read moves whole lines from what is coming to what is used.
LEMMA ListingReads ==
    ASSUME NEW S, NEW head \in Seq(S), NEW left \in Seq(S), head = <<>> \/ head[Len(head)].sym = "nl",
           NEW before \in Seq(S), NEW owed, NEW id, Listing(head \o left, owed, id)
    PROVE  /\ Listing(left, owed, id)
           /\ ListWords(before \o Lines(head), left, owed) = ListWords(before, head \o left, owed)
<1>1. Tidy(left) /\ (Closed(left) => Closed(head \o left))
  BY TidyEnd DEF Listing
<1>2. Words(head \o left) = Words(head) \cup Words(left)
  BY WordsOfParts
<1>3. Words(before \o Lines(head)) = Words(before) \cup Words(head)
  <2>1. Lines(head) \in Seq(S)
    BY LinesProperties
  <2> QED BY <2>1, WordsOfParts, WordsOfLines
<1> QED BY <1>1, <1>2, <1>3 DEF Listing, ListWords
-----------------------------------------------------------------------------
(* Answers are true.                                                       *)

Coming(f) == inbuf[f] \o toFront[f]

\* What a verdict on request id of r says of the keys.
Claim(r, keys, id, sym) ==
    LET key == Cut[r[id].w]
    IN  /\ r[id].op = "put" /\ sym = "one" => key \in keys \ r[id].before
        /\ r[id].op = "put" /\ sym = "zero" => key \in keys
        /\ r[id].op = "get" /\ sym = "one" => key \in keys
        /\ r[id].op = "get" /\ sym = "zero" => key \notin r[id].before

\* A get or a put has no answer yet, or a verdict is to be written or read.
Judging(f) ==
    /\ page[f] = <<>> /\ inbuf[f] = <<>>
    /\ \/ toFront[f] = <<>> /\ Owed(f) = <<>>
       \/ \E sym \in {"zero", "one"} :
             /\ Claim(reqs, Keys(dico), cur[f], sym)
             /\ \/ toFront[f] = <<>> /\ Owed(f) = <<Verdict(sym, cur[f])>>
                \/ toFront[f] = Verdict(sym, cur[f]) /\ Owed(f) = <<>>

\* A list has no answer yet, or the words that are used, coming and owed are
\* stored and comprise those that were when it began.
Enumerating(f) ==
    LET words == ListWords(page[f], Coming(f), Owed(f))
    IN  /\ words \subseteq Keys(dico)
        /\ Unanswered(f) \/ reqs[cur[f]].before \subseteq words
        /\ Listing(Coming(f), Owed(f), cur[f])
        /\ f = "midnet" => page[f] = <<>>

Says(body, sym) ==
    /\ \E n \in 1..Len(body) : body[n].sym = sym
    /\ \A n \in 1..Len(body) : body[n].sym \in {"zero", "one"} => body[n].sym = sym

Truthful(r, keys, i, body) ==
    /\ r[i].op \in {"list", "get", "put"}
    /\ r[i].op = "list" => r[i].before \subseteq Words(body) /\ Words(body) \subseteq keys
    /\ r[i].op \in {"get", "put"} =>
          \E sym \in {"zero", "one"} : Claim(r, keys, i, sym) /\ Says(body, sym)

TruthInv ==
    /\ \A i \in DOMAIN reqs : reqs[i].before \subseteq Keys(dico)
    /\ \A f \in FrontEnd : pc[f] = "wait" =>
          IF reqs[cur[f]].op = "list" THEN Enumerating(f) ELSE Judging(f)
    /\ \A i \in ReqId : told[i].kind = "page" =>
          i \in DOMAIN reqs /\ Truthful(reqs, Keys(dico), i, told[i].body)

\* No word is ever removed from the dictionary.
LEMMA KeysGrow ==
    ASSUME RequestInv, RequestInv', SortedInv, [Next]_vars
    PROVE  Keys(dico) \subseteq Keys(dico')
<1>1. dico \in Seq(Key) /\ StrictlySorted(dico)
  BY DEF RequestInv, RoutingInv, CoreInv, SortedInv
<1>2. ASSUME NEW f \in FrontEnd, CoreReadAll(f), UNCHANGED frontVars
      PROVE  Keys(dico) \subseteq Keys(dico')
  <2>1. ASSUME NEW w \in Word, dico' = PutList(dico, w)
        PROVE  Keys(dico) \subseteq Keys(dico')
    BY <1>1, <2>1, PutListKeys
  <2> QED BY <1>2, <2>1, CoreReadAllStores
<1>3. ASSUME NEW f \in FrontEnd, Request(f)
      PROVE  dico' = dico
  BY <1>3 DEF Request, coreVars
<1> QED BY <1>2, <1>3, OtherStepsStoreNothing

LEMMA ClaimGrows ==
    ASSUME NEW r, NEW q, NEW keys, NEW more, NEW id, NEW sym,
           Claim(r, keys, id, sym), keys \subseteq more, q[id] = r[id]
    PROVE  Claim(q, more, id, sym)
  BY DEF Claim

LEMMA VerdictText ==
    ASSUME NEW id \in ReqId, NEW sym \in {"zero", "one"}
    PROVE  /\ Verdict(sym, id) \in Seq(Token) /\ Verdict(sym, id) # <<>>
           /\ Len(Verdict(sym, id)) = 3
           /\ Verdict(sym, id)[1].sym = sym /\ Verdict(sym, id)[2].sym = "nl"
           /\ Verdict(sym, id)[3].sym = "nl"
<1>1. Mark(sym, id) \in Token /\ Nl(id) \in Token
  BY MarkOfRequest DEF OfRequest
<1>2. Mark(sym, id).sym = sym /\ Nl(id).sym = "nl"
  BY DEF Mark, Nl
<1> DEFINE a == Mark(sym, id)
           b == Nl(id)
           v == <<a, b, b>>
<1>3. Verdict(sym, id) = v
  BY DEF Verdict
<1> HIDE DEF a, b
<1>4. v \in Seq(Token) /\ v # <<>> /\ Len(v) = 3 /\ v[1] = a /\ v[2] = b /\ v[3] = b
  BY <1>1 DEF a, b
<1> HIDE DEF v
<1> QED BY <1>2, <1>3, <1>4 DEF a, b

LEMMA VerdictMarks ==
    ASSUME NEW id \in ReqId, NEW sym \in {"zero", "one"}
    PROVE  FirstNewline(Verdict(sym, id)) = 2 /\ EndOfText(Verdict(sym, id)) = 2
<1> DEFINE v == Verdict(sym, id)
<1>1. /\ v \in Seq(Token) /\ Len(v) = 3
      /\ v[1].sym # "nl" /\ v[2].sym = "nl" /\ v[3].sym = "nl"
  BY VerdictText
<1> HIDE DEF v
<1>2. FirstNewline(v) = 2
  <2> DEFINE n == FirstNewline(v)
  <2>1. n # 0 => n \in 1..Len(v) /\ v[n].sym = "nl"
    BY <1>1, FirstNewlineIsFirst
  <2>2. 2 \in 1..Len(v)
    BY <1>1
  <2>3. n # 0 /\ n <= 2
    BY <1>1, <2>2, FirstNewlineIsFirst
  <2> HIDE DEF n
  <2>4. n = 1 \/ n = 2
    BY <1>1, <2>1, <2>3
  <2>5. n # 1
    BY <1>1, <2>1
  <2> QED BY <2>4, <2>5 DEF n
<1>3. EndOfText(v) = 2
  <2> DEFINE e == EndOfText(v)
  <2>1. e # 0
    <3>1. 2 \in 1..(Len(v) - 1) /\ v[2].sym = "nl" /\ v[2 + 1].sym = "nl"
      BY <1>1
    <3> QED BY <1>1, <3>1, NoMark
  <2>2. e \in 1..(Len(v) - 1) /\ v[e].sym = "nl"
    BY <1>1, <2>1, MarkBounds
  <2> HIDE DEF e
  <2>3. e = 1 \/ e = 2
    BY <1>1, <2>2
  <2>4. e # 1
    BY <1>1, <2>2
  <2> QED BY <2>3, <2>4 DEF e
<1> QED BY <1>2, <1>3 DEF v

\* The page of a verdict says the verdict, and the text does.
LEMMA VerdictSays ==
    ASSUME NEW id \in ReqId, NEW sym \in {"zero", "one"}
    PROVE  /\ Says(Verdict(sym, id), sym)
           /\ Says(Verdicts(<<>> \o Lines(SubSeq(Verdict(sym, id), 1, 2))), sym)
<1> DEFINE v == Verdict(sym, id)
           h == SubSeq(v, 1, 2)
           l == Lines(h)
           p == Verdicts(<<>> \o l)
<1>1. /\ v \in Seq(Token) /\ Len(v) = 3
      /\ v[1].sym = sym /\ v[2].sym = "nl" /\ v[3].sym = "nl"
  BY VerdictText
<1> HIDE DEF v
<1>2. Says(v, sym)
  <2>1. \A n \in 1..Len(v) : n = 1 \/ n = 2 \/ n = 3
    BY <1>1
  <2>2. 1 \in 1..Len(v)
    BY <1>1
  <2> QED BY <1>1, <2>1, <2>2 DEF Says
<1>3. h \in Seq(Token) /\ Len(h) = 2 /\ h[1].sym = sym /\ h[2].sym = "nl"
  <2>1. 2 \in 0..Len(v)
    BY <1>1
  <2>2. h \in Seq(Token) /\ Len(h) = 2 /\ \A i \in 1..2 : h[i] = v[i]
    BY <1>1, <2>1, PrefixProperties
  <2> HIDE DEF h
  <2> QED BY <1>1, <2>2
<1> HIDE DEF h
<1>4. l \in Seq(Token) /\ l # <<>> /\ \A n \in 1..Len(l) : l[n].sym = sym
  <2>1. \A n \in 1..Len(l) : \E i \in 1..Len(h) : h[i].sym # "nl" /\ l[n] = h[i]
    BY <1>3, LinesProperties
  <2>2. \A i \in 1..Len(h) : h[i].sym # "nl" => \E n \in 1..Len(l) : l[n] = h[i]
    BY <1>3, LinesProperties
  <2>3. l \in Seq(Token)
    BY <1>3, LinesProperties
  <2> HIDE DEF l
  <2>4. \A i \in 1..Len(h) : i = 1 \/ i = 2
    BY <1>3
  <2>5. \A n \in 1..Len(l) : l[n].sym = sym
    BY <1>3, <2>1, <2>4
  <2>6. 1 \in 1..Len(h)
    BY <1>3
  <2>7. \E n \in 1..Len(l) : TRUE
    BY <1>3, <2>2, <2>6
  <2> QED BY <2>3, <2>5, <2>7
<1> HIDE DEF l
<1>5. <<>> \o l = l
  BY <1>4, ConcatEmptySeq
<1>6. /\ p \in Seq(Token) /\ Len(p) = Len(l)
      /\ \A i \in 1..Len(l) : p[i].sym = sym
  <2>1. /\ p \in Seq(Token) /\ Len(p) = Len(l)
        /\ \A i \in 1..Len(l) : l[i].sym \in {"zero", "one"} => p[i].sym = l[i].sym
    BY <1>4, <1>5, VerdictsProperties
  <2> HIDE DEF p
  <2> QED BY <1>4, <2>1
<1> HIDE DEF p
<1>7. Says(p, sym)
  <2>1. 1 \in 1..Len(p)
    BY <1>4, <1>6, EmptySeq
  <2> QED BY <1>6, <2>1 DEF Says
<1> QED BY <1>2, <1>7 DEF p, l, h, v

\* A turn of a reading loop splits what is coming.
LEMMA HttpSplits ==
    ASSUME NEW S, inbuf["http"] \in Seq(S), toFront["http"] \in Seq(S), page["http"] \in Seq(S)
    PROVE  LET head == SubSeq(HttpText, 1, HttpLast)
               rest == Rest(toFront["http"], HttpRoom)
           IN  /\ Coming("http") = HttpText \o rest
               /\ Coming("http") = head \o (HttpKept \o rest)
               /\ head \in Seq(S) /\ HttpKept \o rest \in Seq(S) /\ rest \in Seq(S)
               /\ head = <<>> \/ head[Len(head)].sym = "nl"
<1> DEFINE text == HttpText
           last == HttpLast
           head == SubSeq(text, 1, last)
           kept == SubSeq(text, last + 1, Len(text))
           rest == Rest(toFront["http"], HttpRoom)
           first == Chunk(toFront["http"], HttpRoom)
<1>1. /\ HttpRoom \in Int /\ text \in Seq(S) /\ rest \in Seq(S) /\ last \in 0..Len(text)
      /\ first \in Seq(S) /\ first \o rest = toFront["http"]
  BY HttpTextsAre, ChunkAndRest, ChunkThenRest
<1>2. Coming("http") = text \o rest
  <2>1. Coming("http") = inbuf["http"] \o (first \o rest)
    BY <1>1 DEF Coming
  <2>2. text = inbuf["http"] \o first
    BY DEF HttpText
  <2>3. (inbuf["http"] \o first) \o rest = inbuf["http"] \o (first \o rest)
    <3> DEFINE a == inbuf["http"]
    <3>1. a \in Seq(S) /\ first \in Seq(S) /\ rest \in Seq(S)
      BY <1>1
    <3> HIDE DEF a, first, rest
    <3>2. (a \o first) \o rest = a \o (first \o rest)
      BY ONLY <3>1, ConcatAssociative
    <3> QED BY <3>2 DEF a
  <2> QED BY <2>1, <2>2, <2>3
<1>3. last # 0 => text[last].sym = "nl"
  <2>1. CASE EndOfText(text) # 0
    BY <1>1, <2>1, MarkBounds DEF HttpLast
  <2>2. CASE EndOfText(text) = 0
    <3> DEFINE feeds == {i \in 1..Len(text) : text[i].sym = "nl"}
    <3>1. last = IF feeds # {} THEN Max(feeds) ELSE 0
      BY <2>2 DEF HttpLast, LastNewline, SelectLastInSeq
    <3>2. feeds \subseteq 0..Len(text) /\ Len(text) \in Nat
      BY <1>1, LenProperties
    <3>3. feeds # {} => Max(feeds) \in feeds
      <4> HIDE DEF feeds
      <4> QED BY <3>2, GreatestElement
    <3> QED BY <3>1, <3>3
  <2> QED BY <2>1, <2>2
<1> HIDE DEF text, last, rest
<1>4. /\ head \in Seq(S) /\ kept \in Seq(S) /\ Len(head) = last /\ text = head \o kept
      /\ \A i \in 1..last : head[i] = text[i]
  BY <1>1, SplitText, ZenonT(30)
<1>5. head = <<>> \/ head[Len(head)].sym = "nl"
  <2>1. CASE last = 0
    BY <1>4, <2>1, EmptySeq
  <2>2. CASE last # 0
    <3>1. last \in 1..last
      BY <1>1, <2>2
    <3> QED BY <1>3, <1>4, <2>2, <3>1
  <2> QED BY <2>1, <2>2
<1> HIDE DEF head, kept
<1>6. (head \o kept) \o rest = head \o (kept \o rest)
  <2>1. head \in Seq(S) /\ kept \in Seq(S) /\ rest \in Seq(S)
    BY <1>1, <1>4
  <2> QED BY ONLY <2>1, ConcatAssociative
<1>7. kept \o rest \in Seq(S)
  BY <1>1, <1>4, ConcatProperties
<1> QED BY <1>1, <1>2, <1>4, <1>5, <1>6, <1>7 DEF head, kept, rest, text, last, HttpKept

LEMMA MidnetSplits ==
    ASSUME NEW S, inbuf["midnet"] \in Seq(S), toFront["midnet"] \in Seq(S)
    PROVE  /\ Coming("midnet") = MidnetText \o Rest(toFront["midnet"], MidnetRoom)
           /\ MidnetText \in Seq(S) /\ Rest(toFront["midnet"], MidnetRoom) \in Seq(S)
<1> DEFINE rest == Rest(toFront["midnet"], MidnetRoom)
           first == Chunk(toFront["midnet"], MidnetRoom)
           a == inbuf["midnet"]
<1>1. /\ MidnetRoom \in Int /\ MidnetText \in Seq(S) /\ rest \in Seq(S)
      /\ first \in Seq(S) /\ first \o rest = toFront["midnet"]
  BY MidnetTextsAre, ChunkAndRest, ChunkThenRest
<1>2. Coming("midnet") = a \o (first \o rest) /\ MidnetText = a \o first
  BY <1>1 DEF Coming, MidnetText
<1>3. a \in Seq(S) /\ first \in Seq(S) /\ rest \in Seq(S)
  BY <1>1
<1> HIDE DEF a, first, rest
<1>4. (a \o first) \o rest = a \o (first \o rest)
  BY ONLY <1>3, ConcatAssociative
<1> QED BY <1>1, <1>2, <1>4 DEF rest

LEMMA NothingComes ==
    ASSUME NEW f, inbuf[f] = <<>>, toFront[f] = <<>>
    PROVE  Coming(f) = <<>>
<1>1. <<>> \in Seq({})
  OBVIOUS
<1> QED BY <1>1, ConcatEmptySeq DEF Coming

LEMMA EnumeratingStep ==
    ASSUME RequestInv, RequestInv', TypeInv, AskInv, OwnInv, SortedInv, TruthInv, Timely,
           NEW f \in FrontEnd, [Next]_vars, pc'[f] = "wait", reqs[cur[f]].op = "list"
    PROVE  Enumerating(f)'
<1> DEFINE id == cur[f]
           S == OfRequest(id)
           before == reqs[id].before
<1>1. /\ cur'[f] = id /\ id \in DOMAIN reqs /\ reqs[id] \in RequestRecord
      /\ reqs[id].op # "local" /\ reqs'[id] = reqs[id]
      /\ \/ Unanswered(f)' /\ dico' = dico
         \/ pc[f] = "wait" /\ (IsAnswered(f) \/ Writes(f) \/ Reads(f) \/ Stays(f))
  BY WaitingStep
<1>2. pc[f] = "wait" =>
        /\ inbuf[f] \in Seq(S) /\ toFront[f] \in Seq(S) /\ page[f] \in Seq(S)
        /\ Owed(f) \in Seq(Seq(S)) /\ Enumerating(f)
  BY DEF OwnInv, Hearing, TruthInv
<1>3. Keys(dico) \subseteq Keys(dico') /\ before \subseteq Keys(dico)
  BY <1>1, KeysGrow DEF TruthInv
<1> DEFINE words == ListWords(page[f], Coming(f), Owed(f))
           after == ListWords(page'[f], Coming(f)', Owed(f)')
<1>4. SUFFICES /\ after \subseteq Keys(dico')
               /\ Unanswered(f)' \/ before \subseteq after
               /\ Listing(Coming(f)', Owed(f)', id)
               /\ f = "midnet" => page'[f] = <<>>
  BY <1>1 DEF Enumerating
<1>5. CASE Unanswered(f)'
  <2>1. /\ page'[f] = <<>> /\ Owed(f)' = <<>> /\ inbuf'[f] = <<>> /\ toFront'[f] = <<>>
    BY <1>5 DEF Unanswered
  <2>2. Coming(f)' = <<>>
    <3>1. inbuf'[f] \o toFront'[f] = <<>>
      <4>1. <<>> \in Seq({})
        OBVIOUS
      <4> QED BY <2>1, <4>1, ConcatEmptySeq
    <3> QED BY <3>1 DEF Coming
  <2>3. PiecesWords(<<>>) = {} /\ RowsThenEnd(<<>>, id)
    BY DEF PiecesWords, RowsThenEnd
  <2> QED BY <1>5, <2>1, <2>2, <2>3, EmptyIsTidy DEF ListWords, Listing
<1>6. CASE pc[f] = "wait" /\ IsAnswered(f)
  <2>1. /\ page'[f] = <<>> /\ inbuf'[f] = <<>> /\ toFront'[f] = <<>>
        /\ Owed(f)' = pending' /\ Execute(f, AskedText(reqs, id))
    BY <1>6 DEF IsAnswered
  <2>2. pending' = ListPieces(dico, id) /\ dico' = dico
    BY <1>1, <2>1, ExecutedDoes
  <2>3. Coming(f)' = <<>>
    <3>1. inbuf'[f] \o toFront'[f] = <<>>
      <4>1. <<>> \in Seq({})
        OBVIOUS
      <4> QED BY <2>1, <4>1, ConcatEmptySeq
    <3> QED BY <3>1 DEF Coming
  <2>4. PiecesWords(ListPieces(dico, id)) = Keys(dico) /\ RowsThenEnd(ListPieces(dico, id), id)
    BY ListPiecesList DEF RequestInv, RoutingInv, CoreInv
  <2> QED BY <1>3, <2>1, <2>2, <2>3, <2>4, EmptyIsTidy DEF ListWords, Listing
<1>7. CASE pc[f] = "wait" /\ Writes(f)
  <2>1. /\ Owed(f) # <<>> /\ toFront'[f] = toFront[f] \o Head(Owed(f))
        /\ Owed(f)' = Tail(Owed(f)) /\ inbuf'[f] = inbuf[f] /\ page'[f] = page[f]
    BY <1>7 DEF Writes
  <2>2. Head(Owed(f)) \in Seq(S) /\ Coming(f) \in Seq(S)
    <3> HIDE DEF S
    <3> QED BY <1>2, <1>7, <2>1, HeadTailProperties, ConcatProperties DEF Coming
  <2>3. Coming(f)' = Coming(f) \o Head(Owed(f))
    <3> DEFINE a == inbuf[f]
               b == toFront[f]
               c == Head(Owed(f))
    <3>1. a \in Seq(S) /\ b \in Seq(S) /\ c \in Seq(S)
      BY <1>2, <1>7, <2>2
    <3> HIDE DEF a, b, c, S
    <3>2. (a \o b) \o c = a \o (b \o c)
      BY ONLY <3>1, ConcatAssociative
    <3>3. Coming(f)' = a \o (b \o c) /\ Coming(f) = a \o b
      BY <2>1 DEF Coming, a, b, c
    <3> QED BY <3>2, <3>3 DEF c
  <2>4. ~Unanswered(f)
    BY <2>1 DEF Unanswered
  <2>5. /\ Listing(Coming(f) \o Head(Owed(f)), Tail(Owed(f)), id)
        /\ ListWords(page[f], Coming(f) \o Head(Owed(f)), Tail(Owed(f))) = words
    <3>1. Listing(Coming(f), Owed(f), id)
      BY <1>2, <1>7 DEF Enumerating
    <3> HIDE DEF S
    <3> QED BY <1>2, <1>7, <2>1, <2>2, <3>1, ListingWrites
  <2>6. after = words
    BY <2>1, <2>3, <2>5
  <2> QED BY <1>2, <1>3, <1>7, <2>1, <2>3, <2>4, <2>5, <2>6 DEF Enumerating
<1>8. CASE pc[f] = "wait" /\ Reads(f)
  <2>1. Owed(f)' = Owed(f) /\ toFront[f] # <<>> /\ Enumerating(f) /\ ~Unanswered(f)
    BY <1>2, <1>8 DEF Reads, Unanswered
  <2>2. CASE f = "http"
    <3> DEFINE head == SubSeq(HttpText, 1, HttpLast)
               rest == Rest(toFront["http"], HttpRoom)
               left == HttpKept \o rest
    <3>1. /\ page'[f] = page[f] \o Lines(head) /\ Coming(f)' = left
      BY <1>8, <2>2 DEF Reads, HttpUsed, Coming
    <3>2. /\ head \in Seq(S) /\ left \in Seq(S) /\ Coming(f) = head \o left
          /\ head = <<>> \/ head[Len(head)].sym = "nl"
      <4> HIDE DEF S
      <4> QED BY <1>2, <1>8, <2>2, HttpSplits
    <3>3. Listing(head \o left, Owed(f), id)
      BY <2>1, <3>2 DEF Enumerating
    <3> HIDE DEF head, left
    <3>4. /\ Listing(left, Owed(f), id)
          /\ ListWords(page[f] \o Lines(head), left, Owed(f)) = words
      <4> HIDE DEF S
      <4> QED BY <1>2, <1>8, <3>2, <3>3, ListingReads
    <3> QED BY <1>3, <2>1, <2>2, <3>1, <3>4 DEF Enumerating
  <2>3. CASE f = "midnet"
    <3>1. /\ inbuf'[f] = MidnetText /\ toFront'[f] = Rest(toFront["midnet"], MidnetRoom)
          /\ page'[f] = page[f]
      BY <1>8, <2>3 DEF Reads
    <3>2. Coming(f) = MidnetText \o Rest(toFront["midnet"], MidnetRoom)
      <4> HIDE DEF S
      <4> QED BY <1>2, <1>8, <2>3, MidnetSplits
    <3>3. Coming(f)' = Coming(f)
      BY <3>1, <3>2 DEF Coming
    <3> QED BY <1>3, <2>1, <3>1, <3>3 DEF Enumerating
  <2> QED BY <1>8, <2>2, <2>3 DEF Reads
<1>9. CASE pc[f] = "wait" /\ Stays(f)
  <2>1. /\ Coming(f)' = Coming(f) /\ Owed(f)' = Owed(f) /\ page'[f] = page[f]
        /\ Unanswered(f) => Unanswered(f)'
    BY <1>9 DEF Stays, Coming, Unanswered
  <2> QED BY <1>2, <1>3, <1>9, <2>1 DEF Enumerating
<1> QED BY <1>1, <1>5, <1>6, <1>7, <1>8, <1>9

\* A front end that finds a verdict has found all of its answer, or no room for
\* it.
LEMMA HttpVerdict ==
    ASSUME NEW id \in ReqId, NEW sym \in {"zero", "one"}, ReceptionLength >= 5,
           inbuf["http"] = <<>>, toFront["http"] = Verdict(sym, id)
    PROVE  HttpText = Verdict(sym, id)
<1> DEFINE v == Verdict(sym, id)
<1>1. v \in Seq(Token) /\ Len(v) = 3
  BY VerdictText
<1>2. HttpRoom = ReceptionLength
  <2>1. Len(<<>>) = 0
    OBVIOUS
  <2> QED BY <2>1, BoundAssumption DEF HttpRoom
<1>3. Chunk(v, HttpRoom) = v
  <2>1. Chunk(v, HttpRoom) = SubSeq(v, 1, Len(v))
    <3>1. Len(v) < HttpRoom
      BY <1>1, <1>2, BoundAssumption
    <3> QED BY <3>1 DEF Chunk
  <2> HIDE DEF v
  <2> QED BY <1>1, <2>1, SubSeqFull
<1> HIDE DEF v
<1>4. <<>> \o v = v
  BY <1>1, ConcatEmptySeq
<1> QED BY <1>3, <1>4 DEF HttpText, v

LEMMA MidnetVerdict ==
    ASSUME NEW id \in ReqId, NEW sym \in {"zero", "one"},
           inbuf["midnet"] = <<>>, toFront["midnet"] = Verdict(sym, id)
    PROVE  /\ Whole(MidnetText) => MidnetText = Verdict(sym, id)
           /\ Whole(MidnetText) \/ Full(MidnetText)
           /\ BufferLength >= 3 => Whole(MidnetText)
<1> DEFINE v == Verdict(sym, id)
           chunk == Chunk(v, MidnetRoom)
<1>1. /\ v \in Seq(Token) /\ Len(v) = 3 /\ EndOfText(v) = 2 /\ v[1].sym # "nl"
  BY VerdictText, VerdictMarks
<1>2. MidnetRoom = BufferLength /\ BufferLength \in Nat \ {0}
  <2>1. Len(<<>>) = 0
    OBVIOUS
  <2> QED BY <2>1, BoundAssumption DEF MidnetRoom
<1>3. MidnetText = chunk
  <2>1. chunk \in Seq(Token)
    BY <1>1, <1>2, ChunkAndRest
  <2> HIDE DEF chunk, v
  <2>2. <<>> \o chunk = chunk
    BY <2>1, ConcatEmptySeq
  <2> QED BY <2>2 DEF MidnetText, chunk, v
<1> HIDE DEF v
<1>4. CASE BufferLength >= 3
  <2>1. chunk = SubSeq(v, 1, Len(v))
    BY <1>1, <1>2, <1>4 DEF Chunk
  <2>2. chunk = v
    BY <1>1, <2>1, SubSeqFull
  <2> QED BY <1>1, <1>3, <2>2 DEF Whole, v
<1>5. CASE BufferLength < 3
  <2>1. chunk = SubSeq(v, 1, BufferLength) /\ BufferLength \in 0..Len(v)
    BY <1>1, <1>2, <1>5 DEF Chunk
  <2> HIDE DEF chunk
  <2>2. /\ chunk \in Seq(Token) /\ Len(chunk) = BufferLength
        /\ \A i \in 1..BufferLength : chunk[i] = v[i]
    BY <1>1, <2>1, PrefixProperties
  <2>3. EndOfText(chunk) = 0
    <3> SUFFICES ASSUME EndOfText(chunk) # 0
                 PROVE  FALSE
      OBVIOUS
    <3>1. EndOfText(chunk) \in 1..(Len(chunk) - 1) /\ chunk[EndOfText(chunk)].sym = "nl"
      BY <2>2, MarkBounds
    <3>2. EndOfText(chunk) = 1 /\ 1 \in 1..BufferLength
      BY <1>2, <1>5, <2>2, <3>1
    <3> QED BY <1>1, <2>2, <3>1, <3>2
  <2>4. ~(BufferLength >= 3)
    BY <1>2, <1>5
  <2> QED BY <1>3, <2>2, <2>3, <2>4 DEF Whole, Full
<1> QED BY <1>2, <1>4, <1>5

\* What executing a get or a put answers is true.
LEMMA AnswersClaim ==
    ASSUME RequestInv, SortedInv, TruthInv, NEW f, NEW id \in DOMAIN reqs,
           reqs[id] \in RequestRecord, reqs[id].op \in {"get", "put"},
           Execute(f, AskedText(reqs, id))
    PROVE  \/ pending' = <<>>
           \/ \E sym \in {"zero", "one"} :
                 Claim(reqs, Keys(dico'), id, sym) /\ pending' = <<Verdict(sym, id)>>
<1> DEFINE w == reqs[id].w
           before == reqs[id].before
<1>1. w \in Word /\ Cut[w] \in Key
  BY CutIsKey DEF RequestRecord
<1>2. dico \in Seq(Key) /\ StrictlySorted(dico) /\ before \subseteq Keys(dico)
  BY DEF RequestInv, RoutingInv, CoreInv, SortedInv, TruthInv
<1>3. \A ret : AnswerPieces(ret, id) = <<Verdict(IF ret = 0 THEN "zero" ELSE "one", id)>>
  BY DEF AnswerPieces, Verdict
<1>4. CASE /\ reqs[id].op = "get" /\ dico' = dico
           /\ pending' = AnswerPieces(GetReturn(dico, w), id)
  <2>1. Cut[w] \in Keys(dico) <=> GetReturn(dico, w) # 0
    BY <1>2, LenProperties DEF GetReturn, Contains, Keys, ToSet
  <2>2. CASE GetReturn(dico, w) = 0
    <3>1. Claim(reqs, Keys(dico'), id, "zero") /\ pending' = <<Verdict("zero", id)>>
      BY <1>2, <1>3, <1>4, <2>1, <2>2 DEF Claim
    <3> QED BY <3>1
  <2>3. CASE GetReturn(dico, w) # 0
    <3>1. Claim(reqs, Keys(dico'), id, "one") /\ pending' = <<Verdict("one", id)>>
      BY <1>2, <1>3, <1>4, <2>1, <2>3 DEF Claim
    <3> QED BY <3>1
  <2> QED BY <2>2, <2>3
<1>5. CASE /\ reqs[id].op = "put" /\ dico' = PutList(dico, w)
           /\ pending' = AnswerPieces(PutReturn(dico, w), id)
  <2>1. Cut[w] \in Keys(dico) <=> PutReturn(dico, w) = 0
    BY <1>1, <1>2, PutReturnProperties
  <2>2. Cut[w] \in Keys(dico')
    BY <1>1, <1>2, <1>5, PutListKeys
  <2>3. CASE PutReturn(dico, w) = 0
    <3>1. Claim(reqs, Keys(dico'), id, "zero") /\ pending' = <<Verdict("zero", id)>>
      BY <1>3, <1>5, <2>2, <2>3 DEF Claim
    <3> QED BY <3>1
  <2>4. CASE PutReturn(dico, w) # 0
    <3>1. Claim(reqs, Keys(dico'), id, "one") /\ pending' = <<Verdict("one", id)>>
      BY <1>2, <1>3, <1>5, <2>1, <2>2, <2>4 DEF Claim
    <3> QED BY <3>1
  <2> QED BY <2>3, <2>4
<1> QED BY <1>4, <1>5, ExecutedDoes

\* A verdict is never read in part.
LEMMA VerdictsAreReadWhole ==
    ASSUME ReceptionLength >= 5, NEW f, cur[f] \in ReqId, Judging(f)
    PROVE  ~Reads(f)
<1> SUFFICES ASSUME Reads(f)
             PROVE  FALSE
  OBVIOUS
<1>1. PICK sym \in {"zero", "one"} :
         /\ toFront[f] = Verdict(sym, cur[f]) /\ inbuf[f] = <<>>
  BY DEF Reads, Judging
<1>2. CASE f = "http"
  <2>1. EndOfText(HttpText) = 2
    BY <1>1, <1>2, HttpVerdict, VerdictMarks
  <2> QED BY <1>2, <2>1 DEF Reads
<1>3. CASE f = "midnet"
  <2>1. Whole(MidnetText) \/ Full(MidnetText)
    BY <1>1, <1>3, MidnetVerdict
  <2> QED BY <1>3, <2>1 DEF Reads
<1> QED BY <1>2, <1>3 DEF Reads

LEMMA JudgingStep ==
    ASSUME RequestInv, RequestInv', TypeInv, AskInv, SortedInv, TruthInv, Timely,
           ReceptionLength >= 5,
           NEW f \in FrontEnd, [Next]_vars, pc'[f] = "wait", reqs[cur[f]].op # "list"
    PROVE  Judging(f)'
<1> DEFINE id == cur[f]
<1>1. /\ cur'[f] = id /\ id \in DOMAIN reqs /\ reqs[id] \in RequestRecord
      /\ reqs[id].op # "local" /\ reqs'[id] = reqs[id]
      /\ \/ Unanswered(f)' /\ dico' = dico
         \/ pc[f] = "wait" /\ (IsAnswered(f) \/ Writes(f) \/ Reads(f) \/ Stays(f))
  BY WaitingStep
<1>2. reqs[id].op \in {"get", "put"} /\ id \in ReqId
  <2>1. reqs \in Seq(RequestRecord) /\ Len(reqs) <= MaxReq
    BY DEF RequestInv, RoutingInv, HistoryInv
  <2>2. id \in ReqId
    BY <1>1, <2>1, LenProperties, BoundAssumption DEF ReqId
  <2> QED BY <1>1, <2>2 DEF RequestRecord
<1>3. Keys(dico) \subseteq Keys(dico')
  BY KeysGrow
<1>4. \A sym : Claim(reqs, Keys(dico), id, sym) => Claim(reqs', Keys(dico'), id, sym)
  BY <1>1, <1>3, ClaimGrows
<1>5. pc[f] = "wait" => Judging(f)
  BY DEF TruthInv
<1>6. CASE Unanswered(f)'
  BY <1>6 DEF Unanswered, Judging
<1>7. CASE pc[f] = "wait" /\ IsAnswered(f)
  <2>1. /\ page'[f] = <<>> /\ inbuf'[f] = <<>> /\ toFront'[f] = <<>>
        /\ Owed(f)' = pending' /\ Execute(f, AskedText(reqs, id))
    BY <1>7 DEF IsAnswered
  <2>2. \/ pending' = <<>>
        \/ \E sym \in {"zero", "one"} :
              Claim(reqs, Keys(dico'), id, sym) /\ pending' = <<Verdict(sym, id)>>
    BY <1>1, <1>2, <2>1, AnswersClaim
  <2>3. \A sym : Claim(reqs, Keys(dico'), id, sym) => Claim(reqs', Keys(dico'), id, sym)
    BY <1>1, ClaimGrows
  <2> QED BY <1>1, <2>1, <2>2, <2>3 DEF Judging
<1>8. CASE pc[f] = "wait" /\ Writes(f)
  <2>1. /\ Owed(f) # <<>> /\ toFront'[f] = toFront[f] \o Head(Owed(f))
        /\ Owed(f)' = Tail(Owed(f)) /\ inbuf'[f] = inbuf[f] /\ page'[f] = page[f]
    BY <1>8 DEF Writes
  <2>2. PICK sym \in {"zero", "one"} :
           /\ Claim(reqs, Keys(dico), id, sym)
           /\ toFront[f] = <<>> /\ Owed(f) = <<Verdict(sym, id)>>
    BY <1>5, <1>8, <2>1 DEF Judging
  <2>3. toFront'[f] = Verdict(sym, id) /\ Owed(f)' = <<>>
    <3> DEFINE v == Verdict(sym, id)
    <3>1. v \in Seq(Token)
      BY <1>2, VerdictText
    <3> HIDE DEF v
    <3>2. Head(<<v>>) = v /\ Tail(<<v>>) = <<>>
      OBVIOUS
    <3>3. <<>> \o v = v
      BY <3>1, ConcatEmptySeq
    <3> QED BY <2>1, <2>2, <3>2, <3>3 DEF v
  <2> QED BY <1>1, <1>4, <1>5, <1>8, <2>1, <2>2, <2>3 DEF Judging
<1>9. CASE pc[f] = "wait" /\ Reads(f)
  BY <1>2, <1>5, <1>9, VerdictsAreReadWhole
<1>10. CASE pc[f] = "wait" /\ Stays(f)
  BY <1>1, <1>4, <1>5, <1>10 DEF Stays, Judging
<1> QED BY <1>1, <1>6, <1>7, <1>8, <1>9, <1>10

\* What a client of a get or a put is told is the verdict that was in the pipe.
LEMMA TellsVerdict ==
    ASSUME ReceptionLength >= 5, NEW f, cur[f] \in ReqId,
           reqs[cur[f]].op \in {"get", "put"}, Judging(f), NEW body, Tells(f, "page", body)
    PROVE  \E sym \in {"zero", "one"} :
              /\ Claim(reqs, Keys(dico), cur[f], sym)
              /\ toFront[f] = Verdict(sym, cur[f])
              /\ Says(body, sym)
<1> DEFINE id == cur[f]
<1>1. /\ toFront[f] # <<>>
      /\ \/ /\ f = "http"
            /\ \/ FirstNewline(HttpText) = 1 /\ body = HttpPage(HttpOp, page["http"])
               \/ EndOfText(HttpText) # 0 /\ body = HttpPage(HttpOp, HttpUsed)
         \/ /\ f = "midnet" /\ body = MidnetText /\ Whole(MidnetText)
  BY DEF Tells
<1>2. PICK sym \in {"zero", "one"} :
         /\ Claim(reqs, Keys(dico), id, sym)
         /\ toFront[f] = Verdict(sym, id) /\ inbuf[f] = <<>> /\ page[f] = <<>>
  BY <1>1 DEF Judging
<1>3. CASE f = "http"
  <2>1. HttpText = Verdict(sym, id)
    BY <1>2, <1>3, HttpVerdict
  <2>2. FirstNewline(HttpText) = 2 /\ EndOfText(HttpText) = 2
    BY <2>1, VerdictMarks
  <2>3. body = HttpPage(HttpOp, HttpUsed)
    BY <1>1, <1>3, <2>2
  <2>4. HttpOp # "list"
    BY <1>3 DEF HttpOp
  <2>5. HttpUsed = <<>> \o Lines(SubSeq(Verdict(sym, id), 1, 2))
    <3>1. HttpLast = 2
      BY <2>2 DEF HttpLast
    <3>2. page["http"] = <<>>
      BY <1>2, <1>3
    <3> QED BY <2>1, <3>1, <3>2 DEF HttpUsed
  <2>6. Says(body, sym)
    BY <2>3, <2>4, <2>5, VerdictSays DEF HttpPage
  <2> QED BY <1>2, <2>6
<1>4. CASE f = "midnet"
  <2>1. body = Verdict(sym, id)
    BY <1>1, <1>2, <1>4, MidnetVerdict
  <2>2. Says(body, sym)
    BY <2>1, VerdictSays
  <2> QED BY <1>2, <2>2
<1> QED BY <1>1, <1>3, <1>4

LEMMA TellsTruth ==
    ASSUME RequestInv, AskInv, OwnInv, TruthInv, ReceptionLength >= 5,
           NEW f \in FrontEnd, cur[f] \in DOMAIN reqs, NEW body, Tells(f, "page", body)
    PROVE  Truthful(reqs, Keys(dico), cur[f], body)
<1> DEFINE id == cur[f]
           S == OfRequest(id)
<1>1. /\ pc[f] = "wait" /\ toFront[f] # <<>>
      /\ \/ /\ f = "http"
            /\ \/ FirstNewline(HttpText) = 1 /\ body = HttpPage(HttpOp, page["http"])
               \/ EndOfText(HttpText) # 0 /\ body = HttpPage(HttpOp, HttpUsed)
         \/ /\ f = "midnet" /\ body = MidnetText /\ Whole(MidnetText)
  BY DEF Tells
<1>2. reqs[id].op \in {"list", "get", "put"} /\ id \in ReqId
  <2>1. reqs \in Seq(RequestRecord) /\ Len(reqs) <= MaxReq
    BY DEF RequestInv, RoutingInv, HistoryInv
  <2>2. id \in ReqId /\ reqs[id] \in RequestRecord
    BY <2>1, LenProperties, ElementOfSeq, BoundAssumption DEF ReqId
  <2>3. reqs[id].op # "local"
    BY <1>1 DEF AskInv, Reading
  <2> QED BY <2>2, <2>3 DEF RequestRecord
<1>3. /\ inbuf[f] \in Seq(S) /\ toFront[f] \in Seq(S) /\ page[f] \in Seq(S)
  BY <1>1 DEF OwnInv, Hearing
<1>4. CASE reqs[id].op = "list"
  <2>1. Enumerating(f)
    BY <1>1, <1>4 DEF TruthInv
  <2>2. /\ ListWords(page[f], Coming(f), Owed(f)) \subseteq Keys(dico)
        /\ reqs[id].before \subseteq ListWords(page[f], Coming(f), Owed(f))
        /\ Tidy(Coming(f)) /\ (Closed(Coming(f)) => PiecesWords(Owed(f)) = {})
    BY <1>1, <2>1 DEF Enumerating, Listing, Unanswered
  <2>3. Closed(Coming(f)) /\ Words(body) = Words(page[f]) \cup Words(Coming(f))
    <3>1. CASE f = "http"
      <4> DEFINE rest == Rest(toFront["http"], HttpRoom)
      <4>1. /\ HttpText \in Seq(S) /\ rest \in Seq(S) /\ Coming("http") = HttpText \o rest
        <5> HIDE DEF S
        <5> QED BY <1>3, <3>1, HttpSplits, HttpTextsAre
      <4>2. HttpOp = "list"
        BY <1>4, <3>1 DEF HttpOp
      <4> HIDE DEF S, rest
      <4>3. CASE FirstNewline(HttpText) = 1 /\ body = HttpPage(HttpOp, page["http"])
        <5>1. 1 \in 1..Len(HttpText) /\ HttpText[1].sym = "nl"
          BY <4>1, <4>3, FirstNewlineIsFirst
        <5>2. Len(Coming(f)) \in Nat \ {0} /\ Coming(f)[1].sym = "nl"
          <6> DEFINE c == HttpText \o rest
          <6>1. /\ Len(c) = Len(HttpText) + Len(rest) /\ Len(HttpText) \in Nat /\ Len(rest) \in Nat
                /\ \A i \in 1..(Len(HttpText) + Len(rest)) :
                      c[i] = IF i <= Len(HttpText) THEN HttpText[i] ELSE rest[i - Len(HttpText)]
            BY <4>1, ConcatProperties, LenProperties
          <6>2. c = Coming(f)
            BY <3>1, <4>1
          <6> HIDE DEF c
          <6>3. Len(HttpText) >= 1 /\ 1 \in 1..(Len(HttpText) + Len(rest))
            BY <5>1, <6>1
          <6>4. c[1] = HttpText[1] /\ Len(c) \in Nat \ {0}
            BY <6>1, <6>3
          <6> QED BY <5>1, <6>2, <6>4
        <5>3. Closed(Coming(f)) /\ Words(Coming(f)) = {}
          BY <2>2, <5>2, StartsBlank
        <5> QED BY <3>1, <4>2, <4>3, <5>3 DEF HttpPage
      <4>4. CASE EndOfText(HttpText) # 0 /\ body = HttpPage(HttpOp, HttpUsed)
        <5> DEFINE head == SubSeq(HttpText, 1, EndOfText(HttpText))
        <5>1. Closed(Coming(f)) /\ Words(head) = Words(Coming(f))
          <6> DEFINE text == HttpText
          <6>1. text \in Seq(S) /\ rest \in Seq(S) /\ Tidy(text \o rest) /\ EndOfText(text) # 0
            BY <2>2, <3>1, <4>1, <4>4
          <6> HIDE DEF text
          <6>2. /\ Closed(text \o rest)
                /\ Words(SubSeq(text, 1, EndOfText(text))) = Words(text \o rest)
            BY ONLY <6>1, ListEnds
          <6> QED BY <3>1, <4>1, <6>2 DEF text
        <5>2. HttpUsed = page[f] \o Lines(head)
          BY <3>1, <4>4 DEF HttpUsed, HttpLast
        <5>3. head \in Seq(S)
          <6>1. EndOfText(HttpText) \in 0..Len(HttpText)
            BY <4>1, EndOfTextBounds
          <6> QED BY <4>1, <6>1, PrefixProperties
        <5> HIDE DEF head
        <5>4. Lines(head) \in Seq(S) /\ Words(Lines(head)) = Words(head)
          BY <5>3, LinesProperties, WordsOfLines
        <5>5. Words(HttpUsed) = Words(page[f]) \cup Words(Coming(f))
          BY <1>3, <5>1, <5>2, <5>4, WordsOfParts
        <5> QED BY <4>2, <4>4, <5>1, <5>5 DEF HttpPage
      <4> QED BY <1>1, <3>1, <4>3, <4>4
    <3>2. CASE f = "midnet"
      <4> DEFINE rest == Rest(toFront["midnet"], MidnetRoom)
      <4>1. MidnetText \in Seq(S) /\ rest \in Seq(S) /\ Coming("midnet") = MidnetText \o rest
        <5> HIDE DEF S
        <5> QED BY <1>3, <3>2, MidnetSplits
      <4> HIDE DEF S, rest
      <4>2. EndOfText(MidnetText) # 0 /\ body = MidnetText
        BY <1>1, <3>2 DEF Whole
      <4>3. Closed(Coming(f)) /\ Words(MidnetText) = Words(Coming(f))
        <5> DEFINE text == MidnetText
        <5>1. text \in Seq(S) /\ rest \in Seq(S) /\ Tidy(text \o rest) /\ EndOfText(text) # 0
          BY <2>2, <3>2, <4>1, <4>2
        <5> HIDE DEF text
        <5>2. Closed(text \o rest) /\ Words(text) = Words(text \o rest)
          BY ONLY <5>1, ListEnds
        <5> QED BY <3>2, <4>1, <5>2 DEF text
      <4>4. page[f] = <<>>
        BY <2>1, <3>2 DEF Enumerating
      <4> QED BY <4>2, <4>3, <4>4, EmptyIsTidy
    <3> QED BY <1>1, <3>1, <3>2
  <2> QED BY <1>4, <2>2, <2>3 DEF Truthful, ListWords
<1>5. CASE reqs[id].op \in {"get", "put"}
  <2>1. Judging(f)
    BY <1>1, <1>5 DEF TruthInv
  <2>2. PICK sym \in {"zero", "one"} :
           /\ Claim(reqs, Keys(dico), id, sym) /\ toFront[f] = Verdict(sym, id)
           /\ Says(body, sym)
    BY <1>2, <1>5, <2>1, TellsVerdict
  <2> QED BY <1>2, <1>5, <2>2 DEF Truthful
<1> QED BY <1>2, <1>4, <1>5

LEMMA TruthNext ==
    ASSUME RequestInv, RequestInv', TypeInv, AskInv, OwnInv, SortedInv, TruthInv, Timely,
           ReceptionLength >= 5, [Next]_vars
    PROVE  TruthInv'
<1>1. Keys(dico) \subseteq Keys(dico') /\ \A i \in DOMAIN reqs : i \in DOMAIN reqs' /\ reqs'[i] = reqs[i]
  BY KeysGrow, ReqsGrow
<1>2. \A i \in DOMAIN reqs' : reqs'[i].before \subseteq Keys(dico')
  <2>1. ASSUME NEW f \in FrontEnd, Request(f), NEW i \in DOMAIN reqs'
        PROVE  reqs'[i].before \subseteq Keys(dico')
    <3>1. /\ DOMAIN reqs' = DOMAIN reqs \cup {Len(reqs) + 1}
          /\ reqs'[Len(reqs) + 1].before = Keys(dico) /\ dico' = dico
      BY <2>1, RequestAppends DEF RequestInv, coreVars
    <3>2. CASE i \in DOMAIN reqs
      BY <1>1, <3>2 DEF TruthInv
    <3>3. CASE i = Len(reqs) + 1
      BY <3>1, <3>3
    <3> QED BY <2>1, <3>1, <3>2, <3>3
  <2>2. ASSUME reqs' = reqs
        PROVE  \A i \in DOMAIN reqs' : reqs'[i].before \subseteq Keys(dico')
    BY <1>1, <2>2 DEF TruthInv
  <2>3. ASSUME NEW f \in FrontEnd, CoreReadAll(f), UNCHANGED frontVars
        PROVE  reqs' = reqs
    BY <2>3 DEF frontVars
  <2> QED BY <2>1, <2>2, <2>3, OtherStepsStoreNothing
<1>3. ASSUME NEW f \in FrontEnd, pc'[f] = "wait"
      PROVE  (IF reqs[cur[f]].op = "list" THEN Enumerating(f) ELSE Judging(f))'
  <2>1. cur'[f] = cur[f] /\ reqs'[cur[f]] = reqs[cur[f]]
    BY <1>3, WaitingStep
  <2>2. reqs[cur[f]].op = "list" => Enumerating(f)'
    BY <1>3, EnumeratingStep
  <2>3. reqs[cur[f]].op # "list" => Judging(f)'
    BY <1>3, JudgingStep
  <2> QED BY <2>1, <2>2, <2>3
<1>4. ASSUME NEW i \in DOMAIN reqs, NEW body, Truthful(reqs, Keys(dico), i, body)
      PROVE  i \in DOMAIN reqs' /\ Truthful(reqs', Keys(dico'), i, body)
  <2>1. i \in DOMAIN reqs' /\ reqs'[i] = reqs[i]
    BY <1>1
  <2>2. \A sym : Claim(reqs, Keys(dico), i, sym) => Claim(reqs', Keys(dico'), i, sym)
    BY <1>1, <2>1, ClaimGrows
  <2> QED BY <1>1, <1>4, <2>1, <2>2 DEF Truthful
<1>5. ASSUME NEW i \in ReqId, told'[i].kind = "page"
      PROVE  i \in DOMAIN reqs' /\ Truthful(reqs', Keys(dico'), i, told'[i].body)
  <2>1. CASE told'[i] = told[i]
    BY <1>4, <1>5, <2>1 DEF TruthInv
  <2>2. ASSUME NEW f \in FrontEnd, NEW kind \in Outcome, NEW body, cur[f] \in DOMAIN reqs,
               told' = [told EXCEPT ![cur[f]] = [kind |-> kind, body |-> body]],
               Tells(f, kind, body) \/ (kind \notin {"page", "cut"} /\ body = <<>>)
        PROVE  i \in DOMAIN reqs' /\ Truthful(reqs', Keys(dico'), i, told'[i].body)
    <3>1. CASE i # cur[f]
      BY <2>1, <2>2, <3>1 DEF TypeInv
    <3>2. CASE i = cur[f]
      <4>1. told'[i] = [kind |-> kind, body |-> body]
        BY <2>2, <3>2 DEF TypeInv
      <4>2. kind = "page" /\ told'[i].body = body
        BY <1>5, <4>1
      <4>3. Truthful(reqs, Keys(dico), cur[f], body)
        BY <2>2, <4>2, TellsTruth
      <4> QED BY <1>4, <2>2, <3>2, <4>2, <4>3
    <3> QED BY <3>1, <3>2
  <2> QED BY <2>1, <2>2, ToldStep
<1> QED BY <1>2, <1>3, <1>5 DEF TruthInv

LEMMA TruthHolds ==
    ASSUME Timely, ReceptionLength >= 5
    PROVE  Spec => []TruthInv
<1>1. Init => TruthInv
  BY DEF Init, FrontInit, TruthInv
<1>2. /\ RequestInv /\ RequestInv' /\ TypeInv /\ AskInv /\ OwnInv /\ SortedInv
      /\ TruthInv /\ [Next]_vars
      => TruthInv'
  BY TruthNext
<1> QED BY <1>1, <1>2, RequestHolds, TypeHolds, AskHolds, OwnHolds, SortedHolds, PTL DEF Spec

\* With timely processes and a core buffer that holds the longest request, what
\* a client is told was true of the dictionary at some instant between its
\* request and its answer: the verdict on a put or a get (dictionary.c:36-80),
\* and the list, which is whole although it comes in many writes and reads while
\* the other front end waits its turn (dictionary.c:82-110).
THEOREM AnswersAreTrue ==
    ASSUME Timely, ReceptionLength >= 5
    PROVE  Spec => []AnswersAreTruthful
<1>1. TypeInv /\ TruthInv => AnswersAreTruthful
  <2> SUFFICES ASSUME TypeInv, TruthInv
               PROVE  AnswersAreTruthful
    OBVIOUS
  <2>1. ASSUME NEW i \in ReqId, Answered(i)
        PROVE  LET key == IF reqs[i].op \in {"get", "put"} THEN Cut[reqs[i].w] ELSE NoWord
                   says == <<reqs[i].op, Said(i, "one"), Said(i, "zero")>>
               IN  CASE reqs[i].op = "list" ->
                            /\ reqs[i].before \subseteq Listed(i)
                            /\ Listed(i) \subseteq Keys(dico)
                     [] says = <<"put", TRUE, FALSE>> ->
                            key \in Keys(dico) \ reqs[i].before
                     [] says = <<"put", FALSE, TRUE>> -> key \in Keys(dico)
                     [] says = <<"get", TRUE, FALSE>> -> key \in Keys(dico)
                     [] says = <<"get", FALSE, TRUE>> -> key \notin reqs[i].before
                     [] OTHER -> FALSE
    <3> DEFINE body == told[i].body
    <3>1. Truthful(reqs, Keys(dico), i, body)
      BY <2>1 DEF TruthInv, Answered
    <3>2. DOMAIN body = 1..Len(body)
      BY LenProperties DEF TypeInv
    <3> HIDE DEF body
    <3>3. CASE reqs[i].op = "list"
      <4>1. Listed(i) = Words(body)
        BY <3>2 DEF Listed, Words, body
      <4>2. reqs[i].before \subseteq Words(body) /\ Words(body) \subseteq Keys(dico)
        BY <3>1, <3>3 DEF Truthful
      <4> QED BY <3>3, <4>1, <4>2
    <3>4. CASE reqs[i].op \in {"get", "put"}
      <4>1. PICK sym \in {"zero", "one"} : Claim(reqs, Keys(dico), i, sym) /\ Says(body, sym)
        BY <3>1, <3>4 DEF Truthful
      <4>2. CASE sym = "one"
        <5>1. Said(i, "one") = TRUE /\ Said(i, "zero") = FALSE
          BY <3>2, <4>1, <4>2 DEF Said, Says, body
        <5> QED BY <3>4, <4>1, <4>2, <5>1 DEF Claim
      <4>3. CASE sym = "zero"
        <5>1. Said(i, "one") = FALSE /\ Said(i, "zero") = TRUE
          BY <3>2, <4>1, <4>3 DEF Said, Says, body
        <5> QED BY <3>4, <4>1, <4>3, <5>1 DEF Claim
      <4> QED BY <4>1, <4>2, <4>3
    <3> QED BY <3>1, <3>3, <3>4 DEF Truthful
  <2> QED BY <2>1 DEF AnswersAreTruthful
<1> QED BY <1>1, TypeHolds, TruthHolds, PTL
-----------------------------------------------------------------------------
(* A word is announced as added once.                                      *)

\* Request i has been told, or will be, that its word was added.
Announces(i) ==
    /\ reqs[i].op = "put"
    /\ \/ Answered(i) /\ Said(i, "one")
       \/ \E f \in FrontEnd : /\ pc[f] = "wait" /\ cur[f] = i
                              /\ \/ toFront[f] = Verdict("one", i)
                                 \/ Owed(f) = <<Verdict("one", i)>>

AddInv ==
    \A i \in DOMAIN reqs : Announces(i) =>
        /\ Cut[reqs[i].w] \in Keys(dico)
        /\ \A j \in DOMAIN reqs : Announces(j) /\ i # j => Cut[reqs[i].w] # Cut[reqs[j].w]

\* The core announces request i to f, and no other one, as it adds its word.
Adds(f, i) ==
    /\ Owed(f)' # <<>> /\ cur'[f] = i
    /\ Cut[reqs[i].w] \in Keys(dico') \ Keys(dico)

LEMMA OneVerdict ==
    ASSUME NEW id \in ReqId
    PROVE  /\ Verdict("zero", id) # Verdict("one", id)
           /\ <<Verdict("zero", id)>> # <<Verdict("one", id)>>
           /\ Verdict("one", id) # <<>> /\ <<Verdict("one", id)>> # <<>>
<1> DEFINE zero == Verdict("zero", id)
           one == Verdict("one", id)
<1>1. zero[1].sym = "zero" /\ one[1].sym = "one" /\ one # <<>>
  BY VerdictText
<1> HIDE DEF zero, one
<1>2. zero # one
  BY <1>1
<1>3. <<zero>> # <<one>> /\ <<one>> # <<>>
  BY <1>2
<1> QED BY <1>1, <1>2, <1>3 DEF zero, one

LEMMA AnnouncedStep ==
    ASSUME RequestInv, RequestInv', TypeInv, AskInv, OwnInv, SortedInv, TruthInv, Timely,
           ReceptionLength >= 5, [Next]_vars, NEW i \in DOMAIN reqs', Announces(i)'
    PROVE  /\ i \in DOMAIN reqs /\ reqs'[i] = reqs[i]
           /\ Announces(i) \/ \E f \in FrontEnd : Adds(f, i)
<1>1. /\ reqs \in Seq(RequestRecord) /\ reqs' \in Seq(RequestRecord)
      /\ DOMAIN reqs \subseteq ReqId /\ DOMAIN reqs' \subseteq ReqId
  <2>1. /\ reqs \in Seq(RequestRecord) /\ Len(reqs) <= MaxReq
        /\ reqs' \in Seq(RequestRecord) /\ Len(reqs') <= MaxReq
    BY DEF RequestInv, RoutingInv, HistoryInv
  <2>2. DOMAIN reqs \subseteq ReqId
    BY <2>1, LenProperties, BoundAssumption DEF ReqId
  <2>3. DOMAIN reqs' \subseteq ReqId
    BY <2>1, LenProperties, BoundAssumption DEF ReqId
  <2> QED BY <2>1, <2>2, <2>3
<1>2. reqs'[i].op = "put" /\ i \in ReqId
  BY <1>1 DEF Announces
<1>3. \A j \in DOMAIN reqs : reqs'[j] = reqs[j]
  BY ReqsGrow
<1>4. ASSUME Answered(i)', Said(i, "one")'
      PROVE  i \in DOMAIN reqs /\ reqs'[i] = reqs[i] /\ Announces(i)
  <2>1. CASE told'[i] = told[i]
    <3>1. i \in DOMAIN reqs
      BY <1>2, <1>4, <2>1 DEF OwnInv, Answered
    <3> QED BY <1>2, <1>3, <1>4, <2>1, <3>1 DEF Announces, Answered, Said
  <2>2. ASSUME NEW f \in FrontEnd, NEW kind \in Outcome, NEW body, cur[f] \in DOMAIN reqs,
               told' = [told EXCEPT ![cur[f]] = [kind |-> kind, body |-> body]],
               Tells(f, kind, body) \/ (kind \notin {"page", "cut"} /\ body = <<>>)
        PROVE  i \in DOMAIN reqs /\ reqs'[i] = reqs[i] /\ Announces(i)
    <3>1. CASE i # cur[f]
      BY <1>2, <2>1, <2>2, <3>1 DEF TypeInv
    <3>2. CASE i = cur[f]
      <4>1. told'[i] = [kind |-> kind, body |-> body]
        BY <1>2, <2>2, <3>2 DEF TypeInv
      <4>2. kind = "page" /\ told'[i].body = body
        BY <1>4, <4>1 DEF Answered
      <4>3. reqs'[i] = reqs[i] /\ reqs[i].op = "put"
        BY <1>2, <1>3, <2>2, <3>2
      <4>4. pc[f] = "wait" /\ Judging(f) /\ Tells(f, "page", body)
        BY <2>2, <3>2, <4>2, <4>3 DEF Tells, TruthInv
      <4>5. PICK sym \in {"zero", "one"} : toFront[f] = Verdict(sym, i) /\ Says(body, sym)
        BY <1>2, <3>2, <4>3, <4>4, TellsVerdict
      <4>6. \E n \in 1..Len(body) : body[n].sym = "one"
        <5>1. PICK n \in DOMAIN body : body[n].sym = "one"
          BY <1>4, <4>2 DEF Said
        <5>2. DOMAIN body = 1..Len(body)
          <6>1. body \in Seq(OfRequest(i))
            <7>1. OwnInv'
              BY OwnNext
            <7> QED BY <1>2, <4>2, <7>1 DEF OwnInv, OfRequest
          <6> QED BY <6>1, LenProperties
        <5> QED BY <5>1, <5>2
      <4>7. sym = "one"
        BY <4>5, <4>6 DEF Says
      <4> QED BY <2>2, <3>2, <4>3, <4>4, <4>5, <4>7 DEF Announces
    <3> QED BY <3>1, <3>2
  <2> QED BY <2>1, <2>2, ToldStep
<1>5. ASSUME NEW f \in FrontEnd, pc'[f] = "wait", cur'[f] = i,
             toFront'[f] = Verdict("one", i) \/ Owed(f)' = <<Verdict("one", i)>>
      PROVE  i \in DOMAIN reqs /\ reqs'[i] = reqs[i] /\ (Announces(i) \/ Adds(f, i))
  <2>1. /\ cur[f] = i /\ i \in DOMAIN reqs /\ reqs[i] \in RequestRecord /\ reqs'[i] = reqs[i]
        /\ reqs[i].op = "put"
        /\ \/ Unanswered(f)' /\ dico' = dico
           \/ pc[f] = "wait" /\ (IsAnswered(f) \/ Writes(f) \/ Reads(f) \/ Stays(f))
    BY <1>2, <1>5, WaitingStep
  <2>2. pc[f] = "wait" => Judging(f)
    BY <2>1 DEF TruthInv
  <2>3. /\ Verdict("zero", i) # Verdict("one", i) /\ Verdict("one", i) # <<>>
        /\ <<Verdict("zero", i)>> # <<Verdict("one", i)>> /\ <<Verdict("one", i)>> # <<>>
    BY <1>2, OneVerdict
  <2>4. ~Unanswered(f)'
    BY <1>5, <2>3 DEF Unanswered
  <2>5. ASSUME pc[f] = "wait", IsAnswered(f)
        PROVE  Adds(f, i)
    <3>1. /\ Owed(f)' = pending' /\ toFront'[f] = <<>>
          /\ Execute(f, AskedText(reqs, i))
      BY <2>1, <2>5 DEF IsAnswered
    <3>2. pending' = <<Verdict("one", i)>>
      BY <1>5, <2>3, <3>1
    <3> DEFINE w == reqs[i].w
    <3>3. dico' = PutList(dico, w) /\ pending' = AnswerPieces(PutReturn(dico, w), i)
      BY <2>1, <2>3, <3>1, <3>2, ExecutedDoes
    <3>4. PutReturn(dico, w) # 0
      BY <2>3, <3>2, <3>3 DEF AnswerPieces, Verdict
    <3>5. w \in Word /\ dico \in Seq(Key) /\ StrictlySorted(dico)
      BY <2>1 DEF RequestRecord, RequestInv, RoutingInv, CoreInv, SortedInv
    <3>6. Cut[w] \in Keys(dico') /\ Cut[w] \notin Keys(dico)
      BY <3>3, <3>4, <3>5, PutListKeys, PutReturnProperties
    <3> QED BY <1>5, <2>3, <3>1, <3>2, <3>6 DEF Adds
  <2>6. ASSUME pc[f] = "wait", Writes(f)
        PROVE  Announces(i)
    <3>1. /\ Owed(f) # <<>> /\ toFront'[f] = toFront[f] \o Head(Owed(f))
          /\ Owed(f)' = Tail(Owed(f))
      BY <2>6 DEF Writes
    <3>2. PICK sym \in {"zero", "one"} : toFront[f] = <<>> /\ Owed(f) = <<Verdict(sym, i)>>
      BY <2>1, <2>2, <2>6, <3>1 DEF Judging
    <3> DEFINE v == Verdict(sym, i)
    <3>3. v \in Seq(Token)
      BY <1>2, VerdictText
    <3> HIDE DEF v
    <3>4. toFront'[f] = v /\ Owed(f)' = <<>>
      <4>1. Head(<<v>>) = v /\ Tail(<<v>>) = <<>>
        OBVIOUS
      <4>2. <<>> \o v = v
        BY <3>3, ConcatEmptySeq
      <4> QED BY <3>1, <3>2, <4>1, <4>2 DEF v
    <3>5. sym = "one"
      BY <1>5, <2>3, <3>4 DEF v
    <3> QED BY <2>1, <2>6, <3>2, <3>5 DEF Announces
  <2>7. ~(pc[f] = "wait" /\ Reads(f))
    BY <1>2, <2>1, <2>2, VerdictsAreReadWhole
  <2>8. ASSUME pc[f] = "wait", Stays(f)
        PROVE  Announces(i)
    BY <1>5, <2>1, <2>8 DEF Stays, Announces
  <2> QED BY <2>1, <2>4, <2>5, <2>6, <2>7, <2>8
<1> QED BY <1>4, <1>5 DEF Announces

LEMMA AddNext ==
    ASSUME RequestInv, RequestInv', TypeInv, AskInv, OwnInv, SortedInv, TruthInv, AddInv,
           Timely, ReceptionLength >= 5, [Next]_vars
    PROVE  AddInv'
<1>1. Keys(dico) \subseteq Keys(dico')
  BY KeysGrow
<1>2. SUFFICES ASSUME NEW i \in DOMAIN reqs', Announces(i)'
               PROVE  /\ Cut[reqs'[i].w] \in Keys(dico')
                      /\ \A j \in DOMAIN reqs' :
                            Announces(j)' /\ i # j => Cut[reqs'[i].w] # Cut[reqs'[j].w]
  BY DEF AddInv
<1>3. /\ i \in DOMAIN reqs /\ reqs'[i] = reqs[i]
      /\ Announces(i) \/ \E f \in FrontEnd : Adds(f, i)
  BY <1>2, AnnouncedStep
<1>4. Cut[reqs'[i].w] \in Keys(dico')
  BY <1>1, <1>3 DEF AddInv, Adds
<1>5. ASSUME NEW j \in DOMAIN reqs', Announces(j)', i # j
      PROVE  Cut[reqs'[i].w] # Cut[reqs'[j].w]
  <2>1. /\ j \in DOMAIN reqs /\ reqs'[j] = reqs[j]
        /\ Announces(j) \/ \E f \in FrontEnd : Adds(f, j)
    BY <1>5, AnnouncedStep
  <2>2. CASE Announces(i) /\ Announces(j)
    BY <1>3, <1>5, <2>1, <2>2 DEF AddInv
  <2>3. ASSUME NEW f \in FrontEnd, NEW g \in FrontEnd, Adds(f, i), Adds(g, j)
        PROVE  FALSE
    <3>1. current' = f /\ current' = g
      BY <2>3 DEF Adds, Owed
    <3> QED BY <1>5, <2>3, <3>1 DEF Adds
  <2>4. CASE Announces(i) /\ \E f \in FrontEnd : Adds(f, j)
    BY <1>3, <2>1, <2>4 DEF AddInv, Adds
  <2>5. CASE Announces(j) /\ \E f \in FrontEnd : Adds(f, i)
    BY <1>3, <2>1, <2>5 DEF AddInv, Adds
  <2> QED BY <1>3, <2>1, <2>2, <2>3, <2>4, <2>5
<1> QED BY <1>4, <1>5

\* With timely processes a word is announced as added to at most one client,
\* whichever front ends the requests to add it came through.
THEOREM WordsAreAddedOnce ==
    ASSUME Timely, ReceptionLength >= 5
    PROVE  Spec => []AddedOnce
<1>1. Init => AddInv
  BY DEF Init, FrontInit, AddInv
<1>2. /\ RequestInv /\ RequestInv' /\ TypeInv /\ AskInv /\ OwnInv /\ SortedInv
      /\ TruthInv /\ AddInv /\ [Next]_vars
      => AddInv'
  BY AddNext
<1>3. AddInv => AddedOnce
  BY DEF AddInv, AddedOnce, Announces, Answered
<1> QED
  BY <1>1, <1>2, <1>3, RequestHolds, TypeHolds, AskHolds, OwnHolds, SortedHolds, TruthHolds, PTL
  DEF Spec
-----------------------------------------------------------------------------
(* The end of an answer.                                                   *)

\* Every word of the text has a line feed behind it, as every write has.
Paired(text) ==
    \A i \in 1..Len(text) : text[i].sym # "nl" => i < Len(text) /\ text[i + 1].sym = "nl"

\* What the writes that are left need of a buffer, at most: two tokens for a
\* row and one for the empty line that ends the list.
Size(owed) == IF owed = <<>> THEN 0 ELSE 2 * Len(owed) - 1

LEMMA EmptyIsPaired == Paired(<<>>)
  BY DEF Paired

LEMMA PairedParts ==
    ASSUME NEW S, NEW a \in Seq(S), Paired(a), NEW b \in Seq(S), Paired(b)
    PROVE  Paired(a \o b)
<1> DEFINE s == a \o b
           n == Len(a)
<1>1. /\ n \in Nat /\ Len(b) \in Nat /\ Len(s) = n + Len(b)
      /\ \A i \in 1..(n + Len(b)) : s[i] = IF i <= n THEN a[i] ELSE b[i - n]
  BY ConcatProperties, LenProperties
<1> HIDE DEF s, n
<1>2. \A i \in 1..n : a[i].sym # "nl" => i < n /\ a[i + 1].sym = "nl"
  BY DEF Paired, n
<1>3. \A i \in 1..Len(b) : b[i].sym # "nl" => i < Len(b) /\ b[i + 1].sym = "nl"
  BY DEF Paired
<1>4. ASSUME NEW i \in 1..Len(s), s[i].sym # "nl"
      PROVE  i < Len(s) /\ s[i + 1].sym = "nl"
  <2>1. CASE i <= n
    <3>1. i \in 1..n /\ s[i] = a[i]
      BY <1>1, <2>1
    <3>2. i < n /\ a[i + 1].sym = "nl"
      BY <1>2, <1>4, <3>1
    <3>3. i + 1 \in 1..(n + Len(b)) /\ i + 1 <= n /\ i < n + Len(b)
      BY <1>1, <3>1, <3>2
    <3> QED BY <1>1, <3>2, <3>3
  <2>2. CASE ~(i <= n)
    <3> DEFINE k == i - n
    <3>1. k \in 1..Len(b) /\ s[i] = b[k] /\ i = n + k
      BY <1>1, <2>2
    <3>2. k < Len(b) /\ b[k + 1].sym = "nl"
      BY <1>3, <1>4, <3>1
    <3>3. i + 1 \in 1..(n + Len(b)) /\ ~(i + 1 <= n) /\ (i + 1) - n = k + 1 /\ i < n + Len(b)
      BY <1>1, <3>1, <3>2
    <3> QED BY <1>1, <3>2, <3>3
  <2> QED BY <2>1, <2>2
<1> QED BY <1>4 DEF Paired, s

LEMMA PairedEnd ==
    ASSUME NEW S, NEW a \in Seq(S), NEW b \in Seq(S), Paired(a \o b)
    PROVE  Paired(b)
<1> DEFINE s == a \o b
           n == Len(a)
<1>1. /\ n \in Nat /\ Len(b) \in Nat /\ Len(s) = n + Len(b)
      /\ \A i \in 1..(n + Len(b)) : s[i] = IF i <= n THEN a[i] ELSE b[i - n]
  BY ConcatProperties, LenProperties
<1>2. \A i \in 1..Len(s) : s[i].sym # "nl" => i < Len(s) /\ s[i + 1].sym = "nl"
  BY DEF Paired
<1> HIDE DEF s, n
<1>3. ASSUME NEW i \in 1..Len(b), b[i].sym # "nl"
      PROVE  i < Len(b) /\ b[i + 1].sym = "nl"
  <2> DEFINE k == n + i
  <2>1. k \in 1..Len(s) /\ k \in 1..(n + Len(b)) /\ ~(k <= n) /\ k - n = i
    BY <1>1
  <2>2. s[k] = b[i]
    BY <1>1, <2>1
  <2>3. k < Len(s) /\ s[k + 1].sym = "nl"
    BY <1>2, <1>3, <2>1, <2>2
  <2>4. k + 1 \in 1..(n + Len(b)) /\ ~(k + 1 <= n) /\ (k + 1) - n = i + 1 /\ i < Len(b)
    BY <1>1, <2>1, <2>3
  <2> QED BY <1>1, <2>3, <2>4
<1> QED BY <1>3 DEF Paired

\* The last line feed of a text that is paired, and the empty line behind it.
LEMMA PairedLine ==
    ASSUME NEW S, NEW a \in Seq(S), Paired(a), NEW b \in Seq(S), Len(b) = 1, b[1].sym = "nl"
    PROVE  Closed(a \o b) /\ (a # <<>> => EndOfText(a \o b) # 0)
<1> DEFINE s == a \o b
           n == Len(a)
<1>1. /\ n \in Nat /\ Len(s) = n + 1 /\ s \in Seq(S)
      /\ \A i \in 1..n : s[i] = a[i]
      /\ s[n + 1].sym = "nl"
  <2>1. n \in Nat /\ Len(s) = n + Len(b) /\ s \in Seq(S)
    BY ConcatProperties, LenProperties
  <2>2. \A i \in 1..(n + Len(b)) : s[i] = IF i <= n THEN a[i] ELSE b[i - n]
    BY ConcatProperties
  <2> HIDE DEF s, n
  <2>3. (n + 1) - n = 1 /\ ~(n + 1 <= n) /\ n + 1 \in 1..(n + Len(b))
    BY <2>1
  <2> QED BY <2>1, <2>2, <2>3
<1>2. a # <<>> => n # 0
  BY EmptySeq
<1>3. n # 0 => a[n].sym = "nl"
  <2>1. \A i \in 1..n : a[i].sym # "nl" => i < n
    BY DEF Paired
  <2> HIDE DEF n
  <2>2. n # 0 => n \in 1..n /\ ~(n < n)
    BY <1>1
  <2> QED BY <2>1, <2>2
<1> HIDE DEF s, n
<1>4. n # 0 => n \in 1..(Len(s) - 1) /\ s[n].sym = "nl" /\ s[n + 1].sym = "nl"
  BY <1>1, <1>3
<1>5. Blank(s, n + 1) /\ n + 1 \in 1..Len(s)
  <2>1. (n + 1) - 1 = n /\ (n = 0 => n + 1 = 1) /\ n + 1 \in 1..Len(s)
    BY <1>1
  <2> QED BY <1>1, <1>4, <2>1 DEF Blank
<1>6. Closed(s)
  BY <1>5 DEF Closed
<1>7. a # <<>> => EndOfText(s) # 0
  BY <1>1, <1>2, <1>4, NoMark
<1> QED BY <1>6, <1>7 DEF s

\* What is coming and owed of a list, and the room MidNet has for it: the end
\* comes with the last write.
Ending(f, coming, owed, id) ==
    /\ Paired(coming)
    /\ owed = <<>> => IF f = "http" THEN Closed(coming) ELSE EndOfText(coming) # 0
    /\ owed # <<>> => owed[Len(owed)] = EmptyLine(id)
    /\ f = "midnet" => /\ owed # <<>> /\ coming = <<>> => Len(owed) >= 2
                       /\ Len(coming) + Size(owed) <= BufferLength

LEMMA PairedPieces ==
    ASSUME NEW w, NEW id
    PROVE  Paired(Row(w, id)) /\ Paired(EmptyLine(id))
<1> DEFINE r == Row(w, id)
           l == EmptyLine(id)
<1>1. Len(r) = 2 /\ r[2].sym = "nl" /\ Len(l) = 1 /\ l[1].sym = "nl"
  BY ShapeOfRow
<1> HIDE DEF r, l
<1>2. ASSUME NEW i \in 1..Len(r), r[i].sym # "nl"
      PROVE  i < Len(r) /\ r[i + 1].sym = "nl"
  <2>1. i = 1
    BY <1>1, <1>2
  <2> QED BY <1>1, <2>1
<1>3. \A i \in 1..Len(l) : i = 1
  BY <1>1
<1> QED BY <1>1, <1>2, <1>3 DEF Paired, r, l

\* write_dictionary() ends with an empty line: one write for each word, but two
\* for none.
LEMMA ListPiecesEnd ==
    ASSUME NEW list \in Seq(Key), NEW id
    PROVE  LET p == ListPieces(list, id)
           IN  /\ Len(p) = IF Len(list) = 0 THEN 2 ELSE Len(list) + 1
               /\ p # <<>> /\ p[Len(p)] = EmptyLine(id)
<1> DEFINE p == ListPieces(list, id)
           line == EmptyLine(id)
           n == Len(list)
<1>1. n \in Nat /\ (n = 0 <=> list = <<>>)
  BY LenProperties, EmptySeq
<1>2. CASE list = <<>>
  <2>1. p = <<line>> \o <<line>>
    BY <1>2 DEF ListPieces, EmptyLine
  <2> HIDE DEF line, p
  <2>2. Len(p) = 2 /\ p[2] = line /\ p # <<>>
    BY <2>1
  <2> QED BY <1>1, <1>2, <2>2 DEF p, line
<1>3. CASE list # <<>>
  <2> DEFINE rows == [i \in 1..n |-> Row(list[i], id)]
             end == <<line>>
  <2>1. p = rows \o end
    BY <1>3 DEF ListPieces, Row, EmptyLine
  <2>2. Len(rows) = n /\ Len(end) = 1 /\ end[1] = line
    BY <1>1
  <2>3. Len(p) = n + 1 /\ p[n + 1] = line
    BY <1>1, <2>1, <2>2
  <2> HIDE DEF p, rows, end, line, n
  <2>4. p # <<>>
    BY <1>1, <2>3
  <2> QED BY <1>1, <1>3, <2>3, <2>4 DEF p, line, n
<1> QED BY <1>2, <1>3

LEMMA EndingWrites ==
    ASSUME NEW S, NEW coming \in Seq(S), NEW owed \in Seq(Seq(S)), owed # <<>>,
           NEW f \in FrontEnd, NEW id, RowsThenEnd(owed, id), Ending(f, coming, owed, id)
    PROVE  Ending(f, coming \o Head(owed), Tail(owed), id) /\ coming \o Head(owed) # <<>>
<1> DEFINE first == Head(owed)
           left == Tail(owed)
           l == Len(owed)
           both == coming \o first
<1>1. /\ first \in Seq(S) /\ left \in Seq(Seq(S)) /\ first = owed[1]
      /\ l \in Nat \ {0} /\ Len(left) = l - 1
      /\ \A n \in 1..(l - 1) : left[n] = owed[n + 1]
  <2>1. /\ first \in Seq(S) /\ left \in Seq(Seq(S)) /\ Len(left) = l - 1
        /\ \A n \in 1..Len(left) : left[n] = owed[n + 1]
    BY HeadTailProperties
  <2>2. l \in Nat \ {0} /\ first = owed[1]
    BY EmptySeq, SMTT(30)
  <2> QED BY <2>1, <2>2
<1>2. /\ Paired(coming) /\ owed[l] = EmptyLine(id)
      /\ f = "midnet" => /\ coming = <<>> => l >= 2
                         /\ Len(coming) + (2 * l - 1) <= BufferLength
  BY DEF Ending, Size
<1> HIDE DEF first, left
<1>3. (\E w \in Key : first = Row(w, id)) \/ first = EmptyLine(id)
  <2>1. 1 \in 1..l
    BY <1>1
  <2> QED BY <1>1, <2>1 DEF RowsThenEnd
<1>4. Paired(first) /\ Len(first) \in {1, 2}
  <2>1. CASE first = EmptyLine(id)
    BY <2>1, PairedPieces, ShapeOfRow
  <2>2. ASSUME NEW w \in Key, first = Row(w, id)
        PROVE  Paired(first) /\ Len(first) \in {1, 2}
    BY <2>2, PairedPieces, ShapeOfRow
  <2> QED BY <1>3, <2>1, <2>2
<1>5. /\ Paired(both) /\ Len(coming) \in Nat /\ both \in Seq(S)
      /\ Len(both) = Len(coming) + Len(first)
  BY <1>1, <1>2, <1>4, PairedParts, ConcatProperties, LenProperties
<1> HIDE DEF both
<1>6. both # <<>>
  <2>1. Len(both) # 0
    <3> DEFINE m == Len(first)
    <3>1. m \in {1, 2} /\ Len(both) = Len(coming) + m
      BY <1>4, <1>5
    <3> HIDE DEF m
    <3> QED BY ONLY <1>5, <3>1
  <2> QED BY <2>1
<1>7. CASE l = 1
  <2>1. left = <<>> /\ first = EmptyLine(id)
    BY <1>1, <1>2, <1>7, EmptySeq
  <2>2. Len(first) = 1 /\ first[1].sym = "nl"
    BY <2>1, ShapeOfRow
  <2>3. Closed(both) /\ (coming # <<>> => EndOfText(both) # 0)
    BY <1>1, <1>2, <2>2, PairedLine DEF both
  <2>4. f = "midnet" => coming # <<>> /\ Len(both) + 0 <= BufferLength
    BY <1>2, <1>5, <1>7, <2>2, BoundAssumption
  <2>5. f # "http" => EndOfText(both) # 0
    BY <2>3, <2>4 DEF FrontEnd
  <2> QED BY <1>5, <1>6, <2>1, <2>3, <2>4, <2>5 DEF Ending, Size, both, first, left
<1>8. CASE l # 1
  <2>1. /\ l - 1 \in 1..(l - 1) /\ l - 1 \in Nat /\ (l - 1) + 1 = l /\ Len(left) = l - 1
        /\ Len(left) # 0
    BY <1>1, <1>8
  <2>2. left # <<>> /\ left[Len(left)] = EmptyLine(id)
    <3>1. left[l - 1] = owed[l]
      BY <1>1, <2>1
    <3>2. left # <<>>
      BY <2>1
    <3> QED BY <1>2, <2>1, <3>1, <3>2
  <2>3. f = "midnet" => Len(both) + (2 * Len(left) - 1) <= BufferLength
    <3> DEFINE m == Len(first)
               k == Len(left)
               c == Len(coming)
               b == Len(both)
    <3>1. /\ m \in {1, 2} /\ b = c + m /\ k = l - 1 /\ c \in Nat /\ l \in Nat
          /\ BufferLength \in Nat
      BY <1>1, <1>4, <1>5, BoundAssumption
    <3> HIDE DEF m, l, k, c, b
    <3>2. f = "midnet" => c + (2 * l - 1) <= BufferLength
      BY <1>2 DEF c
    <3>3. c + (2 * l - 1) <= BufferLength => b + (2 * k - 1) <= BufferLength
      BY ONLY <3>1
    <3> QED BY <3>2, <3>3 DEF k, b
  <2> QED BY <1>5, <1>6, <2>2, <2>3 DEF Ending, Size, both, first, left
<1> QED BY <1>7, <1>8

\* A turn that ends neither at an empty line nor at a mark leaves both to come.
LEMMA ClosedEnd ==
    ASSUME NEW S, NEW text \in Seq(S), NEW rest \in Seq(S), NEW head \in Seq(S), NEW left \in Seq(S),
           text \o rest = head \o left, Len(head) <= Len(text),
           FirstNewline(text) # 1, EndOfText(text) = 0, Closed(text \o rest)
    PROVE  Closed(left)
<1> DEFINE s == text \o rest
           n == Len(head)
           m == Len(text)
<1>1. /\ m \in Nat /\ Len(rest) \in Nat /\ Len(s) = m + Len(rest)
      /\ \A i \in 1..m : i \in 1..(m + Len(rest)) /\ s[i] = text[i]
  <2>1. m \in Nat /\ Len(rest) \in Nat /\ Len(s) = m + Len(rest)
    BY ConcatProperties, LenProperties
  <2>2. \A i \in 1..(m + Len(rest)) : s[i] = IF i <= m THEN text[i] ELSE rest[i - m]
    BY ConcatProperties
  <2> HIDE DEF s, m
  <2> QED BY <2>1, <2>2
<1>2. /\ n \in Nat /\ Len(left) \in Nat /\ Len(s) = n + Len(left) /\ n <= m
      /\ \A i \in 1..Len(left) : s[n + i] = left[i]
  <2> DEFINE t == head \o left
  <2>1. n \in Nat /\ Len(left) \in Nat /\ Len(t) = n + Len(left) /\ n <= m /\ s = t
    BY ConcatProperties, LenProperties
  <2>2. \A i \in 1..(n + Len(left)) : t[i] = IF i <= n THEN head[i] ELSE left[i - n]
    BY ConcatProperties
  <2> HIDE DEF t, s, n, m
  <2>3. \A i \in 1..Len(left) : n + i \in 1..(n + Len(left)) /\ ~(n + i <= n) /\ (n + i) - n = i
    BY <2>1
  <2> QED BY <2>1, <2>2, <2>3
<1>3. PICK i \in 1..Len(s) : s[i].sym = "nl" /\ (i = 1 \/ s[i - 1].sym = "nl")
  BY DEF Closed, Blank
<1> HIDE DEF s, n, m
<1>4. ~(i <= m)
  <2> SUFFICES ASSUME i <= m
               PROVE  FALSE
    OBVIOUS
  <2>1. i \in 1..m /\ s[i] = text[i] /\ m \in Nat
    BY <1>1
  <2>2. i # 1
    <3> SUFFICES ASSUME i = 1
                 PROVE  FALSE
      OBVIOUS
    <3>1. 1 \in 1..Len(text) /\ text[1].sym = "nl"
      BY <1>3, <2>1 DEF m
    <3>2. FirstNewline(text) # 0 /\ FirstNewline(text) <= 1
      BY <3>1, FirstNewlineIsFirst
    <3>3. FirstNewline(text) \in 1..Len(text)
      BY <3>2, FirstNewlineIsFirst
    <3> QED BY <3>2, <3>3
  <2> DEFINE k == i - 1
  <2>3. k \in 1..(m - 1) /\ k \in 1..m /\ k + 1 = i
    BY <2>1, <2>2
  <2>4. s[k] = text[k]
    BY <1>1, <2>3
  <2>5. text[k].sym = "nl" /\ text[k + 1].sym = "nl"
    BY <1>3, <2>1, <2>2, <2>3, <2>4
  <2> HIDE DEF k
  <2> QED BY <2>3, <2>5, NoMark DEF m
<1> DEFINE j == i - n
<1>5. j \in 1..Len(left) /\ n + j = i
  BY <1>1, <1>2, <1>4
<1>6. left[j].sym = "nl"
  BY <1>2, <1>3, <1>5
<1>7. j = 1 \/ left[j - 1].sym = "nl"
  <2> SUFFICES ASSUME j # 1
               PROVE  left[j - 1].sym = "nl"
    OBVIOUS
  <2>1. j - 1 \in 1..Len(left) /\ n + (j - 1) = i - 1 /\ i # 1
    BY <1>2, <1>5
  <2>2. s[n + (j - 1)] = left[j - 1]
    BY <1>2, <2>1
  <2> QED BY <1>3, <2>1, <2>2
<1> QED BY <1>5, <1>6, <1>7 DEF Closed, Blank

\* What the HTTP front end keeps for its next read has no line feed.
LEMMA HttpKeepsNoLine ==
    ASSUME NEW S, inbuf["http"] \in Seq(S), toFront["http"] \in Seq(S), page["http"] \in Seq(S),
           EndOfText(HttpText) = 0
    PROVE  \A i \in 1..Len(HttpKept) : HttpKept[i].sym # "nl"
<1> DEFINE text == HttpText
           last == HttpLast
           feeds == {i \in 1..Len(text) : text[i].sym = "nl"}
<1>1. text \in Seq(S) /\ last \in 0..Len(text) /\ Len(text) \in Nat
  BY HttpTextsAre, LenProperties
<1>2. last = IF feeds # {} THEN Max(feeds) ELSE 0
  BY DEF HttpLast, LastNewline, SelectLastInSeq
<1>3. /\ Len(HttpKept) = Len(text) - last
      /\ \A i \in 1..(Len(text) - last) : HttpKept[i] = text[last + i]
  BY <1>1, SplitText DEF HttpKept
<1> HIDE DEF text, last
<1>4. \A i \in 1..Len(text) : text[i].sym = "nl" => i <= last
  <2>1. feeds \subseteq 0..Len(text) /\ \A i \in 1..Len(text) : text[i].sym = "nl" => i \in feeds
    BY <1>1
  <2> HIDE DEF feeds
  <2> QED BY <1>1, <1>2, <2>1, GreatestElement
<1>5. \A i \in 1..(Len(text) - last) : last + i \in 1..Len(text) /\ ~(last + i <= last)
  BY <1>1
<1> QED BY <1>3, <1>4, <1>5

\* And is at most a word.
LEMMA KeptIsShort ==
    ASSUME NEW S, NEW a \in Seq(S), NEW b \in Seq(S), Paired(a \o b),
           \A i \in 1..Len(a) : a[i].sym # "nl"
    PROVE  Len(a) <= 1
<1> SUFFICES ASSUME Len(a) > 1
             PROVE  FALSE
  BY LenProperties
<1> DEFINE s == a \o b
<1>1. /\ Len(a) \in Nat /\ Len(b) \in Nat /\ Len(s) = Len(a) + Len(b)
      /\ \A i \in 1..(Len(a) + Len(b)) : s[i] = IF i <= Len(a) THEN a[i] ELSE b[i - Len(a)]
  BY ConcatProperties, LenProperties
<1>2. \A i \in 1..Len(s) : s[i].sym # "nl" => s[i + 1].sym = "nl"
  BY DEF Paired
<1> HIDE DEF s
<1>3. 1 \in 1..Len(a) /\ 2 \in 1..Len(a) /\ 1 \in 1..Len(s) /\ s[1] = a[1] /\ s[2] = a[2]
  BY <1>1
<1>4. s[1 + 1].sym = "nl"
  BY <1>2, <1>3
<1> QED BY <1>3, <1>4

\* A list of stored words is no longer than there are words.
LEMMA ListsFit ==
    ASSUME NEW list \in Seq(Key), StrictlySorted(list), IsFiniteSet(Key)
    PROVE  Len(list) \in Nat /\ Cardinality(Key) \in Nat /\ Len(list) <= Cardinality(Key)
<1> DEFINE n == Len(list)
<1>1. /\ n \in Nat /\ \A i \in 1..n : list[i] \in Key /\ list[i] \in Nat
      /\ \A i, j \in 1..n : i < j => list[i] < list[j]
  <2>1. n \in Nat /\ \A i \in 1..n : list[i] \in Key
    BY LenProperties, ElementOfSeq
  <2>2. \A k \in Key : k \in Nat
    BY WordAssumption, CutAssumption DEF Key
  <2>3. \A i, j \in 1..n : i < j => list[i] < list[j]
    BY DEF StrictlySorted, IsSorted
  <2> QED BY <2>1, <2>2, <2>3
<1> DEFINE at == [i \in 1..n |-> list[i]]
<1>2. at \in Injection(1..n, Key)
  <2>1. \A i, j \in 1..n : at[i] = at[j] => i = j
    BY <1>1
  <2> QED BY <1>1, <2>1 DEF Injection, IsInjective
<1>3. IsFiniteSet(1..n) /\ Cardinality(1..n) = n
  BY <1>1, FS_Interval
<1> HIDE DEF at, n
<1>4. Cardinality(1..n) <= Cardinality(Key)
  BY <1>2, FS_Injection
<1> QED BY <1>1, <1>3, <1>4, FS_CardinalityType DEF n
-----------------------------------------------------------------------------
(* Errors are earned.                                                      *)

\* Every list of stored words fits MidNet's buffer, and every verdict does.
AnswersFit ==
    /\ IsFiniteSet(Key) /\ BufferLength >= 2 * Cardinality(Key) + 1
    /\ BufferLength >= 3

\* The core ran request i, found no memory and answered nothing (midas.c:93).
StarvedIn(l, i) == \E n \in DOMAIN l : l[n].as = "starved" /\ l[n].text[1].id = i

\* What f keeps of an answer does not hold the end that it looks for.
Kept(f) ==
    IF f = "http" THEN \A i \in 1..Len(inbuf[f]) : inbuf[f][i].sym # "nl"
    ELSE EndOfText(inbuf[f]) = 0

\* The request of f is on its way, its answer is, whole, or there was no memory.
Served(f) ==
    /\ Stream(f) = <<>> /\ Unanswered(f) => StarvedIn(log, cur[f])
    /\ Kept(f)
    /\ reqs[cur[f]].op = "list" =>
          Unanswered(f) \/ Ending(f, Coming(f), Owed(f), cur[f])

ErrorInv ==
    (\A f \in FrontEnd : pc[f] # "down") =>
        /\ \A f \in FrontEnd : pc[f] = "wait" => Served(f)
        /\ \A i \in DOMAIN reqs : told[i].kind \in {"error", "cut"} => StarvedIn(log, i)

\* The stream of a living front end that waits ends when it is executed.
LEMMA StreamStep ==
    ASSUME RequestInv, TypeInv, AskInv, Timely, ReceptionLength >= 5,
           NEW f \in FrontEnd, [Next]_vars, pc'[f] = "wait"
    PROVE  Stream(f)' = Stream(f) \/ (CoreReadAll(f) /\ UNCHANGED frontVars)
<1>1. pc[f] # "down" /\ pc \in [FrontEnd -> Place]
  BY DeadStays DEF RequestInv, RoutingInv, FrontInv
<1>2. CASE CoreStep
  <2>1. UNCHANGED frontVars
    BY <1>2 DEF CoreStep
  <2>2. CASE \E g \in FrontEnd : CoreReadPart(g)
    BY <2>1, <2>2, CoreReadPartKeepsRequests
  <2>3. CASE \E g \in FrontEnd : CoreReadAll(g)
    BY <2>1, <2>3, CoreReadAllKeepsRequests
  <2>4. CASE CoreOverflow \/ (Settled /\ CoreTimeout)
    <3>1. Stream(f) = Held(f) \o Stream(f)' /\ Stream(f)' \in Seq(Token)
      BY <2>1, <2>4, CoreDropsKeepsRequests
    <3>2. Held(f) = <<>>
      BY <1>1, <2>4, DropsAreOfDead
    <3> QED BY <3>1, <3>2, ConcatEmptySeq
  <2>5. CASE CoreWrite
    BY <2>1, <2>5, CoreWriteKeepsRequests
  <2> QED BY <1>2, <2>2, <2>3, <2>4, <2>5 DEF CoreStep
<1>3. ASSUME NEW g \in FrontEnd, FrontStep(g)
      PROVE  Stream(f)' = Stream(f)
  <2>1. g = f => ~ClearDone(f)
    <3>1. ClearDone(f) => pc'[f] # "wait"
      BY <1>1 DEF ClearDone, Finish
    <3> QED BY <3>1
  <2> QED BY <1>3, <2>1, FrontStepIsLocal
<1>4. ASSUME NEW g \in FrontEnd, Request(g)
      PROVE  Stream(f)' = Stream(f)
  BY <1>4, RequestKeepsRequests
<1>5. ASSUME NEW g \in FrontEnd, Die(g)
      PROVE  Stream(f)' = Stream(f)
  <2>1. Crash(g) /\ UNCHANGED coreVars /\ pc' = [pc EXCEPT ![g] = "down"]
    BY <1>5 DEF Die, Crash
  <2>2. g # f
    BY <1>1, <2>1
  <2> QED BY <2>1, <2>2, CrashKeepsRequests
<1>6. CASE UNCHANGED vars
  BY <1>6, SameStream DEF vars, pipes, coreVars, frontVars
<1> QED BY <1>2, <1>3, <1>4, <1>5, <1>6 DEF Next

LEMMA KeptStep ==
    ASSUME RequestInv, TypeInv, AskInv, Timely, NEW f \in FrontEnd, [Next]_vars,
           pc'[f] = "wait", pc[f] = "wait" => Kept(f)
    PROVE  Kept(f)'
<1>1. \/ pc[f] = "send" /\ Unanswered(f)'
      \/ pc[f] = "wait" /\ (IsAnswered(f) \/ Writes(f) \/ Reads(f) \/ Stays(f))
  BY WaitingStep
<1>2. CASE inbuf'[f] = <<>>
  BY <1>2, EmptyTexts DEF Kept
<1>3. CASE pc[f] = "wait" /\ inbuf'[f] = inbuf[f]
  BY <1>3 DEF Kept
<1>4. CASE Reads(f)
  <2>1. CASE f = "http"
    <3>1. inbuf["http"] \in Seq(Token) /\ toFront["http"] \in Seq(Token) /\ page["http"] \in Seq(Token)
      BY <2>1 DEF RequestInv, RoutingInv, FrontInv, PipeInv, TypeInv
    <3>2. EndOfText(HttpText) = 0 /\ inbuf'[f] = HttpKept
      BY <1>4, <2>1 DEF Reads
    <3> QED BY <2>1, <3>1, <3>2, HttpKeepsNoLine DEF Kept
  <2>2. CASE f = "midnet"
    BY <1>4, <2>2 DEF Reads, Kept, Whole
  <2> QED BY <1>4, <2>1, <2>2 DEF Reads
<1> QED BY <1>1, <1>2, <1>3, <1>4 DEF Unanswered, IsAnswered, Writes, Stays

\* The answer to a list comes whole.
LEMMA EndingStep ==
    ASSUME RequestInv, TypeInv, AskInv, OwnInv, SortedInv, TruthInv, Timely, AnswersFit,
           NEW f \in FrontEnd, [Next]_vars, pc'[f] = "wait", reqs[cur[f]].op = "list",
           pc[f] = "wait" => Unanswered(f) \/ Ending(f, Coming(f), Owed(f), cur[f])
    PROVE  \/ Unanswered(f)' /\ (pc[f] = "wait" => Unanswered(f))
           \/ Ending(f, Coming(f)', Owed(f)', cur[f])
<1> DEFINE id == cur[f]
           S == OfRequest(id)
<1>1. /\ id \in DOMAIN reqs /\ reqs[id] \in RequestRecord /\ reqs[id].op # "local"
      /\ \/ pc[f] = "send" /\ Unanswered(f)'
         \/ pc[f] = "wait" /\ (IsAnswered(f) \/ Writes(f) \/ Reads(f) \/ Stays(f))
  BY WaitingStep
<1>2. pc[f] = "wait" =>
        /\ inbuf[f] \in Seq(S) /\ toFront[f] \in Seq(S) /\ page[f] \in Seq(S)
        /\ Owed(f) \in Seq(Seq(S)) /\ Enumerating(f)
  BY DEF OwnInv, Hearing, TruthInv
<1>3. CASE pc[f] = "wait" /\ IsAnswered(f)
  <2>1. /\ inbuf'[f] = <<>> /\ toFront'[f] = <<>>
        /\ Owed(f)' = pending' /\ Execute(f, AskedText(reqs, id))
    BY <1>3 DEF IsAnswered
  <2>2. pending' = ListPieces(dico, id)
    BY <1>1, <2>1, ExecutedDoes
  <2>3. Coming(f)' = <<>>
    <3>1. inbuf'[f] \o toFront'[f] = <<>>
      <4>1. <<>> \in Seq({})
        OBVIOUS
      <4> QED BY <2>1, <4>1, ConcatEmptySeq
    <3> QED BY <3>1 DEF Coming
  <2> DEFINE n == Len(dico)
             p == ListPieces(dico, id)
  <2>4. dico \in Seq(Key) /\ n \in Nat /\ 2 * n + 1 <= BufferLength /\ BufferLength >= 3
    <3> DEFINE c == Cardinality(Key)
    <3>1. dico \in Seq(Key) /\ n \in Nat /\ c \in Nat /\ n <= c /\ BufferLength >= 2 * c + 1
      BY ListsFit DEF RequestInv, RoutingInv, CoreInv, SortedInv, AnswersFit
    <3> HIDE DEF n, c
    <3>2. 2 * n + 1 <= BufferLength
      BY ONLY <3>1, BoundAssumption
    <3> QED BY <3>1, <3>2 DEF AnswersFit
  <2>5. /\ Len(p) = IF n = 0 THEN 2 ELSE n + 1
        /\ p # <<>> /\ p[Len(p)] = EmptyLine(id)
    BY <2>4, ListPiecesEnd
  <2> HIDE DEF n, p
  <2>6. Len(p) >= 2 /\ 0 + (2 * Len(p) - 1) <= BufferLength
    BY ONLY <2>4, <2>5, BoundAssumption
  <2>7. Ending(f, <<>>, p, id)
    <3>1. Len(<<>>) = 0
      OBVIOUS
    <3> QED BY <2>5, <2>6, <3>1, EmptyIsPaired DEF Ending, Size
  <2> QED BY <2>1, <2>2, <2>3, <2>7 DEF p
<1>4. CASE pc[f] = "wait" /\ Writes(f)
  <2>1. /\ Owed(f) # <<>> /\ toFront'[f] = toFront[f] \o Head(Owed(f))
        /\ Owed(f)' = Tail(Owed(f)) /\ inbuf'[f] = inbuf[f]
    BY <1>4 DEF Writes
  <2>2. Head(Owed(f)) \in Seq(S) /\ Coming(f) \in Seq(S)
    <3> HIDE DEF S
    <3> QED BY <1>2, <1>4, <2>1, HeadTailProperties, ConcatProperties DEF Coming
  <2>3. Coming(f)' = Coming(f) \o Head(Owed(f))
    <3> DEFINE a == inbuf[f]
               b == toFront[f]
               c == Head(Owed(f))
    <3>1. a \in Seq(S) /\ b \in Seq(S) /\ c \in Seq(S)
      BY <1>2, <1>4, <2>2
    <3> HIDE DEF a, b, c, S
    <3>2. (a \o b) \o c = a \o (b \o c)
      BY ONLY <3>1, ConcatAssociative
    <3>3. Coming(f)' = a \o (b \o c) /\ Coming(f) = a \o b
      BY <2>1 DEF Coming, a, b, c
    <3> QED BY <3>2, <3>3 DEF c
  <2>4. RowsThenEnd(Owed(f), id) /\ Ending(f, Coming(f), Owed(f), id)
    BY <1>2, <1>4, <2>1 DEF Enumerating, Listing, Unanswered
  <2>5. Ending(f, Coming(f) \o Head(Owed(f)), Tail(Owed(f)), id)
    <3> HIDE DEF S
    <3> QED BY <1>2, <1>4, <2>1, <2>2, <2>4, EndingWrites
  <2> QED BY <2>1, <2>3, <2>5
<1>5. CASE pc[f] = "wait" /\ Reads(f)
  <2>1. Owed(f)' = Owed(f) /\ toFront[f] # <<>> /\ Ending(f, Coming(f), Owed(f), id)
    BY <1>5 DEF Reads, Unanswered
  <2>2. CASE f = "http"
    <3> DEFINE head == SubSeq(HttpText, 1, HttpLast)
               rest == Rest(toFront["http"], HttpRoom)
               left == HttpKept \o rest
    <3>1. Coming(f)' = left /\ FirstNewline(HttpText) # 1 /\ EndOfText(HttpText) = 0
      BY <1>5, <2>2 DEF Reads, Coming
    <3>2. /\ HttpText \in Seq(S) /\ rest \in Seq(S) /\ head \in Seq(S) /\ left \in Seq(S)
          /\ Coming(f) = HttpText \o rest /\ Coming(f) = head \o left
          /\ Len(head) <= Len(HttpText)
      <4> HIDE DEF S
      <4>1. /\ HttpText \in Seq(S) /\ rest \in Seq(S) /\ head \in Seq(S) /\ left \in Seq(S)
            /\ Coming(f) = HttpText \o rest /\ Coming(f) = head \o left
            /\ HttpLast \in 0..Len(HttpText)
        BY <1>2, <1>5, <2>2, HttpSplits, HttpTextsAre
      <4>2. Len(head) = HttpLast /\ Len(HttpText) \in Nat
        BY <4>1, PrefixProperties, LenProperties
      <4> QED BY <4>1, <4>2
    <3> HIDE DEF head, rest, left
    <3>3. Paired(left)
      <4> HIDE DEF S
      <4> QED BY <2>1, <3>2, PairedEnd DEF Ending
    <3>4. Closed(Coming(f)) => Closed(left)
      <4> DEFINE text == HttpText
      <4>1. /\ text \in Seq(S) /\ text \o rest = head \o left /\ Len(head) <= Len(text)
            /\ FirstNewline(text) # 1 /\ EndOfText(text) = 0 /\ Coming(f) = text \o rest
        BY <3>1, <3>2
      <4> HIDE DEF S, text
      <4> QED BY <3>2, <4>1, ClosedEnd
    <3> QED BY <2>1, <2>2, <3>1, <3>3, <3>4 DEF Ending
  <2>3. CASE f = "midnet"
    <3>1. inbuf'[f] = MidnetText /\ toFront'[f] = Rest(toFront["midnet"], MidnetRoom)
      BY <1>5, <2>3 DEF Reads
    <3>2. Coming(f) = MidnetText \o Rest(toFront["midnet"], MidnetRoom)
      <4> HIDE DEF S
      <4> QED BY <1>2, <1>5, <2>3, MidnetSplits
    <3>3. Coming(f)' = Coming(f)
      BY <3>1, <3>2 DEF Coming
    <3> QED BY <2>1, <3>3
  <2> QED BY <1>5, <2>2, <2>3 DEF Reads
<1>6. CASE pc[f] = "wait" /\ Stays(f)
  <2>1. /\ Coming(f)' = Coming(f) /\ Owed(f)' = Owed(f)
        /\ Unanswered(f) => Unanswered(f)'
    BY <1>6 DEF Stays, Coming, Unanswered
  <2> QED BY <1>6, <2>1
<1> QED BY <1>1, <1>3, <1>4, <1>5, <1>6

LEMMA AppendKeeps ==
    ASSUME NEW S, NEW s \in Seq(S), NEW e
    PROVE  /\ Len(s) + 1 \in DOMAIN Append(s, e) /\ Append(s, e)[Len(s) + 1] = e
           /\ \A n \in DOMAIN s : n \in DOMAIN Append(s, e) /\ Append(s, e)[n] = s[n]
  OBVIOUS

\* Only a put for which there was no memory is executed without an answer.
LEMMA ExecutedAnswers ==
    ASSUME RequestInv, NEW f, NEW id, reqs[id] \in RequestRecord, reqs[id].op # "local",
           Execute(f, AskedText(reqs, id)), pending' = <<>>
    PROVE  StarvedIn(log', id)
<1>1. ListPieces(dico, id) # <<>>
  BY ListPiecesEnd DEF RequestInv, RoutingInv, CoreInv
<1>2. \A ret : AnswerPieces(ret, id) # <<>>
  BY DEF AnswerPieces
<1>3. /\ reqs[id].op = "put"
      /\ log' = Append(log, [from |-> f, text |-> AskedText(reqs, id), as |-> "starved"])
  BY <1>1, <1>2, ExecutedDoes
<1> DEFINE entry == [from |-> f, text |-> AskedText(reqs, id), as |-> "starved"]
           last == Len(log) + 1
<1>4. entry.as = "starved" /\ entry.text[1].id = id
  BY <1>3 DEF AskedText, Mark
<1>5. last \in DOMAIN log' /\ log'[last] = entry
  BY <1>3, AppendKeeps DEF RequestInv, LogInv
<1> HIDE DEF entry, last
<1> QED BY <1>4, <1>5 DEF StarvedIn

\* What the core did stays done.
LEMMA StarvedStays ==
    ASSUME RequestInv, [Next]_vars, NEW i, StarvedIn(log, i)
    PROVE  StarvedIn(log', i)
<1>1. ASSUME NEW f \in FrontEnd, CoreReadAll(f), UNCHANGED frontVars
      PROVE  log' = log \/ \E e : log' = Append(log, e)
  BY <1>1, ExecuteRecords DEF CoreReadAll
<1>2. log' = log \/ \E e : log' = Append(log, e)
  BY <1>1, OtherStepsStoreNothing DEF Request, coreVars
<1>3. ASSUME NEW e, log' = Append(log, e)
      PROVE  StarvedIn(log', i)
  <2>1. \A n \in DOMAIN log : n \in DOMAIN log' /\ log'[n] = log[n]
    BY <1>3, AppendKeeps DEF RequestInv, LogInv
  <2> QED BY <2>1 DEF StarvedIn
<1> QED BY <1>2, <1>3

\* No request of a living front end is lost.
LEMMA NothingIsLost ==
    ASSUME RequestInv, TypeInv, AskInv, OwnInv, SortedInv, TruthInv, Timely,
           ReceptionLength >= 5, AnswersFit, \A g \in FrontEnd : pc[g] # "down",
           NEW f \in FrontEnd, [Next]_vars, pc'[f] = "wait", pc[f] = "wait" => Served(f),
           Stream(f)' = <<>>, Unanswered(f)'
    PROVE  StarvedIn(log', cur[f])
<1> DEFINE id == cur[f]
<1>1. /\ id \in DOMAIN reqs /\ reqs[id] \in RequestRecord /\ reqs[id].op # "local"
      /\ \/ pc[f] = "send"
         \/ pc[f] = "wait" /\ (IsAnswered(f) \/ Writes(f) \/ Reads(f) \/ Stays(f))
  BY WaitingStep
<1>2. reqs[id].op \in {"list", "get", "put"} /\ id \in ReqId
  <2>1. reqs \in Seq(RequestRecord) /\ Len(reqs) <= MaxReq
    BY DEF RequestInv, RoutingInv, HistoryInv
  <2>2. id \in ReqId
    BY <1>1, <2>1, LenProperties, BoundAssumption DEF ReqId
  <2> QED BY <1>1, <2>2 DEF RequestRecord
<1>3. CASE CoreReadAll(f) /\ UNCHANGED frontVars
  <2>1. Execute(f, AskedText(reqs, id))
    BY <1>3, ExecutedIsAsked
  <2>2. Owed(f)' = pending'
    BY <1>3 DEF CoreReadAll, TakeFrom, Owed
  <2>3. pending' = <<>>
    BY <2>2 DEF Unanswered
  <2> QED BY <1>1, <2>1, <2>3, ExecutedAnswers
<1>4. CASE Stream(f) = <<>>
  <2>1. CASE pc[f] = "send"
    <3>1. ~Stranded(f)
      BY DEF Stranded
    <3>2. TextOf(reqs, id) = <<>>
      BY <1>4, <2>1, <3>1 DEF AskInv, Asking
    <3>3. reqs \in Seq(RequestRecord) /\ Len(reqs) <= MaxReq
      BY DEF RequestInv, RoutingInv, HistoryInv
    <3>4. Len(TextOf(reqs, id)) >= 3
      <4> DEFINE r == reqs
                 n == id
      <4>1. /\ r \in Seq(RequestRecord) /\ Len(r) <= MaxReq /\ n \in DOMAIN r
            /\ r[n].op # "local"
        BY <1>1, <3>3
      <4> HIDE DEF r, n
      <4>2. Len(TextOf(r, n)) >= 3
        BY ONLY <4>1, TextIsLong
      <4> QED BY <4>2 DEF r, n
    <3> QED BY <3>2, <3>4
  <2>2. CASE pc[f] = "wait" /\ Unanswered(f)
    BY <1>4, <2>2, StarvedStays DEF Served
  <2>3. CASE pc[f] = "wait" /\ ~Unanswered(f)
    <3>1. CASE reqs[id].op = "list"
      <4>1. Ending(f, Coming(f)', Owed(f)', id)
        BY <2>3, <3>1, EndingStep DEF Served
      <4>2. Owed(f)' = <<>> /\ inbuf'[f] = <<>> /\ toFront'[f] = <<>>
        BY DEF Unanswered
      <4>3. Coming(f)' = <<>>
        <5>1. inbuf'[f] \o toFront'[f] = <<>>
          <6>1. <<>> \in Seq({})
            OBVIOUS
          <6> QED BY <4>2, <6>1, ConcatEmptySeq
        <5> QED BY <5>1 DEF Coming
      <4> QED BY <4>1, <4>2, <4>3, EmptyIsTidy, EmptyTexts DEF Ending
    <3>2. CASE reqs[id].op # "list"
      <4>1. Judging(f)
        BY <2>3, <3>2 DEF TruthInv
      <4>2. ~Reads(f)
        BY <1>2, <4>1, VerdictsAreReadWhole
      <4>3. ~Writes(f)
        <5> SUFFICES ASSUME Writes(f)
                     PROVE  FALSE
          OBVIOUS
        <5>1. PICK sym \in {"zero", "one"} : toFront[f] = <<>> /\ Owed(f) = <<Verdict(sym, id)>>
          BY <4>1 DEF Judging, Writes
        <5> DEFINE v == Verdict(sym, id)
        <5>2. v \in Seq(Token) /\ v # <<>>
          BY <1>2, VerdictText
        <5> HIDE DEF v
        <5>3. Head(<<v>>) = v /\ <<>> \o v = v
          BY <5>2, ConcatEmptySeq
        <5>4. toFront'[f] = v
          BY <5>1, <5>3 DEF Writes, v
        <5> QED BY <5>2, <5>4 DEF Unanswered
      <4>4. ~IsAnswered(f) /\ ~Stays(f)
        BY <2>3 DEF IsAnswered, Stays, Unanswered
      <4> QED BY <1>1, <2>3, <4>2, <4>3, <4>4
    <3> QED BY <3>1, <3>2
  <2> QED BY <1>1, <2>1, <2>2, <2>3
<1> QED BY <1>3, <1>4, StreamStep

\* The ways in which a client that waits is sent away.
Fails(f) ==
    /\ pc[f] = "wait"
    /\ \/ Settled /\ toFront[f] = <<>>
       \/ /\ f = "http" /\ toFront[f] # <<>>
          /\ HttpRoom <= 0 \/ Miscounted(HttpOp, HttpText)
       \/ f = "midnet" /\ toFront[f] # <<>> /\ ~Whole(MidnetText) /\ Full(MidnetText)

LEMMA ErrorStep ==
    ASSUME RequestInv, TypeInv, Timely, [Next]_vars,
           NEW i \in ReqId, told'[i].kind \in {"error", "cut"}
    PROVE  \/ told'[i] = told[i]
           \/ \E f \in FrontEnd : cur[f] = i /\ Fails(f)
<1>1. told \in [ReqId -> [kind : Outcome, body : Seq(Token)]]
  BY DEF TypeInv
<1>2. CASE told' = told
  BY <1>2
<1>3. ASSUME NEW f \in FrontEnd, FrontStep(f)
      PROVE  \/ told'[i] = told[i]
             \/ cur[f] = i /\ Fails(f)
  <2>1. ASSUME NEW kind, NEW body, Finish(f, kind, body)
        PROVE  \/ told'[i] = told[i]
               \/ cur[f] = i /\ kind \in {"error", "cut"}
    <3>1. told' = [told EXCEPT ![cur[f]] = [kind |-> kind, body |-> body]]
      BY <2>1, FinishEnds
    <3> QED BY <1>1, <3>1
  <2>2. CASE ClearRead(f) \/ Send(f)
    BY <1>2, <2>2 DEF ClearRead, Send, frontVars
  <2>3. CASE ClearDone(f)
    BY <1>2, <2>1, <2>3 DEF ClearDone
  <2>4. CASE GiveUp(f)
    <3>1. pc[f] = "wait" /\ toFront[f] = <<>> /\ Finish(f, "error", <<>>)
      BY <2>4 DEF GiveUp
    <3>2. Settled
      BY <1>3, <2>4, DelaysAreLong
    <3> QED BY <2>1, <3>1, <3>2 DEF Fails
  <2>5. CASE f = "http" /\ HttpRead
    <3>1. CASE (HttpRoom <= 0 \/ Miscounted(HttpOp, HttpText)) /\ Finish("http", "error", <<>>)
      BY <2>1, <2>5, <3>1, HttpReadCases DEF Fails
    <3>2. CASE \E body : Finish("http", "page", body)
      BY <2>1, <2>5, <3>2
    <3> QED BY <1>2, <2>5, <3>1, <3>2, HttpReadCases
  <2>6. CASE f = "midnet" /\ MidnetRead
    <3>1. CASE ~Whole(MidnetText) /\ Full(MidnetText) /\ Finish("midnet", "cut", MidnetText)
      BY <2>1, <2>6, <3>1, MidnetReadCases DEF Fails
    <3>2. CASE Finish("midnet", "page", MidnetText)
      BY <2>1, <2>6, <3>2
    <3> QED BY <1>2, <2>6, <3>1, <3>2, MidnetReadCases
  <2> QED BY <1>3, <2>2, <2>3, <2>4, <2>5, <2>6 DEF FrontStep
<1>4. ASSUME NEW f \in FrontEnd, Request(f) \/ Die(f)
      PROVE  told' = told
  BY <1>4 DEF Request, Begin, Die, Crash
<1>5. CASE CoreStep \/ UNCHANGED vars
  BY <1>2, <1>5 DEF CoreStep, vars, frontVars
<1> QED BY <1>2, <1>3, <1>4, <1>5 DEF Next

\* While both front ends live no failure comes of the request but for a put.
LEMMA FailsForNoMemory ==
    ASSUME RequestInv, AskInv, OwnInv, TruthInv, ReceptionLength >= 5, AnswersFit,
           \A g \in FrontEnd : pc[g] # "down",
           NEW f \in FrontEnd, Served(f), Fails(f)
    PROVE  StarvedIn(log, cur[f])
<1> DEFINE id == cur[f]
           S == OfRequest(id)
<1>1. /\ pc[f] = "wait" /\ id \in DOMAIN reqs /\ id \in ReqId
      /\ reqs[id].op \in {"list", "get", "put"}
  <2>1. reqs \in Seq(RequestRecord) /\ Len(reqs) <= MaxReq /\ pc[f] = "wait" /\ id \in DOMAIN reqs
    BY DEF Fails, RequestInv, RoutingInv, HistoryInv, FrontInv
  <2>2. id \in ReqId /\ reqs[id] \in RequestRecord
    BY <2>1, LenProperties, ElementOfSeq, BoundAssumption DEF ReqId
  <2>3. reqs[id].op # "local"
    BY <2>1 DEF AskInv, Reading
  <2> QED BY <2>1, <2>2, <2>3 DEF RequestRecord
<1>2. inbuf[f] \in Seq(S) /\ toFront[f] \in Seq(S) /\ page[f] \in Seq(S) /\ Kept(f)
  BY <1>1 DEF OwnInv, Hearing, Served
<1>3. reqs[id].op # "list" => Judging(f)
  BY <1>1 DEF TruthInv
<1>4. reqs[id].op = "list" /\ ~Unanswered(f) => Ending(f, Coming(f), Owed(f), id)
  BY DEF Served
<1>5. CASE Settled /\ toFront[f] = <<>>
  <2>1. Owed(f) = <<>>
    BY <1>5 DEF Settled, AtSelect, Owed
  <2>2. Stream(f) = <<>>
    <3>1. ~Stranded(f)
      BY DEF Stranded
    <3>2. Asking(f)
      BY <3>1 DEF AskInv
    <3> QED BY <1>5, <3>1, <3>2, GivesUpOnNothing
  <2>3. CASE Unanswered(f)
    BY <2>2, <2>3 DEF Served
  <2>4. CASE ~Unanswered(f) /\ reqs[id].op = "list"
    <3>1. Coming(f) = inbuf[f]
      <4> HIDE DEF S
      <4> QED BY <1>2, <1>5, ConcatEmptySeq DEF Coming
    <3>2. IF f = "http" THEN Closed(inbuf[f]) ELSE EndOfText(inbuf[f]) # 0
      BY <1>4, <2>1, <2>4, <3>1 DEF Ending
    <3> QED BY <1>2, <3>2 DEF Kept, Closed, Blank
  <2>5. CASE ~Unanswered(f) /\ reqs[id].op # "list"
    <3>1. toFront[f] = <<>> /\ inbuf[f] = <<>> /\ page[f] = <<>>
      BY <1>3, <1>5, <2>5 DEF Judging
    <3> QED BY <2>1, <2>5, <3>1 DEF Unanswered
  <2> QED BY <2>3, <2>4, <2>5
<1>6. CASE f = "http" /\ toFront[f] # <<>> /\ (HttpRoom <= 0 \/ Miscounted(HttpOp, HttpText))
  <2>1. Len(inbuf[f]) <= 1
    <3>1. CASE reqs[id].op = "list"
      <4>1. Paired(inbuf[f] \o toFront[f])
        BY <1>4, <1>6, <3>1 DEF Unanswered, Ending, Coming
      <4>2. \A i \in 1..Len(inbuf[f]) : inbuf[f][i].sym # "nl"
        BY <1>2, <1>6 DEF Kept
      <4> HIDE DEF S
      <4> QED BY <1>2, <4>1, <4>2, KeptIsShort
    <3>2. CASE reqs[id].op # "list"
      <4>1. Len(<<>>) = 0
        OBVIOUS
      <4> QED BY <1>3, <3>2, <4>1 DEF Judging
    <3> QED BY <3>1, <3>2
  <2>2. ~(HttpRoom <= 0)
    BY <1>2, <1>6, <2>1, LenProperties, BoundAssumption DEF HttpRoom
  <2>3. ~Miscounted(HttpOp, HttpText)
    <3>1. HttpOp = reqs[id].op
      BY <1>6 DEF HttpOp
    <3>2. reqs[id].op # "list" => page["http"] = <<>>
      BY <1>3, <1>6 DEF Judging
    <3> QED BY <3>1, <3>2 DEF Miscounted
  <2> QED BY <1>6, <2>2, <2>3
<1>7. CASE f = "midnet" /\ toFront[f] # <<>> /\ ~Whole(MidnetText) /\ Full(MidnetText)
  <2>1. CASE reqs[id].op = "list"
    <3> DEFINE rest == Rest(toFront["midnet"], MidnetRoom)
               text == MidnetText
    <3>1. /\ Coming(f) = text \o rest /\ text \in Seq(S) /\ rest \in Seq(S)
          /\ Owed(f) \in Seq(Seq(S))
      <4>1. Owed(f) \in Seq(Seq(S))
        BY <1>1 DEF OwnInv, Hearing
      <4> HIDE DEF S
      <4> QED BY <1>2, <1>7, <4>1, MidnetSplits
    <3>2. /\ Len(Coming(f)) + Size(Owed(f)) <= BufferLength
          /\ Owed(f) = <<>> => EndOfText(Coming(f)) # 0
      BY <1>4, <1>7, <2>1 DEF Unanswered, Ending
    <3>3. Len(text) = BufferLength /\ EndOfText(text) = 0
      BY <1>7 DEF Full, Whole
    <3> HIDE DEF rest, text, S
    <3>4. Len(Coming(f)) = Len(text) + Len(rest) /\ Len(rest) \in Nat /\ Len(text) \in Nat
      BY <3>1, ConcatProperties, LenProperties
    <3>5. Size(Owed(f)) \in Nat /\ (Owed(f) # <<>> => Size(Owed(f)) >= 1)
      <4>1. Len(Owed(f)) \in Nat /\ (Owed(f) # <<>> => Len(Owed(f)) # 0)
        BY <3>1, LenProperties, EmptySeq
      <4> QED BY <4>1 DEF Size
    <3>6. Owed(f) = <<>> /\ Len(rest) = 0
      BY <3>2, <3>3, <3>4, <3>5, BoundAssumption
    <3>7. rest = <<>>
      BY <3>1, <3>6, EmptySeq
    <3>8. Coming(f) = text
      BY <3>1, <3>7, ConcatEmptySeq
    <3> QED BY <3>2, <3>3, <3>6, <3>8
  <2>2. CASE reqs[id].op # "list"
    <3>1. PICK sym \in {"zero", "one"} : toFront[f] = Verdict(sym, id) /\ inbuf[f] = <<>>
      BY <1>3, <1>7, <2>2 DEF Judging
    <3>2. Whole(MidnetText)
      BY <1>1, <1>7, <3>1, MidnetVerdict DEF AnswersFit
    <3> QED BY <1>7, <3>2
  <2> QED BY <2>1, <2>2
<1> QED BY <1>5, <1>6, <1>7 DEF Fails

LEMMA ErrorNext ==
    ASSUME RequestInv, TypeInv, AskInv, OwnInv, SortedInv, TruthInv, ErrorInv, Timely,
           ReceptionLength >= 5, AnswersFit, [Next]_vars
    PROVE  ErrorInv'
<1> SUFFICES ASSUME \A f \in FrontEnd : pc'[f] # "down"
             PROVE  /\ \A f \in FrontEnd : pc'[f] = "wait" => Served(f)'
                    /\ \A i \in DOMAIN reqs' : told'[i].kind \in {"error", "cut"} => StarvedIn(log', i)
  BY DEF ErrorInv
<1>1. /\ \A f \in FrontEnd : pc[f] # "down" /\ (pc[f] = "wait" => Served(f))
      /\ \A i \in DOMAIN reqs : told[i].kind \in {"error", "cut"} => StarvedIn(log, i)
  BY DeadStays DEF ErrorInv
<1>2. \A i \in DOMAIN reqs : i \in DOMAIN reqs' /\ reqs'[i] = reqs[i]
  BY ReqsGrow
<1>3. \A i \in DOMAIN reqs : StarvedIn(log, i) => StarvedIn(log', i)
  BY StarvedStays
<1>4. ASSUME NEW f \in FrontEnd, pc'[f] = "wait"
      PROVE  Served(f)'
  <2>1. cur'[f] = cur[f] /\ cur[f] \in DOMAIN reqs /\ reqs'[cur[f]] = reqs[cur[f]]
    BY <1>4, WaitingStep
  <2>2. Kept(f)'
    BY <1>1, <1>4, KeptStep DEF Served
  <2>3. reqs[cur[f]].op = "list" => Unanswered(f)' \/ Ending(f, Coming(f)', Owed(f)', cur[f])
    BY <1>1, <1>4, <2>1, EndingStep DEF Served
  <2>4. Stream(f)' = <<>> /\ Unanswered(f)' => StarvedIn(log', cur[f])
    BY <1>1, <1>4, NothingIsLost
  <2>5. Stream(f)' = <<>> /\ Unanswered(f)' => StarvedIn(log', cur'[f])
    BY <2>1, <2>4
  <2>6. reqs'[cur'[f]].op = "list" => Unanswered(f)' \/ Ending(f, Coming(f)', Owed(f)', cur'[f])
    BY <2>1, <2>3
  <2> QED BY <2>2, <2>5, <2>6 DEF Served
<1>5. ASSUME NEW i \in DOMAIN reqs', told'[i].kind \in {"error", "cut"}
      PROVE  StarvedIn(log', i)
  <2>1. i \in ReqId
    <3>1. RequestInv'
      BY RequestNext
    <3>2. reqs' \in Seq(RequestRecord) /\ Len(reqs') <= MaxReq
      BY <3>1 DEF RequestInv, RoutingInv, HistoryInv, RequestRecord
    <3> QED BY <1>5, <3>2, LenProperties, BoundAssumption DEF ReqId
  <2>2. CASE told'[i] = told[i]
    <3>1. i \in DOMAIN reqs
      BY <1>5, <2>1, <2>2 DEF OwnInv
    <3> QED BY <1>1, <1>3, <1>5, <2>2, <3>1
  <2>3. ASSUME NEW f \in FrontEnd, cur[f] = i, Fails(f)
        PROVE  StarvedIn(log', i)
    <3>1. pc[f] = "wait" /\ i \in DOMAIN reqs
      BY <2>3 DEF Fails, RequestInv, RoutingInv, FrontInv
    <3>2. StarvedIn(log, i)
      BY <1>1, <2>3, <3>1, FailsForNoMemory
    <3> QED BY <1>3, <3>1, <3>2
  <2> QED BY <1>5, <2>1, <2>2, <2>3, ErrorStep
<1> QED BY <1>4, <1>5

\* With timely processes, while both front ends live and every answer fits the
\* buffers, a client is sent away without its answer only if its put found no
\* memory: no request is lost between the processes, none is taken for two, no
\* answer stops short of its end, and none is read past a buffer
\* (MIDAS_http_server.c:358-466, midnet.c:107-138, midas.c:440-494).
THEOREM NobodyIsSentAway ==
    ASSUME Timely, ReceptionLength >= 5, AnswersFit
    PROVE  Spec => []ErrorsAreEarned
<1>1. Init => ErrorInv
  BY DEF Init, FrontInit, ErrorInv
<1>2. /\ RequestInv /\ TypeInv /\ AskInv /\ OwnInv /\ SortedInv /\ TruthInv /\ ErrorInv
      /\ [Next]_vars
      => ErrorInv'
  BY ErrorNext
<1>3. ErrorInv => ErrorsAreEarned
  BY DEF ErrorInv, ErrorsAreEarned, Starved, StarvedIn
<1> QED
  BY <1>1, <1>2, <1>3, RequestHolds, TypeHolds, AskHolds, OwnHolds, SortedHolds, TruthHolds, PTL
  DEF Spec
=============================================================================
