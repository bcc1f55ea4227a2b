------------------------ MODULE PlainTransport_proofs -------------------------
(***************************************************************************)
(* Proofs about PlainTransport for all data lengths and all ways of cutting *)
(* responses.                                                              *)
(***************************************************************************)
EXTENDS PlainTransport, SequenceTheorems, TLAPS

USE LengthsAssumption, SegmentsAssumption, CallsAssumption, FaultsAssumption

-----------------------------------------------------------------------------
(* The inductive invariant *)

Sending == toCard.kind = "command"

\* What is in the air at each place of transmit: one APDU at most.
AirInv ==
    /\ pc \in {"idle", "send"} => toCard = NoCommand /\ toHost = NoReply
    /\ toCard # NoCommand => toHost = NoReply
    /\ toHost = NoReply /\ pc \in {"chunk", "answer"} => toCard # NoCommand
    /\ pc = "chunk" => toCard.kind # "getResponse"
    /\ Sending => (toCard.last <=> pc = "answer")

\* How much of the data is in the air, and how much is left.
LoopInv ==
    /\ remaining <= length
    /\ length > 0 => remaining > 0
    /\ pc = "answer" => remaining < 256
    /\ pc # "idle" => outcome = "none"
    /\ pc = "chunk" /\ Sending => /\ toCard.to = length - remaining
                                  /\ toCard.from = toCard.to - 255
    /\ pc = "answer" /\ Sending => /\ toCard.to = length
                                   /\ toCard.from = length - remaining
    /\ Sending => toCard.lc = toCard.to - toCard.from

\* What the card has collected is what the loop has sent, if chains cannot break.
ChainInv ==
    Faults = {} =>
        /\ pc = "idle" => buffer = 0
        /\ pc = "send" => buffer = length - remaining
        /\ Sending => buffer = toCard.from
        /\ pc = "chunk" /\ toHost \in Piece => buffer = length - remaining
        /\ pc = "chunk" => toHost # StatusError
        /\ toHost = Exception => buffer = 0
        /\ pc = "answer" /\ ~Sending => buffer = 0

\* The card has just carried out the open call.
Ran == executed # <<>> /\ executed[Len(executed)].req = req

\* Where in the response the reader and the card are.
AnswerInv ==
    /\ pc \in {"send", "chunk"} \/ Sending => parts = 0
    /\ pc = "answer" /\ toHost \in Piece =>
           /\ Ran /\ toHost.req = req /\ toHost.part = parts + 1 /\ parts + 1 <= cut
           /\ toHost.sw = "9000" => parts + 1 = cut
           /\ toHost.sw = "61xx" =>
                  parts + 2 <= cut /\ pending = [part |-> parts + 2, of |-> cut, req |-> req]
    /\ toCard = GetResponse =>
           /\ Ran /\ parts + 1 <= cut
           /\ pending = [part |-> parts + 1, of |-> cut, req |-> req]
    /\ pc = "answer" => parts \in 0 .. MaxSegments
    /\ WholeAnswers

\* The card carries out calls in order, the open one only after it was sent.
OrderInv ==
    /\ \A i \in DOMAIN executed : executed[i].req <= req
    /\ pc \in {"send", "chunk"} \/ Sending => \A i \in DOMAIN executed : executed[i].req < req
    /\ AtMostOnce
    /\ Faults = {} => WholeCommands

FaultInv ==
    /\ toHost \in {StatusError, Exception} => faulted
    /\ UndisturbedReturns

IInv == TypeOK /\ AirInv /\ LoopInv /\ ChainInv /\ AnswerInv /\ OrderInv /\ FaultInv

-----------------------------------------------------------------------------
(* Facts about the parts of the state *)

LEMMA Numbers ==
  ASSUME TypeOK
  PROVE  /\ length \in Nat /\ remaining \in Nat /\ req \in Nat /\ cut \in 0 .. MaxSegments
         /\ Len(executed) \in Nat /\ DOMAIN executed = 1 .. Len(executed)
         /\ \A i \in DOMAIN executed : executed[i].req \in Nat /\ executed[i].bytes \in Int
<1>1. length \in Nat /\ remaining \in Nat /\ req \in Nat /\ cut \in 0 .. MaxSegments
  BY DEF TypeOK
<1>2. executed \in Seq([req : Nat, bytes : Int])
  BY DEF TypeOK
<1>3. /\ Len(executed) \in Nat /\ DOMAIN executed = 1 .. Len(executed)
      /\ executed \in [1 .. Len(executed) -> [req : Nat, bytes : Int]]
  BY <1>2, LenProperties
<1>4. \A i \in 1 .. Len(executed) : executed[i] \in [req : Nat, bytes : Int]
  BY <1>3
<1> QED
  BY <1>1, <1>3, <1>4

\* Which APDU is in the air can be told by its kind, or its status word.
LEMMA Kinds ==
  ASSUME TypeOK
  PROVE  /\ Sending => toCard \in [kind : {"command"}, from : Nat, to : Nat, lc : 0 .. 255,
                                   last : BOOLEAN]
         /\ Sending => toCard # NoCommand /\ toCard # GetResponse
         /\ toCard.kind = "getResponse" <=> toCard = GetResponse
         /\ toCard # NoCommand => Sending \/ toCard = GetResponse
         /\ toHost.sw \in {"9000", "61xx"} <=> toHost \in Piece
         /\ toHost.sw = "error" <=> toHost = StatusError
         /\ toHost.sw = "exception" <=> toHost = Exception
         /\ toHost.sw = "none" <=> toHost = NoReply
         /\ toHost \in Piece => toHost.part \in 1 .. MaxSegments /\ toHost.req \in Nat
BY DEF TypeOK, Sending, NoCommand, GetResponse, Piece, StatusError, Exception, NoReply

LEMMA Distinct ==
  /\ NoCommand # GetResponse /\ NoCommand.kind # "command" /\ GetResponse.kind # "command"
  /\ NoCommand.kind # "getResponse"
  /\ NoReply \notin Piece /\ StatusError \notin Piece /\ Exception \notin Piece
  /\ NoReply # StatusError /\ NoReply # Exception /\ StatusError # Exception
  /\ \A a, b, c : Command(a, b, c).kind = "command"
BY DEF NoCommand, GetResponse, Piece, NoReply, StatusError, Exception, Command

LEMMA PieceFacts ==
  ASSUME NEW k \in 1 .. MaxSegments, NEW i \in 1 .. k, NEW r \in Nat
  PROVE  /\ PieceOf(i, k, r) \in Piece
         /\ PieceOf(i, k, r).req = r /\ PieceOf(i, k, r).part = i
         /\ PieceOf(i, k, r).sw = "9000" <=> i = k
         /\ PieceOf(i, k, r).sw = "61xx" <=> i # k
         /\ i = k => Rest(i, k, r) = NoPending
         /\ i # k => Rest(i, k, r) = [part |-> i + 1, of |-> k, req |-> r]
         /\ Rest(i, k, r) \in [part : 1 .. MaxSegments, of : 1 .. MaxSegments, req : Nat]
                                \cup {NoPending}
BY DEF PieceOf, Rest, Piece

\* A C-APDU of up to 255 bytes says with Lc how long it is.
LEMMA CommandFacts ==
  ASSUME NEW from \in Nat, NEW to \in Nat, NEW last \in BOOLEAN,
         from <= to, to <= from + 255
  PROVE  /\ Command(from, to, last) \in [kind : {"command"}, from : Nat, to : Nat,
                                         lc : 0 .. 255, last : BOOLEAN]
         /\ Command(from, to, last).from = from /\ Command(from, to, last).to = to
         /\ Command(from, to, last).lc = to - from
         /\ Command(from, to, last).last = last
<1>1. (to - from) % 256 = to - from
  BY Z3
<1> QED
  BY <1>1 DEF Command

LEMMA AppendFacts ==
  ASSUME NEW S, NEW s \in Seq(S), NEW e \in S
  PROVE  /\ Append(s, e) \in Seq(S)
         /\ Append(s, e) # <<>>
         /\ Len(Append(s, e)) = Len(s) + 1
         /\ DOMAIN Append(s, e) = 1 .. Len(s) + 1
         /\ Append(s, e)[Len(s) + 1] = e
         /\ \A i \in 1 .. Len(s) : Append(s, e)[i] = s[i]
BY AppendProperties, LenProperties

LEMMA InitInv == Init => IInv
<1> SUFFICES ASSUME Init PROVE IInv
  OBVIOUS
<1>1. TypeOK
  <2>1. <<>> \in Seq([req : Nat, bytes : Int])
    BY EmptySeq
  <2>2. 0 \in 0 .. MaxCalls /\ 0 \in 0 .. MaxSegments
    OBVIOUS
  <2> QED
    BY <2>1, <2>2 DEF Init, TypeOK
<1>2. AirInv /\ LoopInv /\ ChainInv /\ FaultInv
  BY Distinct DEF Init, AirInv, LoopInv, ChainInv, FaultInv, Sending, UndisturbedReturns
<1>3. AnswerInv /\ OrderInv
  BY Distinct DEF Init, AnswerInv, OrderInv, WholeAnswers, AtMostOnce, WholeCommands, Sending
<1> QED
  BY <1>1, <1>2, <1>3 DEF IInv

-----------------------------------------------------------------------------
(* The reader's steps *)

LEMMA TransmitInv ==
  ASSUME IInv, NEW n \in DataLengths, Transmit(n)
  PROVE  IInv'
<1> USE DEF card
<1>1. toCard = NoCommand /\ toHost = NoReply /\ ~Sending
  BY Distinct DEF IInv, AirInv, Transmit, Sending
<1>2. TypeOK'
  <2>1. req' \in 0 .. MaxCalls /\ n \in Nat /\ 0 \in 0 .. MaxSegments
    BY DEF IInv, TypeOK, Transmit
  <2> QED
    BY <2>1 DEF IInv, TypeOK, Transmit
<1>3. AirInv' /\ LoopInv' /\ ChainInv' /\ FaultInv'
  BY <1>1, Distinct, Numbers
  DEF IInv, Transmit, AirInv, LoopInv, ChainInv, FaultInv, Sending, UndisturbedReturns
<1>4. AnswerInv'
  BY <1>1, Distinct DEF IInv, Transmit, AnswerInv, WholeAnswers, Sending
<1>5. OrderInv'
  BY <1>1, Numbers DEF IInv, Transmit, OrderInv, AtMostOnce, WholeCommands
<1> QED
  BY <1>2, <1>3, <1>4, <1>5 DEF IInv

\* What a C-APDU leaves of the invariant.
LEMMA SendInv ==
  ASSUME IInv, pc = "send", pc' \in {"chunk", "answer"},
         NEW from \in Nat, NEW to \in Nat, from <= to, to <= from + 255,
         from = length - remaining,
         NEW last \in BOOLEAN, last <=> pc' = "answer", toCard' = Command(from, to, last),
         UNCHANGED <<req, length, parts, outcome, toHost, card, faulted>>
  PROVE  /\ AirInv' /\ AnswerInv' /\ OrderInv' /\ FaultInv'
         /\ toCard' \in [kind : {"command"}, from : Nat, to : Nat, lc : 0 .. 255,
                         last : BOOLEAN]
         /\ toCard'.from = from /\ toCard'.to = to /\ toCard'.lc = to - from
         /\ Sending' /\ toHost' = NoReply
         /\ Faults = {} => buffer' = toCard'.from
<1>1. /\ toCard' \in [kind : {"command"}, from : Nat, to : Nat, lc : 0 .. 255, last : BOOLEAN]
      /\ toCard'.from = from /\ toCard'.to = to /\ toCard'.lc = to - from
      /\ toCard'.last <=> pc' = "answer"
  BY CommandFacts
<1>2. Sending' /\ toCard' # NoCommand /\ toCard' # GetResponse /\ toCard'.kind # "getResponse"
  BY <1>1, Distinct DEF Sending
<1>3. toHost' = NoReply /\ toHost' \notin Piece
  BY Distinct DEF IInv, AirInv
<1>4. AirInv'
  BY <1>1, <1>2, <1>3 DEF AirInv
<1>5. AnswerInv'
  BY <1>2, <1>3 DEF IInv, AnswerInv, WholeAnswers, Ran, LoopInv, card
<1>6. OrderInv'
  BY DEF IInv, OrderInv, AtMostOnce, WholeCommands, card
<1>7. FaultInv'
  BY DEF IInv, FaultInv, UndisturbedReturns
<1>8. Faults = {} => buffer' = toCard'.from
  BY <1>1 DEF IInv, ChainInv, card
<1> QED
  BY <1>1, <1>2, <1>3, <1>4, <1>5, <1>6, <1>7, <1>8

LEMMA SendChunkInv == IInv /\ SendChunk => IInv'
<1> SUFFICES ASSUME IInv, SendChunk PROVE IInv'
  OBVIOUS
<1> DEFINE from == length - remaining
           to == length - remaining + 255
<1>1. /\ from \in Nat /\ to \in Nat /\ from <= to /\ to <= from + 255
      /\ remaining' = remaining - 255 /\ remaining' \in Nat /\ to = length - remaining'
      /\ remaining' <= length /\ remaining' > 0
  BY Numbers DEF IInv, LoopInv, SendChunk
<1>2. /\ AirInv' /\ AnswerInv' /\ OrderInv' /\ FaultInv'
      /\ toCard' \in [kind : {"command"}, from : Nat, to : Nat, lc : 0 .. 255, last : BOOLEAN]
      /\ toCard'.from = from /\ toCard'.to = to /\ toCard'.lc = to - from
      /\ Sending' /\ toHost' = NoReply
      /\ Faults = {} => buffer' = toCard'.from
  <2>1. toCard' = Command(from, to, FALSE) /\ pc = "send" /\ pc' = "chunk"
    BY DEF SendChunk
  <2>2. UNCHANGED <<req, length, parts, outcome, toHost, card, faulted>>
    BY DEF SendChunk
  <2>3. (FALSE <=> pc' = "answer") /\ pc' \in {"chunk", "answer"}
    BY <2>1
  <2>4. from = length - remaining /\ from \in Nat /\ to \in Nat /\ from <= to /\ to <= from + 255
    BY <1>1
  <2> HIDE DEF from, to
  <2> QED
    BY <2>1, <2>2, <2>3, <2>4, SendInv
<1>3. pc' = "chunk" /\ length' = length /\ outcome' = outcome /\ outcome = "none"
  BY DEF SendChunk, IInv, LoopInv
<1>4. TypeOK'
  BY <1>1, <1>2 DEF IInv, TypeOK, SendChunk, card
<1>5. LoopInv'
  BY <1>1, <1>2, <1>3, Numbers DEF LoopInv, IInv
<1>6. ChainInv'
  BY <1>2, <1>3, Distinct DEF ChainInv
<1> QED
  BY <1>2, <1>4, <1>5, <1>6 DEF IInv

LEMMA SendLastInv == IInv /\ SendLast => IInv'
<1> SUFFICES ASSUME IInv, SendLast PROVE IInv'
  OBVIOUS
<1> DEFINE from == length - remaining
<1>1. from \in Nat /\ length \in Nat /\ from <= length /\ length <= from + 255
  BY Numbers DEF IInv, LoopInv, SendLast
<1>2. /\ AirInv' /\ AnswerInv' /\ OrderInv' /\ FaultInv'
      /\ toCard' \in [kind : {"command"}, from : Nat, to : Nat, lc : 0 .. 255, last : BOOLEAN]
      /\ toCard'.from = from /\ toCard'.to = length /\ toCard'.lc = length - from
      /\ Sending' /\ toHost' = NoReply
      /\ Faults = {} => buffer' = toCard'.from
  <2>1. toCard' = Command(from, length, TRUE) /\ pc = "send" /\ pc' = "answer"
    BY DEF SendLast
  <2>2. UNCHANGED <<req, length, parts, outcome, toHost, card, faulted>>
    BY DEF SendLast
  <2> HIDE DEF from
  <2> QED
    BY <1>1, <2>1, <2>2, SendInv DEF from
<1>3. /\ pc' = "answer" /\ length' = length /\ outcome' = outcome /\ outcome = "none"
      /\ remaining' = remaining /\ remaining < 256 /\ remaining <= length
  BY DEF SendLast, IInv, LoopInv
<1>4. TypeOK'
  BY <1>2 DEF IInv, TypeOK, SendLast, card
<1>5. LoopInv'
  BY <1>1, <1>2, <1>3, Numbers DEF LoopInv, IInv
<1>6. ChainInv'
  BY <1>2, <1>3, Distinct DEF ChainInv
<1> QED
  BY <1>2, <1>4, <1>5, <1>6 DEF IInv

LEMMA ChunkAnsweredInv == IInv /\ ChunkAnswered => IInv'
<1> SUFFICES ASSUME IInv, ChunkAnswered PROVE IInv'
  OBVIOUS
<1> USE DEF card
<1>1. toCard = NoCommand /\ ~Sending /\ ~Sending' /\ toCard' = NoCommand
  BY Distinct DEF IInv, AirInv, ChunkAnswered, Sending
<1>2. TypeOK'
  BY DEF IInv, TypeOK, ChunkAnswered
<1>3. AirInv' /\ LoopInv' /\ FaultInv'
  BY <1>1, Distinct DEF IInv, ChunkAnswered, AirInv, LoopInv, FaultInv, UndisturbedReturns
<1>4. ChainInv'
  BY <1>1, Distinct DEF IInv, ChunkAnswered, ChainInv
<1>5. AnswerInv' /\ OrderInv'
  BY <1>1, Distinct DEF IInv, ChunkAnswered, AnswerInv, OrderInv, WholeAnswers, Ran,
                        AtMostOnce, WholeCommands
<1> QED
  BY <1>2, <1>3, <1>4, <1>5 DEF IInv

\* A call that ends when the APDU has come back keeps the invariant, if the data it
\* returns are the whole answer to this call.
LEMMA EndInv ==
  ASSUME IInv, NEW how \in {"data", "status", "exception"}, End(how),
         toHost # NoReply, Faults = {} => buffer = 0,
         parts' \in 0 .. MaxSegments \cup {Garbled},
         how = "data" => Ran /\ parts' = cut,
         how # "data" => faulted
  PROVE  IInv'
<1> USE DEF card
<1>1. toCard = NoCommand /\ ~Sending /\ ~Sending' /\ toCard' = NoCommand
  BY Distinct DEF IInv, AirInv, End, Sending
<1>2. TypeOK'
  BY DEF IInv, TypeOK, End
<1>3. AirInv' /\ LoopInv' /\ ChainInv' /\ FaultInv'
  BY <1>1, Distinct
  DEF IInv, End, AirInv, LoopInv, ChainInv, FaultInv, UndisturbedReturns
<1>4. AnswerInv' /\ OrderInv'
  BY <1>1, Distinct DEF IInv, End, AnswerInv, OrderInv, WholeAnswers, Ran,
                        AtMostOnce, WholeCommands
<1> QED
  BY <1>2, <1>3, <1>4 DEF IInv

\* The piece that has come is the next one.
LEMMA NextPiece ==
  ASSUME IInv, pc = "answer", toHost \in Piece
  PROVE  /\ PartsAnd(toHost) = parts + 1
         /\ parts \in Nat /\ parts + 1 \in 1 .. MaxSegments
         /\ Ran /\ ~Sending /\ (Faults = {} => buffer = 0) /\ toHost # NoReply
<1>1. /\ Ran /\ toHost.req = req /\ toHost.part = parts + 1 /\ parts + 1 <= cut
      /\ parts \in 0 .. MaxSegments
  BY DEF IInv, AnswerInv
<1>2. toHost # NoReply /\ ~Sending
  BY Distinct, Kinds DEF IInv, AirInv
<1> QED
  BY <1>1, <1>2, Numbers DEF IInv, ChainInv, PartsAnd

LEMMA AnsweredInv == IInv /\ Answered => IInv'
<1> SUFFICES ASSUME IInv, Answered PROVE IInv'
  OBVIOUS
<1>1. pc = "answer" /\ toHost \in Piece /\ toHost.sw = "9000"
  BY Kinds DEF Answered, IInv
<1>2. parts + 1 = cut
  BY <1>1 DEF IInv, AnswerInv
<1>3. parts' = parts + 1 /\ End("data")
  BY <1>1, NextPiece DEF Answered
<1> QED
  BY <1>1, <1>2, <1>3, NextPiece, EndInv

LEMMA StatusThrownInv == IInv /\ StatusThrown => IInv'
<1> SUFFICES ASSUME IInv, StatusThrown PROVE IInv'
  OBVIOUS
<1>1. faulted /\ toHost # NoReply
  BY Distinct DEF IInv, FaultInv, StatusThrown
<1>2. Faults = {} => buffer = 0
  BY <1>1, Kinds DEF IInv, AirInv, ChainInv, StatusThrown
<1>3. parts' \in 0 .. MaxSegments \cup {Garbled} /\ End("status")
  BY DEF IInv, TypeOK, StatusThrown
<1> QED
  BY <1>1, <1>2, <1>3, EndInv

LEMMA ReaderFailedInv == IInv /\ ReaderFailed => IInv'
<1> SUFFICES ASSUME IInv, ReaderFailed PROVE IInv'
  OBVIOUS
<1>1. faulted /\ toHost # NoReply
  BY Distinct DEF IInv, FaultInv, ReaderFailed
<1>2. Faults = {} => buffer = 0
  BY DEF IInv, ChainInv, ReaderFailed
<1>3. parts' \in 0 .. MaxSegments \cup {Garbled} /\ End("exception")
  BY DEF IInv, TypeOK, ReaderFailed
<1> QED
  BY <1>1, <1>2, <1>3, EndInv

LEMMA AskForMoreInv == IInv /\ AskForMore => IInv'
<1> SUFFICES ASSUME IInv, AskForMore PROVE IInv'
  OBVIOUS
<1> USE DEF card
<1>1. pc = "answer" /\ toHost \in Piece /\ toHost.sw = "61xx"
  BY Kinds DEF AskForMore, IInv
<1>2. /\ parts' = parts + 1 /\ parts \in Nat /\ parts + 1 \in 1 .. MaxSegments
      /\ Ran /\ ~Sending /\ (Faults = {} => buffer = 0)
  BY <1>1, NextPiece DEF AskForMore
<1>3. /\ parts + 2 <= cut
      /\ pending = [part |-> parts + 2, of |-> cut, req |-> req]
  BY <1>1 DEF IInv, AnswerInv
<1>4. toCard' = GetResponse /\ toHost' = NoReply /\ ~Sending'
  BY Distinct DEF AskForMore, Sending
<1>5. TypeOK'
  BY <1>2 DEF IInv, TypeOK, AskForMore
<1>6. AirInv' /\ LoopInv' /\ FaultInv'
  BY <1>1, <1>4, Distinct
  DEF IInv, AskForMore, AirInv, LoopInv, FaultInv, UndisturbedReturns
<1>7. ChainInv'
  BY <1>1, <1>2, <1>4, Distinct DEF AskForMore, ChainInv
<1>8. AnswerInv'
  <2>1. parts' + 1 = parts + 2 /\ parts' \in 0 .. MaxSegments
    BY <1>2, Numbers DEF IInv
  <2>2. WholeAnswers'
    BY <1>1 DEF IInv, LoopInv, AskForMore, WholeAnswers
  <2>3. Ran' /\ UNCHANGED <<pc, req, cut, pending>> /\ pc' = "answer"
    BY <1>1, <1>2 DEF Ran, AskForMore
  <2> QED
    BY <1>3, <1>4, <2>1, <2>2, <2>3, Distinct DEF AnswerInv
<1>9. OrderInv'
  BY <1>1, <1>4 DEF IInv, AskForMore, OrderInv, AtMostOnce, WholeCommands
<1> QED
  BY <1>5, <1>6, <1>7, <1>8, <1>9 DEF IInv

-----------------------------------------------------------------------------
(* The steps of the card and of the link *)

\* A C-APDU on the air can be read: Lc holds its length, and something is left for the
\* last one of a chain.
LEMMA AlwaysReadable == IInv /\ Sending => Readable(toCard)
<1> SUFFICES ASSUME IInv, Sending PROVE Readable(toCard)
  OBVIOUS
<1>1. length \in Nat /\ remaining \in Nat
  BY Numbers DEF IInv
<1>2. toCard.lc = toCard.to - toCard.from
  BY DEF IInv, LoopInv
<1>3. pc \in {"chunk", "answer"}
  BY Distinct DEF IInv, AirInv, TypeOK, Sending
<1>4. CASE pc = "chunk"
  <2>1. toCard.to = length - remaining /\ toCard.from = toCard.to - 255
    BY <1>4 DEF IInv, LoopInv
  <2> QED
    BY <1>1, <1>2, <2>1 DEF Readable
<1>5. CASE pc = "answer"
  <2>1. toCard.to = length /\ toCard.from = length - remaining /\ (length > 0 => remaining > 0)
    BY <1>5 DEF IInv, LoopInv
  <2> QED
    BY <1>1, <1>2, <2>1 DEF Readable
<1> QED
  BY <1>3, <1>4, <1>5

LEMMA CardCollectsInv == IInv /\ CardCollects => IInv'
<1> SUFFICES ASSUME IInv, CardCollects PROVE IInv'
  OBVIOUS
<1> USE DEF host
<1>1. /\ Sending /\ ~toCard.last /\ pc = "chunk" /\ toCard # NoCommand /\ parts = 0
      /\ toCard \in [kind : {"command"}, from : Nat, to : Nat, lc : 0 .. 255,
                     last : BOOLEAN]
  <2>1. Sending /\ ~toCard.last
    BY DEF CardCollects, Sending
  <2>2. toCard # NoCommand /\ pc \in {"idle", "send", "chunk", "answer"}
    BY <2>1, Kinds DEF IInv, TypeOK
  <2> QED
    BY <2>1, <2>2, Kinds DEF IInv, AirInv, AnswerInv
<1>2. toHost' \in Piece /\ toCard' = NoCommand /\ ~Sending'
  BY PieceFacts, Numbers, Distinct DEF IInv, CardCollects, Sending
<1>3. TypeOK'
  BY <1>1, <1>2 DEF IInv, TypeOK, CardCollects, Collected
<1>4. AirInv' /\ LoopInv' /\ FaultInv'
  BY <1>1, <1>2, Distinct
  DEF IInv, CardCollects, AirInv, LoopInv, FaultInv, UndisturbedReturns
<1>5. ChainInv'
  BY <1>1, <1>2, Distinct DEF IInv, CardCollects, Collected, ChainInv, LoopInv
<1>6. AnswerInv' /\ OrderInv'
  BY <1>1, <1>2, Distinct DEF IInv, CardCollects, AnswerInv, OrderInv, WholeAnswers, Ran,
                              LoopInv, AtMostOnce, WholeCommands
<1> QED
  BY <1>3, <1>4, <1>5, <1>6 DEF IInv

LEMMA CardExecutesInv ==
  ASSUME IInv, NEW k \in 1 .. MaxSegments, CardExecutes(k)
  PROVE  IInv'
<1> USE DEF host
<1> DEFINE S == [req : Nat, bytes : Int]
           e == [req |-> req, bytes |-> Collected(toCard)]
<1>1. /\ Sending /\ toCard.last /\ pc = "answer" /\ toCard # NoCommand /\ parts = 0
      /\ toCard \in [kind : {"command"}, from : Nat, to : Nat, lc : 0 .. 255,
                     last : BOOLEAN]
  <2>1. Sending /\ toCard.last
    BY DEF CardExecutes, Sending
  <2> QED
    BY <2>1, Kinds DEF IInv, AirInv, AnswerInv
<1>2. /\ toHost' \in Piece /\ toHost'.req = req /\ toHost'.part = 1
      /\ toHost'.sw = "9000" => k = 1
      /\ toHost'.sw = "61xx" =>
           k # 1 /\ pending' = [part |-> 2, of |-> k, req |-> req]
      /\ pending' \in [part : 1 .. MaxSegments, of : 1 .. MaxSegments, req : Nat]
                        \cup {NoPending}
      /\ toHost' # NoReply
  BY PieceFacts, Numbers, Distinct DEF IInv, CardExecutes
<1>3. toCard' = NoCommand /\ ~Sending'
  BY Distinct DEF CardExecutes, Sending
<1>4. executed \in Seq(S) /\ e \in S /\ executed' = Append(executed, e)
  BY <1>1, Numbers DEF IInv, TypeOK, CardExecutes, Collected, Garbled
<1>5. /\ executed' \in Seq(S) /\ executed' # <<>>
      /\ Len(executed') = Len(executed) + 1
      /\ DOMAIN executed' = 1 .. Len(executed) + 1
      /\ executed'[Len(executed) + 1] = e
      /\ \A i \in 1 .. Len(executed) : executed'[i] = executed[i]
  BY <1>4, AppendFacts
<1>6. /\ Len(executed) \in Nat /\ DOMAIN executed = 1 .. Len(executed)
      /\ \A i \in DOMAIN executed : executed[i].req \in Nat /\ executed[i].req < req
      /\ req \in Nat
  BY <1>1, Numbers DEF IInv, OrderInv
<1>7. TypeOK'
  BY <1>2, <1>5 DEF IInv, TypeOK, CardExecutes
<1>8. AirInv' /\ LoopInv' /\ FaultInv'
  BY <1>1, <1>2, <1>3, Distinct
  DEF IInv, CardExecutes, AirInv, LoopInv, FaultInv, UndisturbedReturns
<1>9. ChainInv'
  BY <1>1, <1>2, <1>3, Distinct DEF CardExecutes, ChainInv
<1>10. AnswerInv'
  <2>1. Ran'
    BY <1>5 DEF Ran, CardExecutes
  <2>2. WholeAnswers'
    BY <1>1 DEF IInv, LoopInv, CardExecutes, WholeAnswers
  <2>3. UNCHANGED <<pc, req, parts>> /\ cut' = k /\ pc' = "answer"
    BY <1>1 DEF CardExecutes
  <2> QED
    BY <1>1, <1>2, <1>3, <2>1, <2>2, <2>3, Distinct DEF AnswerInv
<1>11. e.req = req /\ (Faults = {} => e.bytes = length)
  BY <1>1 DEF IInv, ChainInv, LoopInv, Collected
<1> HIDE DEF e, S
<1>12. OrderInv'
  <2>1. /\ \A i \in DOMAIN executed' :
             \/ i \in DOMAIN executed /\ executed'[i] = executed[i]
             \/ i = Len(executed) + 1 /\ executed'[i] = e
        /\ UNCHANGED <<pc, req, length>>
    BY <1>5, <1>6 DEF CardExecutes
  <2>2. \A i \in DOMAIN executed' : executed'[i].req <= req
    BY <1>6, <1>11, <2>1
  <2>3. AtMostOnce'
    <3> SUFFICES ASSUME NEW i \in DOMAIN executed', NEW j \in DOMAIN executed', i < j
                 PROVE  executed'[i].req < executed'[j].req
      BY DEF AtMostOnce
    <3>1. i \in DOMAIN executed /\ executed'[i] = executed[i]
      BY <1>5, <1>6, <2>1
    <3>2. CASE j \in DOMAIN executed
      BY <1>5, <1>6, <3>1, <3>2 DEF IInv, OrderInv, AtMostOnce
    <3>3. CASE j = Len(executed) + 1
      BY <1>5, <1>6, <1>11, <3>1, <3>3
    <3> QED
      BY <2>1, <3>2, <3>3
  <2>4. Faults = {} => WholeCommands'
    <3> SUFFICES ASSUME Faults = {}, NEW i \in DOMAIN executed', executed'[i].req = req
                 PROVE  executed'[i].bytes = length
      BY <2>1 DEF WholeCommands
    <3>1. i \notin DOMAIN executed
      BY <1>5, <1>6
    <3> QED
      BY <1>11, <2>1, <3>1
  <2> QED
    BY <1>1, <1>3, <2>1, <2>2, <2>3, <2>4 DEF OrderInv
<1> QED
  BY <1>7, <1>8, <1>9, <1>10, <1>12 DEF IInv

LEMMA CardFailsInv == IInv /\ CardFails => IInv'
<1> SUFFICES ASSUME IInv, CardFails PROVE IInv'
  OBVIOUS
<1> USE DEF host
<1>1. /\ Sending /\ pc \in {"chunk", "answer"} /\ toCard # NoCommand /\ parts = 0
      /\ toCard.last <=> pc = "answer"
      /\ Readable(toCard)
  <2>1. Sending
    BY DEF CardFails, Sending
  <2>2. toCard # NoCommand /\ pc \in {"idle", "send", "chunk", "answer"}
    BY <2>1, Kinds DEF IInv, TypeOK
  <2> QED
    BY <2>1, <2>2, AlwaysReadable DEF IInv, AirInv, AnswerInv
<1>2. toHost' = StatusError /\ toCard' = NoCommand /\ ~Sending' /\ faulted'
  BY <1>1, Distinct DEF CardFails, Sending
<1>3. TypeOK'
  BY <1>1, <1>2 DEF IInv, TypeOK, CardFails
<1>4. AirInv' /\ LoopInv' /\ FaultInv'
  BY <1>1, <1>2, Distinct
  DEF IInv, CardFails, AirInv, LoopInv, FaultInv, UndisturbedReturns
<1>5. ChainInv'
  <2>1. Faults = {} => pc' = "answer" /\ buffer' = 0
    BY <1>1 DEF CardFails
  <2> QED
    BY <1>2, <2>1, Distinct DEF ChainInv
<1>6. AnswerInv' /\ OrderInv'
  BY <1>1, <1>2, Distinct DEF IInv, CardFails, AnswerInv, OrderInv, WholeAnswers, Ran,
                              LoopInv, AtMostOnce, WholeCommands
<1> QED
  BY <1>3, <1>4, <1>5, <1>6 DEF IInv

LEMMA CardGivesMoreInv == IInv /\ CardGivesMore => IInv'
<1> SUFFICES ASSUME IInv, CardGivesMore PROVE IInv'
  OBVIOUS
<1> USE DEF host
<1>1. toCard = GetResponse /\ ~Sending /\ toCard # NoCommand
  BY Kinds, Distinct DEF IInv, CardGivesMore, Sending
<1>2. pc = "answer"
  BY <1>1, Distinct DEF IInv, TypeOK, AirInv, GetResponse
<1>3. /\ Ran /\ parts + 1 <= cut /\ parts \in Nat /\ cut \in 1 .. MaxSegments
      /\ pending = [part |-> parts + 1, of |-> cut, req |-> req] /\ req \in Nat
      /\ parts + 1 \in 1 .. cut
  BY <1>1, <1>2, Numbers DEF IInv, AnswerInv
<1>4. /\ toHost' = PieceOf(parts + 1, cut, req)
      /\ pending' = Rest(parts + 1, cut, req)
  BY <1>3 DEF CardGivesMore
<1>5. /\ toHost' \in Piece /\ toHost'.req = req /\ toHost'.part = parts + 1
      /\ toHost'.sw = "9000" => parts + 1 = cut
      /\ toHost'.sw = "61xx" =>
           parts + 1 # cut /\ pending' = [part |-> parts + 1 + 1, of |-> cut, req |-> req]
      /\ pending' \in [part : 1 .. MaxSegments, of : 1 .. MaxSegments, req : Nat]
                        \cup {NoPending}
  BY <1>3, <1>4, PieceFacts
<1>6. toCard' = NoCommand /\ ~Sending' /\ toHost' # NoReply
  BY <1>5, Distinct DEF CardGivesMore, Sending
<1>7. TypeOK'
  BY <1>5, <1>6 DEF IInv, TypeOK, CardGivesMore
<1>8. AirInv' /\ LoopInv' /\ FaultInv'
  BY <1>1, <1>2, <1>5, <1>6, Distinct
  DEF IInv, CardGivesMore, AirInv, LoopInv, FaultInv, UndisturbedReturns
<1>9. ChainInv'
  BY <1>1, <1>2, <1>5, <1>6, Distinct DEF IInv, CardGivesMore, ChainInv
<1>10. AnswerInv'
  <2>1. Ran' /\ WholeAnswers' /\ UNCHANGED <<pc, req, parts, cut>>
    BY <1>3 DEF IInv, AnswerInv, CardGivesMore, Ran, WholeAnswers
  <2>2. parts + 1 + 1 = parts + 2
    BY <1>3
  <2>3. toHost'.sw = "61xx" => parts + 2 <= cut
    BY <1>3, <1>5
  <2>4. parts \in 0 .. MaxSegments
    BY <1>3
  <2> QED
    BY <1>2, <1>3, <1>5, <1>6, <2>1, <2>2, <2>3, <2>4, Distinct DEF AnswerInv
<1>11. OrderInv'
  BY <1>2, <1>6 DEF IInv, CardGivesMore, OrderInv, AtMostOnce, WholeCommands
<1> QED
  BY <1>7, <1>8, <1>9, <1>10, <1>11 DEF IInv

\* A lost APDU: the reader throws, and the card has forgotten its chain, unless that
\* fault is included.
LEMMA LossInv ==
  ASSUME IInv, AfterLoss, pc \in {"chunk", "answer"},
         toCard' = NoCommand, UNCHANGED <<host, cut, executed>>
  PROVE  IInv'
<1> USE DEF host
<1>1. ~Sending' /\ toHost' = Exception /\ faulted' /\ pending' = NoPending
  BY Distinct DEF AfterLoss, Sending
<1>2. TypeOK'
  BY <1>1 DEF IInv, TypeOK, AfterLoss
<1>3. AirInv' /\ LoopInv' /\ FaultInv'
  BY <1>1, Distinct DEF IInv, AirInv, LoopInv, FaultInv, UndisturbedReturns
<1>4. ChainInv'
  BY <1>1, Distinct DEF ChainInv, AfterLoss
<1>5. AnswerInv' /\ OrderInv'
  BY <1>1, Distinct DEF IInv, AnswerInv, OrderInv, WholeAnswers, Ran, LoopInv,
                        AtMostOnce, WholeCommands
<1> QED
  BY <1>2, <1>3, <1>4, <1>5 DEF IInv

LEMMA LoseInv == IInv /\ (LoseCommand \/ LoseReply) => IInv'
<1>1. ASSUME IInv, LoseCommand PROVE IInv'
  <2>1. pc \in {"chunk", "answer"}
    BY <1>1 DEF IInv, TypeOK, AirInv, LoseCommand
  <2> QED
    BY <1>1, <2>1, LossInv DEF LoseCommand
<1>2. ASSUME IInv, LoseReply PROVE IInv'
  <2>1. toHost # NoReply
    BY <1>2, Distinct DEF LoseReply
  <2>2. pc \in {"chunk", "answer"} /\ toCard = NoCommand
    BY <1>2, <2>1 DEF IInv, TypeOK, AirInv
  <2> QED
    BY <1>2, <2>2, LossInv DEF LoseReply
<1> QED
  BY <1>1, <1>2

-----------------------------------------------------------------------------
(* The theorems *)

LEMMA StepInv == IInv /\ [Next]_vars => IInv'
<1> SUFFICES ASSUME IInv, [Next]_vars PROVE IInv'
  OBVIOUS
<1>1. CASE UNCHANGED vars
  <2> USE <1>1 DEF vars, host, card
  <2>1. TypeOK'
    BY DEF IInv, TypeOK
  <2>2. AirInv' /\ LoopInv' /\ ChainInv' /\ FaultInv'
    BY DEF IInv, AirInv, LoopInv, ChainInv, FaultInv, UndisturbedReturns, Sending
  <2>3. AnswerInv' /\ OrderInv'
    BY DEF IInv, AnswerInv, OrderInv, WholeAnswers, Ran, AtMostOnce, WholeCommands, Sending
  <2> QED
    BY <2>1, <2>2, <2>3 DEF IInv
<1> QED
  BY <1>1, TransmitInv, SendChunkInv, SendLastInv, ChunkAnsweredInv, AnsweredInv,
     AskForMoreInv, StatusThrownInv, ReaderFailedInv, CardCollectsInv, CardExecutesInv,
     CardFailsInv, CardGivesMoreInv, LoseInv
  DEF Next, Host, Card

THEOREM InvariantHolds == Spec => []IInv
BY InitInv, StepInv, PTL DEF Spec

\* The state has the types the code gives it: the chaining loop's remaining never
\* passes below zero, whatever the length.
THEOREM TypeCorrect == Spec => []TypeOK
<1>1. IInv => TypeOK
  BY DEF IInv
<1> QED
  BY <1>1, InvariantHolds, PTL

\* As long as the card takes every chunk and forgets an unfinished chain, it carries
\* out a call with all the data the caller passed, in its order, or not at all
\* (the chaining loop of SmartCardReader.transmit).
THEOREM WholeCommandsHold == Faults = {} => (Spec => []WholeCommands)
<1> SUFFICES ASSUME Faults = {} PROVE Spec => []WholeCommands
  OBVIOUS
<1>1. IInv => WholeCommands
  BY DEF IInv, OrderInv
<1> QED
  BY <1>1, InvariantHolds, PTL

\* Data is returned only if the card has carried out this call, and it is the whole
\* response, in its order, however many pieces it came in (GET RESPONSE at 61xx).
THEOREM WholeAnswersHold == Spec => []WholeAnswers
<1>1. IInv => WholeAnswers
  BY DEF IInv, AnswerInv
<1> QED
  BY <1>1, InvariantHolds, PTL

\* No call is carried out twice.
THEOREM AtMostOnceHolds == Spec => []AtMostOnce
<1>1. IInv => AtMostOnce
  BY DEF IInv, OrderInv
<1> QED
  BY <1>1, InvariantHolds, PTL

\* Without a fault of the card or the link the call returns data, at every length.
THEOREM UndisturbedReturnsHolds == Spec => []UndisturbedReturns
<1>1. IInv => UndisturbedReturns
  BY DEF IInv, FaultInv
<1> QED
  BY <1>1, InvariantHolds, PTL

-----------------------------------------------------------------------------
(* The transport implements AuthenticatedExchange *)

\* How a call that is over looks from outside.
LEMMA EndMaps ==
  ASSUME IInv, Faults = {}, NEW how \in {"data", "status", "exception"}, End(how),
         pc # "idle", how = "data" => Ran
  PROVE  Exchange!Next
<1>1. UNCHANGED <<req, length, executed>> /\ pc' = "idle" /\ outcome' = how
  BY DEF End, card
<1>2. CASE how = "data"
  <2>1. executed[Len(executed)] = Exchange!Entry /\ executed # <<>>
    <3>1. Len(executed) \in DOMAIN executed /\ executed \in Seq([req : Nat, bytes : Int])
      BY <1>2, EmptySeq, Numbers DEF IInv, TypeOK, Ran
    <3>2. executed[Len(executed)] \in [req : Nat, bytes : Int]
      <4>1. executed \in [1 .. Len(executed) -> [req : Nat, bytes : Int]]
        BY <3>1, LenProperties
      <4> QED
        BY <3>1, <4>1, Numbers DEF IInv
    <3>3. executed[Len(executed)].bytes = length /\ executed[Len(executed)].req = req
      BY <1>2, <3>1 DEF IInv, OrderInv, WholeCommands, Ran
    <3> QED
      BY <1>2, <3>2, <3>3 DEF Exchange!Entry, Ran
  <2> QED
    BY <1>1, <1>2, <2>1 DEF Exchange!Next, Exchange!Return, Exchange!HasRun
<1>3. CASE how # "data"
  BY <1>1, <1>3 DEF Exchange!Next, Exchange!Throw
<1> QED
  BY <1>2, <1>3

LEMMA RunMaps ==
  ASSUME IInv, Faults = {}, NEW k \in 1 .. MaxSegments, CardExecutes(k)
  PROVE  Exchange!Next
<1>1. Sending /\ toCard.last /\ pc = "answer" /\ toCard.from = buffer /\ toCard.to = length
  <2>1. Sending /\ toCard.last
    BY DEF CardExecutes, Sending
  <2> QED
    BY <2>1 DEF IInv, AirInv, LoopInv, ChainInv
<1>2. executed' = Append(executed, [req |-> req, bytes |-> length])
  BY <1>1 DEF CardExecutes, Collected
<1>3. ~Exchange!HasRun
  <2> SUFFICES ASSUME Exchange!HasRun PROVE FALSE
    OBVIOUS
  <2>1. executed # <<>> /\ executed[Len(executed)].req = req
    BY DEF Exchange!HasRun, Exchange!Entry
  <2>2. Len(executed) \in DOMAIN executed
    BY <2>1, EmptySeq, Numbers DEF IInv, TypeOK
  <2>3. executed[Len(executed)].req < req
    BY <1>1, <2>2 DEF IInv, OrderInv
  <2> QED
    BY <2>1, <2>3, Numbers DEF IInv
<1> QED
  BY <1>1, <1>2, <1>3 DEF CardExecutes, host, Exchange!Next, Exchange!Run, Exchange!Entry

LEMMA StepMaps ==
  ASSUME IInv, Faults = {}, [Next]_vars
  PROVE  [Exchange!Next]_(Exchange!vars)
<1> USE DEF Exchange!vars
<1>1. ASSUME NEW n \in DataLengths, Transmit(n) PROVE Exchange!Next
  BY <1>1 DEF Transmit, Exchange!Next, Exchange!Call, card
<1>2. CASE SendChunk \/ SendLast \/ ChunkAnswered \/ AskForMore
  BY <1>2 DEF SendChunk, SendLast, ChunkAnswered, AskForMore, card
<1>3. CASE Answered
  <2>1. pc = "answer" /\ toHost \in Piece
    BY <1>3, Kinds DEF Answered, IInv
  <2> QED
    BY <1>3, <2>1, NextPiece, EndMaps DEF Answered
<1>4. CASE StatusThrown
  BY <1>4, EndMaps DEF StatusThrown
<1>5. CASE ReaderFailed
  <2>1. pc # "idle"
    BY <1>5, Distinct DEF ReaderFailed, IInv, AirInv
  <2> QED
    BY <1>5, <2>1, EndMaps DEF ReaderFailed
<1>6. CASE CardCollects \/ CardFails \/ CardGivesMore
  BY <1>6 DEF CardCollects, CardFails, CardGivesMore, host
<1>7. CASE LoseCommand \/ LoseReply
  BY <1>7 DEF LoseCommand, LoseReply, host
<1>8. CASE UNCHANGED vars
  BY <1>8 DEF vars, host, card
<1> QED
  BY <1>1, <1>2, <1>3, <1>4, <1>5, <1>6, <1>7, <1>8, RunMaps DEF Next, Host, Card

\* Every behaviour of the transport is one that AuthenticatedExchange allows, as long
\* as the card takes every chunk and forgets an unfinished chain.
THEOREM Refinement == Faults = {} => (Spec => Exchange!Spec)
<1> SUFFICES ASSUME Faults = {} PROVE Spec => Exchange!Spec
  OBVIOUS
<1>1. Init => Exchange!Init
  BY DEF Init, Exchange!Init
<1>2. IInv /\ [Next]_vars => [Exchange!Next]_(Exchange!vars)
  BY StepMaps
<1> QED
  BY <1>1, <1>2, InvariantHolds, PTL DEF Spec, Exchange!Spec
===============================================================================
