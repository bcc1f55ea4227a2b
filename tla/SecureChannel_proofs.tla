------------------------ MODULE SecureChannel_proofs -------------------------
(***************************************************************************)
(* Proofs about SecureChannel for all data lengths, all ways of cutting     *)
(* responses and all counter widths.                                        *)
(***************************************************************************)
EXTENDS SecureChannel, SequenceTheorems, TLAPS

USE LengthsAssumption, SegmentsAssumption, ModulusAssumption

\* incrementSSC stays in the range of the counter, and it adds one as long as the
\* counter does not wrap.
LEMMA IncrementRange == \A c \in Nat : IncrementSSC(c) \in Counters
BY DEF IncrementSSC, Counters

LEMMA IncrementAddsOne == \A c \in Nat : c + 1 < SscModulus => IncrementSSC(c) = c + 1
BY DEF IncrementSSC

\* A frame of EncryptAndMac is a protected C-APDU.
LEMMA FrameType ==
  ASSUME TypeOK, NEW kind \in {"command", "getResponse"}, NEW n \in Nat,
         NEW last \in BOOLEAN, EncryptAndMac(kind, n, last)
  PROVE  /\ toCard' \in ProtectedAPDU
         /\ ssc' \in Counters
         /\ used' \in Seq(Counters)
<1>1. IncrementSSC(ssc) \in Counters /\ IncrementSSC(IncrementSSC(ssc)) \in Counters
  <2>1. Counters \subseteq Nat
    BY DEF Counters
  <2>2. ssc \in Counters
    BY DEF TypeOK
  <2> QED
    BY <2>1, <2>2, IncrementRange
<1>2. used \in Seq(Counters) /\ used' = Append(used, IncrementSSC(ssc))
  BY DEF TypeOK, EncryptAndMac
<1>3. used' \in Seq(Counters)
  BY <1>1, <1>2, AppendProperties
<1> QED
  BY <1>1, <1>3 DEF EncryptAndMac, ProtectedAPDU, Fits

\* What the card counts is a counter, too.
LEMMA CardCountsType ==
  ASSUME TypeOK, CardCounts
  PROVE  cardSsc' \in Counters /\ used' \in Seq(Counters)
<1>1. cardSsc' \in Counters
  BY IncrementRange DEF TypeOK, CardCounts, Counters
<1>2. used \in Seq(Counters) /\ used' = Append(used, cardSsc')
  BY DEF TypeOK, CardCounts
<1> QED
  BY <1>1, <1>2, AppendProperties

LEMMA PieceType ==
  ASSUME NEW k \in 1 .. MaxSegments, NEW i \in 1 .. k, NEW r \in Nat, NEW c \in Counters
  PROVE  /\ PieceOf(i, k, r, c) \in Piece
         /\ Rest(i, k, r, c) \in Pending \cup {NoPending}
BY DEF PieceOf, Rest, Piece, Pending, NoPending

\* Which APDU is in the air can be told by its status word, or by its kind.
LEMMA ReplyKinds ==
  ASSUME TypeOK
  PROVE  /\ toHost.sw \in {"9000", "61xx"} <=> toHost \in Piece
         /\ toHost.sw = "io" <=> toHost = IOException
BY DEF TypeOK, Piece, StatusError, IOException, NoReply

LEMMA CommandKinds ==
  ASSUME TypeOK
  PROVE  /\ IsProtected(toCard) <=> toCard \in ProtectedAPDU
         /\ toCard.kind = "plain" <=> toCard = PlainGetResponse
BY DEF TypeOK, IsProtected, ProtectedAPDU, PlainGetResponse, NoCommand

LEMMA PendingKinds ==
  ASSUME TypeOK, pending # NoPending
  PROVE  /\ pending \in Pending
         /\ PieceOf(pending.part, pending.of, pending.req, pending.ctr) \in Piece
         /\ Rest(pending.part, pending.of, pending.req, pending.ctr)
              \in Pending \cup {NoPending}
<1>1. pending \in Pending
  BY DEF TypeOK
<1> QED
  BY <1>1, PieceType DEF Pending

LEMMA AppendFacts ==
  ASSUME NEW S, NEW s \in Seq(S), NEW e \in S
  PROVE  /\ Append(s, e) \in Seq(S)
         /\ Append(s, e)[1] \in S
         /\ Append(s, e)[1] = IF s = <<>> THEN e ELSE s[1]
         /\ Append(s, e) # <<>>
         /\ Len(Append(s, e)) = Len(s) + 1
         /\ Append(s, e)[Len(Append(s, e))] = e
         /\ \A i \in 1 .. Len(s) : Append(s, e)[i] = s[i]
BY AppendProperties, EmptySeq

LEMMA FirstPiece ==
  ASSUME TypeOK, NEW r \in Piece
  PROVE  /\ Append(parts, r) \in Seq(Piece)
         /\ Append(parts, r)[1].req \in Nat
<1>1. parts \in Seq(Piece)
  BY DEF TypeOK
<1>2. Append(parts, r) \in Seq(Piece) /\ Append(parts, r)[1] \in Piece
  BY <1>1, AppendFacts
<1> QED
  BY <1>2 DEF Piece

LEMMA ExecutedType ==
  ASSUME TypeOK, NEW n \in Nat
  PROVE  Append(executed, [req |-> req, bytes |-> n]) \in Seq([req : Nat, bytes : Nat])
<1>1. [req |-> req, bytes |-> n] \in [req : Nat, bytes : Nat]
  BY DEF TypeOK
<1> QED
  BY <1>1, AppendFacts DEF TypeOK

LEMMA TypeStep == TypeOK /\ [Next]_vars => TypeOK'
<1> SUFFICES ASSUME TypeOK, [Next]_vars PROVE TypeOK'
  OBVIOUS
<1> USE DEF TypeOK, host, card
<1>1. ASSUME NEW n \in DataLengths, Transmit(n) PROVE TypeOK'
  BY <1>1 DEF Transmit
<1>2. CASE SendChunk
  <2>1. toCard' \in ProtectedAPDU /\ ssc' \in Counters /\ used' \in Seq(Counters)
    BY <1>2, FrameType DEF SendChunk
  <2> QED
    BY <1>2, <2>1 DEF SendChunk
<1>3. CASE SendLast
  <2>1. toCard' \in ProtectedAPDU /\ ssc' \in Counters /\ used' \in Seq(Counters)
    BY <1>3, FrameType DEF SendLast
  <2> QED
    BY <1>3, <2>1 DEF SendLast
<1>4. CASE ChunkAnswered
  BY <1>4 DEF ChunkAnswered
<1>5. CASE Answered
  <2>1. toHost \in Piece
    BY <1>5, ReplyKinds DEF Answered
  <2>2. Append(parts, toHost) \in Seq(Piece) /\ Append(parts, toHost)[1].req \in Nat
    BY <2>1, FirstPiece
  <2> DEFINE ps == Append(parts, toHost)
  <2>3. /\ pc' = "idle" /\ parts' = ps /\ toHost' = NoReply
        /\ UNCHANGED <<req, length, remaining, ssc, toCard, tag, card, missed, used>>
        /\ outcome' \in {"data", "runtime", "malformed"}
        /\ data' \in {ps[1].req, 0}
    BY <1>5 DEF Answered, DecryptAndVerify, Unverified, End
  <2> QED
    BY <2>2, <2>3
<1>6. CASE AskForMore
  BY <1>6, ReplyKinds DEF AskForMore
<1>7. CASE AskAgain
  <2>1. toCard' \in ProtectedAPDU /\ ssc' \in Counters /\ used' \in Seq(Counters)
    BY <1>7, FrameType DEF AskAgain
  <2> QED
    BY <1>7, <2>1, ReplyKinds DEF AskAgain
<1>8. CASE NestedAnswered
  <2>1. toHost \in Piece
    BY <1>8, ReplyKinds DEF NestedAnswered
  <2>2. Append(parts, toHost) \in Seq(Piece) /\ Append(parts, toHost)[1].req \in Nat
    BY <2>1, FirstPiece
  <2> DEFINE ps == Append(parts, toHost)
  <2>3. /\ pc' = "idle" /\ parts' = ps /\ toHost' = NoReply
        /\ UNCHANGED <<req, length, remaining, ssc, toCard, tag, card, missed, used>>
        /\ outcome' \in {"data", "runtime", "malformed"}
        /\ data' \in {ps[1].req, 0}
    BY <1>8 DEF NestedAnswered, DecryptAndVerify, Unverified, End
  <2> QED
    BY <2>2, <2>3
<1>9. CASE StatusThrown
  BY <1>9 DEF StatusThrown, End
<1>10. CASE TransceiveFailed
  BY <1>10 DEF TransceiveFailed, End
<1>11. ASSUME NEW k \in 1 .. MaxSegments, CardExecutes(k) PROVE TypeOK'
  <2>1. toCard \in ProtectedAPDU /\ cardSsc' \in Counters /\ used' \in Seq(Counters)
    BY <1>11, CommandKinds, CardCountsType DEF CardExecutes, IsProtected
  <2>2. /\ PieceOf(1, k, req, cardSsc') \in Piece
        /\ Rest(1, k, req, cardSsc') \in Pending \cup {NoPending}
    BY <2>1, PieceType
  <2>3. /\ executed' \in Seq([req : Nat, bytes : Nat])
        /\ buffer' \in Nat
    <3>1. buffer + toCard.bytes \in Nat
      BY <2>1 DEF ProtectedAPDU
    <3> DEFINE e == Append(executed, [req |-> req, bytes |-> buffer + toCard.bytes])
    <3>2. e \in Seq([req : Nat, bytes : Nat])
      BY <3>1, ExecutedType
    <3>3. Collect(toCard.bytes, toCard.last)
      BY <1>11 DEF CardExecutes
    <3>4. (executed' = executed \/ executed' = e) /\ buffer' \in {0, buffer + toCard.bytes}
      BY <3>3 DEF Collect
    <3>5. executed \in Seq([req : Nat, bytes : Nat])
      OBVIOUS
    <3> HIDE DEF e, TypeOK
    <3> QED
      BY <3>1, <3>2, <3>4, <3>5
  <2> QED
    BY <1>11, <2>1, <2>2, <2>3 DEF CardExecutes
<1>12. CASE CardFails
  <2>1. toCard \in ProtectedAPDU /\ cardSsc' \in Counters /\ used' \in Seq(Counters)
    BY <1>12, CommandKinds, CardCountsType DEF CardFails, IsProtected
  <2>2. executed' \in Seq([req : Nat, bytes : Nat])
    <3>1. buffer + toCard.bytes \in Nat
      BY <2>1 DEF ProtectedAPDU
    <3> QED
      BY <1>12, <3>1, ExecutedType DEF CardFails
  <2> QED
    BY <1>12, <2>1, <2>2 DEF CardFails
<1>13. CASE CardRejects
  <2>1. cardSm' \in BOOLEAN
    BY <1>13 DEF CardRejects
  <2>2. UNCHANGED <<pc, req, length, remaining, parts, outcome, data, ssc, tag,
                    cardSsc, executed, used>>
    BY <1>13 DEF CardRejects
  <2>3. /\ toHost' = StatusError /\ toCard' = NoCommand /\ buffer' = 0
        /\ pending' = NoPending /\ missed' = missed + 1
    BY <1>13 DEF CardRejects
  <2> QED
    BY <2>1, <2>2, <2>3
<1>14. CASE CardGivesMore
  <2>1. /\ PieceOf(pending.part, pending.of, pending.req, pending.ctr) \in Piece
        /\ pending' \in Pending \cup {NoPending}
    BY <1>14, PendingKinds DEF CardGivesMore
  <2> QED
    BY <1>14, <2>1 DEF CardGivesMore
<1>15. CASE CardAnswersProtected
  <2>1. cardSsc' \in Counters /\ used' \in Seq(Counters)
    BY <1>15, CardCountsType DEF CardAnswersProtected
  <2>2. toHost' \in Piece \cup {StatusError}
    BY <1>15, <2>1, PendingKinds DEF CardAnswersProtected, PieceOf, Piece, Pending
  <2> QED
    BY <1>15, <2>1, <2>2 DEF CardAnswersProtected
<1>16. CASE LoseCommand
  BY <1>16 DEF LoseCommand
<1>17. CASE LoseReply
  BY <1>17 DEF LoseReply
<1>18. CASE Damage
  BY <1>18 DEF Damage, Piece
<1>19. CASE TagLost
  BY <1>19 DEF TagLost
<1>20. CASE UNCHANGED vars
  BY <1>20 DEF vars
<1> QED
  BY <1>1, <1>2, <1>3, <1>4, <1>5, <1>6, <1>7, <1>8, <1>9, <1>10, <1>11, <1>12,
     <1>13, <1>14, <1>15, <1>16, <1>17, <1>18, <1>19, <1>20 DEF Next, Host, Card

\* The state has the types the code gives it.
THEOREM TypeCorrect == Spec => []TypeOK
<1>1. Init => TypeOK
  BY DEF Init, TypeOK, Counters, NoCommand, NoReply, NoPending
<1> QED
  BY <1>1, TypeStep, PTL DEF Spec

-----------------------------------------------------------------------------
(* The inductive invariant *)

\* What is in the air at each place of transmit.
AirInv ==
  /\ pc \in {"idle", "send"} => toCard = NoCommand /\ toHost = NoReply
  /\ pc = "more" => toCard \in {NoCommand, PlainGetResponse}
  /\ toCard # NoCommand => toHost = NoReply
  /\ pc \in {"chunk", "answer", "nested"} /\ toCard # NoCommand => IsProtected(toCard)
  /\ IsProtected(toCard) =>
       /\ toCard.ctr + 1 = ssc
       /\ pc \in {"chunk", "answer", "nested"}
       /\ pc = "nested" <=> toCard.kind = "getResponse"
       /\ pc = "chunk" => ~toCard.fits
       /\ pc = "answer" => toCard.last /\ toCard.bytes = remaining

\* The counter does not wrap during a call.
RoomInv ==
  /\ pc \in {"send", "chunk"} => ssc + 2 * FramesFor(remaining) < SscModulus
  /\ pc \in {"answer", "more"} => ssc + 2 < SscModulus

\* The card never takes in a chained C-APDU, because none fits; so once the loop
\* has cut one off, the card has missed something, or is about to.
ChainInv ==
  /\ buffer = 0
  /\ pc # "idle" /\ remaining # length =>
       missed > 0 \/ (pc = "chunk" /\ toCard # NoCommand)

\* The card has just carried out the call that is open.
Ran == executed # <<>> /\ executed[Len(executed)] = [req |-> req, bytes |-> length]

AnswerInv ==
  /\ pc # "idle" => outcome = "none"
  /\ pc \in {"send", "chunk", "answer"} => parts = <<>>
  /\ pc = "answer" /\ toHost \in Piece => Ran /\ missed = 0 /\ toHost.req = req
  /\ pc \in {"more", "nested"} => Ran /\ parts # <<>> /\ parts[1].req = req
  /\ pc = "more" => missed = 0
  /\ pc = "nested" /\ toHost \in Piece => missed = 0
  /\ outcome = "data" => data = req /\ Ran /\ missed = 0

\* The card carries out calls in order, the open one only after it was sent.
OrderInv ==
  /\ \A i \in DOMAIN executed : executed[i].req <= req
  /\ pc \in {"send", "chunk"} \/ (pc = "answer" /\ toCard # NoCommand) =>
       \A i \in DOMAIN executed : executed[i].req < req
  /\ AtMostOnce
  /\ WholeCommands

IInv == TypeOK /\ CounterGap /\ AirInv /\ RoomInv /\ ChainInv /\ AnswerInv /\ OrderInv

LEMMA Numbers ==
  ASSUME TypeOK
  PROVE  /\ ssc \in Nat /\ ssc < SscModulus /\ SscModulus \in Nat
         /\ cardSsc \in Nat /\ missed \in Nat
         /\ req \in Nat /\ length \in Nat /\ remaining \in Nat /\ buffer \in Nat
<1>1. ssc \in Counters /\ cardSsc \in Counters
  BY DEF TypeOK
<1>2. /\ missed \in Nat /\ req \in Nat /\ length \in Nat
      /\ remaining \in Nat /\ buffer \in Nat
  BY DEF TypeOK
<1> QED
  BY <1>1, <1>2 DEF Counters

LEMMA History ==
  ASSUME TypeOK
  PROVE  /\ Len(executed) \in Nat /\ DOMAIN executed = 1 .. Len(executed)
         /\ \A i \in DOMAIN executed : executed[i].req \in Nat /\ executed[i].bytes \in Nat
<1>1. executed \in Seq([req : Nat, bytes : Nat])
  BY DEF TypeOK
<1>2. /\ Len(executed) \in Nat
      /\ executed \in [1 .. Len(executed) -> [req : Nat, bytes : Nat]]
  BY <1>1, LenProperties
<1>3. \A i \in 1 .. Len(executed) : executed[i] \in [req : Nat, bytes : Nat]
  BY <1>2
<1> QED
  BY <1>2, <1>3

LEMMA InitInv == Init => IInv
<1> SUFFICES ASSUME Init PROVE IInv
  OBVIOUS
<1>1. TypeOK
  BY DEF Init, TypeOK, Counters, NoCommand, NoReply, NoPending
<1>2. CounterGap /\ AirInv /\ RoomInv /\ ChainInv /\ AnswerInv
  BY DEF Init, CounterGap, AirInv, RoomInv, ChainInv, AnswerInv, IsProtected, NoCommand
<1>3. OrderInv
  BY DEF Init, OrderInv, AtMostOnce, WholeCommands
<1> QED
  BY <1>1, <1>2, <1>3 DEF IInv

\* What EncryptAndMac sends and counts when the counter has room.
LEMMA EncryptFacts ==
  ASSUME TypeOK, ssc + 2 < SscModulus,
         NEW kind \in {"command", "getResponse"}, NEW n \in Nat, NEW last \in BOOLEAN,
         EncryptAndMac(kind, n, last)
  PROVE  /\ ssc' = ssc + 2
         /\ toCard' # NoCommand
         /\ IsProtected(toCard')
         /\ toCard'.kind = kind
         /\ toCard'.ctr + 1 = ssc'
         /\ toCard'.bytes = n
         /\ toCard'.last = last
         /\ toCard'.fits = Fits(n)
<1>1. IncrementSSC(ssc) = ssc + 1 /\ IncrementSSC(ssc + 1) = ssc + 2
  BY Numbers, IncrementAddsOne
<1> QED
  BY <1>1, Numbers DEF EncryptAndMac, IsProtected, NoCommand

\* A protected C-APDU authenticates only at a card that has missed nothing, and the
\* card then counts it.
LEMMA AuthenticFacts ==
  ASSUME IInv, IsProtected(toCard), Authentic(toCard), CardCounts
  PROVE  /\ missed = 0
         /\ cardSsc' = ssc
         /\ toCard.fits
<1>1. /\ ssc \in Nat /\ cardSsc \in Nat /\ missed \in Nat
      /\ ssc < SscModulus /\ SscModulus \in Nat
  BY Numbers DEF IInv
<1>2. ssc = cardSsc + 2 * (missed + 1)
  BY DEF IInv, CounterGap
<1>3. toCard.ctr + 1 = ssc /\ toCard.ctr \in Nat
  BY CommandKinds DEF IInv, AirInv, ProtectedAPDU, Counters
<1>4. IncrementSSC(cardSsc) = cardSsc + 1 /\ IncrementSSC(cardSsc + 1) = cardSsc + 2
  BY <1>1, <1>2, IncrementAddsOne
<1> QED
  BY <1>1, <1>2, <1>3, <1>4 DEF Authentic, CardCounts

\* 255 bytes do not fit into one secure messaging C-APDU.
LEMMA ChunkDoesNotFit == ~Fits(255)
BY DEF Fits, Padded

LEMMA TransmitInv ==
  ASSUME IInv, TypeOK', NEW n \in DataLengths, Transmit(n)
  PROVE  IInv'
<1> n \in Nat
  OBVIOUS
<1>1. CounterGap' /\ AirInv'
  <2>1. /\ toCard = NoCommand /\ toHost = NoReply /\ ~IsProtected(toCard)
        /\ UNCHANGED <<ssc, toCard, toHost, card, missed>> /\ pc' = "send"
    BY DEF IInv, Transmit, AirInv, IsProtected, NoCommand
  <2> QED
    BY <2>1 DEF IInv, CounterGap, AirInv, IsProtected, card
<1>2. RoomInv'
  BY DEF IInv, Transmit, RoomInv, CounterRoom
<1>3. ChainInv' /\ AnswerInv'
  BY DEF IInv, Transmit, ChainInv, AnswerInv, card
<1>4. OrderInv'
  <2> QED
    BY History, Numbers DEF IInv, Transmit, OrderInv, AtMostOnce, WholeCommands, card
<1> QED
  BY <1>1, <1>2, <1>3, <1>4 DEF IInv

LEMMA SendChunkInv == IInv /\ TypeOK' /\ SendChunk => IInv'
<1> SUFFICES ASSUME IInv, TypeOK', SendChunk PROVE IInv'
  OBVIOUS
<1>1. /\ ssc + 2 * FramesFor(remaining) < SscModulus
      /\ FramesFor(remaining') = FramesFor(remaining) - 1
      /\ FramesFor(remaining) >= 3 /\ FramesFor(remaining) \in Nat
  BY DEF IInv, TypeOK, RoomInv, SendChunk, FramesFor
<1>2. ssc + 2 < SscModulus
  BY <1>1, Numbers DEF IInv
<1>3. /\ ssc' = ssc + 2 /\ toCard' # NoCommand
      /\ IsProtected(toCard') /\ toCard'.ctr + 1 = ssc'
      /\ toCard'.kind = "command" /\ ~toCard'.fits
  BY <1>2, EncryptFacts, ChunkDoesNotFit DEF IInv, SendChunk
<1>4. pc = "send" /\ pc' = "chunk" /\ toCard = NoCommand /\ toHost = NoReply
  BY DEF IInv, SendChunk, AirInv
<1>5. UNCHANGED <<req, length, parts, outcome, data, toHost, tag, card, missed>>
  BY DEF SendChunk
<1>6. CounterGap'
  BY <1>3, <1>4, <1>5, Numbers DEF IInv, CounterGap, card, IsProtected, NoCommand
<1>7. AirInv'
  BY <1>3, <1>4, <1>5 DEF AirInv
<1>8. RoomInv'
  BY <1>1, <1>3, <1>4, Numbers DEF RoomInv, IInv
<1>9. ChainInv' /\ AnswerInv' /\ OrderInv'
  BY <1>3, <1>4, <1>5
  DEF IInv, ChainInv, AnswerInv, OrderInv, Ran, AtMostOnce, WholeCommands, card
<1> QED
  BY <1>6, <1>7, <1>8, <1>9 DEF IInv

LEMMA SendLastInv == IInv /\ TypeOK' /\ SendLast => IInv'
<1> SUFFICES ASSUME IInv, TypeOK', SendLast PROVE IInv'
  OBVIOUS
<1>1. ssc + 4 < SscModulus
  BY Numbers DEF IInv, RoomInv, SendLast, FramesFor
<1>2. /\ ssc' = ssc + 2 /\ toCard' # NoCommand
      /\ IsProtected(toCard') /\ toCard'.ctr + 1 = ssc'
      /\ toCard'.kind = "command" /\ toCard'.last /\ toCard'.bytes = remaining
  <2>1. EncryptAndMac("command", remaining, TRUE) /\ TypeOK
    BY DEF SendLast, IInv
  <2>2. ssc + 2 < SscModulus /\ remaining \in Nat
    BY <1>1, <2>1, Numbers
  <2> QED
    BY <2>1, <2>2, EncryptFacts
<1>3. pc = "send" /\ pc' = "answer" /\ toCard = NoCommand /\ toHost = NoReply
  BY DEF IInv, SendLast, AirInv
<1>4. UNCHANGED <<req, length, remaining, parts, outcome, data, toHost, tag, card, missed>>
  BY DEF SendLast
<1>5. CounterGap'
  BY <1>2, <1>3, <1>4, Numbers DEF IInv, CounterGap, card, IsProtected, NoCommand
<1>6. AirInv'
  BY <1>2, <1>3, <1>4 DEF AirInv
<1>7. RoomInv'
  BY <1>1, <1>2, <1>3, Numbers DEF RoomInv, IInv
<1>8. ChainInv' /\ AnswerInv' /\ OrderInv'
  <2> toHost \notin Piece
    BY <1>3 DEF NoReply, Piece
  <2> QED
    BY <1>2, <1>3, <1>4
    DEF IInv, ChainInv, AnswerInv, OrderInv, Ran, AtMostOnce, WholeCommands, card
<1> QED
  BY <1>5, <1>6, <1>7, <1>8 DEF IInv

LEMMA ChunkAnsweredInv == IInv /\ TypeOK' /\ ChunkAnswered => IInv'
<1> SUFFICES ASSUME IInv, TypeOK', ChunkAnswered PROVE IInv'
  OBVIOUS
<1>1. toCard = NoCommand /\ ~IsProtected(toCard)
  BY DEF IInv, ChunkAnswered, AirInv, NoReply, Piece, StatusError, IsProtected, NoCommand
<1>2. pc = "chunk" /\ pc' = "send" /\ toHost' = NoReply
  BY DEF ChunkAnswered
<1>3. UNCHANGED <<req, length, remaining, parts, outcome, data, ssc, toCard, tag, card,
                  missed>>
  BY DEF ChunkAnswered
<1>4. CounterGap' /\ AirInv' /\ RoomInv'
  BY <1>1, <1>2, <1>3 DEF IInv, CounterGap, AirInv, RoomInv, IsProtected, card
<1>5. ChainInv' /\ AnswerInv' /\ OrderInv'
  BY <1>1, <1>2, <1>3
  DEF IInv, ChainInv, AnswerInv, OrderInv, Ran, AtMostOnce, WholeCommands, card
<1> QED
  BY <1>4, <1>5 DEF IInv

\* A call that ends when the APDU has come back keeps the invariant, if the data it
\* returns are those of this call.
LEMMA EndInv ==
  ASSUME IInv, TypeOK', pc' = "idle", toHost' = NoReply, toHost # NoReply,
         UNCHANGED <<req, length, remaining, ssc, toCard, tag, card, missed>>,
         outcome' = "data" => data' = req /\ Ran /\ missed = 0
  PROVE  IInv'
<1>1. toCard = NoCommand /\ ~IsProtected(toCard)
  BY DEF IInv, AirInv, IsProtected, NoCommand
<1>2. CounterGap' /\ AirInv' /\ RoomInv' /\ ChainInv' /\ OrderInv'
  BY <1>1 DEF IInv, CounterGap, AirInv, RoomInv, ChainInv, OrderInv, AtMostOnce,
              WholeCommands, IsProtected, card
<1>3. AnswerInv'
  BY DEF AnswerInv, Ran, card
<1> QED
  BY <1>2, <1>3 DEF IInv

\* The answer to the command, or to the unprotected GET RESPONSE, is the answer to
\* this call: the first piece came after the card had carried the call out.
LEMMA AnsweredInv == IInv /\ TypeOK' /\ Answered => IInv'
<1> SUFFICES ASSUME IInv, TypeOK', Answered PROVE IInv'
  OBVIOUS
<1> DEFINE ps == Append(parts, toHost)
<1>1. toHost \in Piece /\ toHost # NoReply
  BY ReplyKinds DEF Answered, IInv, NoReply
<1>2. /\ pc' = "idle" /\ toHost' = NoReply
      /\ UNCHANGED <<req, length, remaining, ssc, toCard, tag, card, missed>>
      /\ outcome' = "data" => data' = ps[1].req
  BY DEF Answered, DecryptAndVerify, Unverified, End
<1>3. ps[1] = IF parts = <<>> THEN toHost ELSE parts[1]
  BY <1>1, AppendFacts DEF IInv, TypeOK
<1>4. ps[1].req = req /\ Ran /\ missed = 0
  BY <1>1, <1>3 DEF Answered, IInv, AnswerInv
<1> QED
  BY <1>1, <1>2, <1>4, EndInv

LEMMA NestedAnsweredInv == IInv /\ TypeOK' /\ NestedAnswered => IInv'
<1> SUFFICES ASSUME IInv, TypeOK', NestedAnswered PROVE IInv'
  OBVIOUS
<1> DEFINE ps == Append(parts, toHost)
<1>1. toHost \in Piece /\ toHost # NoReply
  BY ReplyKinds DEF NestedAnswered, IInv, NoReply
<1>2. /\ pc' = "idle" /\ toHost' = NoReply
      /\ UNCHANGED <<req, length, remaining, ssc, toCard, tag, card, missed>>
      /\ outcome' = "data" => data' = ps[1].req
  BY DEF NestedAnswered, DecryptAndVerify, Unverified, End
<1>3. ps[1] = IF parts = <<>> THEN toHost ELSE parts[1]
  BY <1>1, AppendFacts DEF IInv, TypeOK
<1>4. ps[1].req = req /\ Ran /\ missed = 0
  BY <1>1, <1>3 DEF NestedAnswered, IInv, AnswerInv
<1> QED
  BY <1>1, <1>2, <1>4, EndInv

LEMMA ThrowInv == IInv /\ TypeOK' /\ (StatusThrown \/ TransceiveFailed) => IInv'
<1>1. ASSUME IInv, TypeOK', StatusThrown PROVE IInv'
  BY <1>1, EndInv DEF StatusThrown, End, StatusError, NoReply
<1>2. ASSUME IInv, TypeOK', TransceiveFailed PROVE IInv'
  BY <1>2, EndInv DEF TransceiveFailed, End, IOException, NoReply
<1> QED
  BY <1>1, <1>2

LEMMA AskForMoreInv == IInv /\ TypeOK' /\ AskForMore => IInv'
<1> SUFFICES ASSUME IInv, TypeOK', AskForMore PROVE IInv'
  OBVIOUS
<1>1. toHost \in Piece /\ toHost # NoReply
  BY ReplyKinds DEF AskForMore, IInv, NoReply
<1>2. /\ pc = "answer" /\ pc' = "more" /\ toHost' = NoReply /\ toCard = NoCommand
      /\ toCard' = PlainGetResponse
      /\ ~IsProtected(toCard) /\ ~IsProtected(toCard')
      /\ UNCHANGED <<req, length, remaining, outcome, data, ssc, tag, card, missed>>
  BY <1>1 DEF AskForMore, IInv, AirInv, IsProtected, NoCommand, PlainGetResponse
<1>3. parts' = Append(parts, toHost) /\ parts = <<>>
  BY <1>2 DEF AskForMore, IInv, AnswerInv
<1>4. parts' # <<>> /\ parts'[1] = toHost
  BY <1>1, <1>3, AppendFacts DEF IInv, TypeOK
<1>5. CounterGap' /\ AirInv' /\ RoomInv'
  BY <1>2 DEF IInv, CounterGap, AirInv, RoomInv, IsProtected, card
<1>6. ChainInv' /\ AnswerInv' /\ OrderInv'
  BY <1>1, <1>2, <1>4
  DEF IInv, ChainInv, AnswerInv, OrderInv, Ran, AtMostOnce, WholeCommands, card
<1> QED
  BY <1>5, <1>6 DEF IInv

LEMMA AskAgainInv == IInv /\ TypeOK' /\ AskAgain => IInv'
<1> SUFFICES ASSUME IInv, TypeOK', AskAgain PROVE IInv'
  OBVIOUS
<1>1. toHost \in Piece /\ toHost # NoReply
  BY ReplyKinds DEF AskAgain, IInv, NoReply
<1>2. /\ pc = "more" /\ pc' = "nested" /\ toHost' = NoReply /\ toCard = NoCommand
      /\ ~IsProtected(toCard)
      /\ UNCHANGED <<req, length, remaining, outcome, data, tag, card, missed>>
  BY <1>1 DEF AskAgain, IInv, AirInv, IsProtected, NoCommand
<1>3. /\ ssc' = ssc + 2 /\ toCard' # NoCommand /\ IsProtected(toCard')
      /\ toCard'.ctr + 1 = ssc' /\ toCard'.kind = "getResponse"
  BY <1>2, EncryptFacts DEF AskAgain, IInv, RoomInv
<1>4. parts' # <<>> /\ parts'[1] = parts[1]
  <2>1. parts \in Seq(Piece) /\ parts # <<>>
    BY <1>2 DEF IInv, TypeOK, AnswerInv
  <2>2. parts' = Append(parts, toHost)
    BY DEF AskAgain
  <2> QED
    BY <1>1, <2>1, <2>2, AppendFacts
<1>5. CounterGap'
  BY <1>2, <1>3, Numbers DEF IInv, CounterGap, card
<1>6. AirInv' /\ RoomInv'
  BY <1>2, <1>3 DEF AirInv, RoomInv
<1>7. ChainInv' /\ AnswerInv' /\ OrderInv'
  <2> toHost' \notin Piece
    BY <1>2 DEF NoReply, Piece
  <2>1. ChainInv'
    BY <1>2, <1>3 DEF IInv, ChainInv, card
  <2>2. AnswerInv'
    BY <1>2, <1>4 DEF IInv, AnswerInv, Ran, card
  <2>3. OrderInv'
    BY <1>2 DEF IInv, OrderInv, AtMostOnce, WholeCommands, card
  <2> QED
    BY <2>1, <2>2, <2>3
<1> QED
  BY <1>5, <1>6, <1>7 DEF IInv

\* A command that authenticates is the whole call, and the card has not carried it
\* out before.
LEMMA AuthenticCommand ==
  ASSUME IInv, toCard.kind = "command", Authentic(toCard), CardCounts
  PROVE  /\ pc = "answer" /\ toCard.last /\ buffer + toCard.bytes = length
         /\ missed = 0 /\ cardSsc' = ssc /\ toCard # NoCommand
         /\ IsProtected(toCard)
         /\ \A i \in DOMAIN executed : executed[i].req < req
<1>1. IsProtected(toCard) /\ toCard # NoCommand
  BY DEF IsProtected, NoCommand
<1>2. missed = 0 /\ cardSsc' = ssc /\ toCard.fits
  BY <1>1, AuthenticFacts
<1>3. pc = "answer"
  BY <1>1, <1>2 DEF IInv, AirInv
<1>4. toCard.last /\ toCard.bytes = remaining
  BY <1>1, <1>3 DEF IInv, AirInv
<1>5. remaining = length /\ buffer = 0
  BY <1>2, <1>3 DEF IInv, ChainInv
<1>6. length \in Nat
  BY Numbers DEF IInv
<1>7. \A i \in DOMAIN executed : executed[i].req < req
  BY <1>1, <1>3 DEF IInv, OrderInv
<1> QED
  BY <1>1, <1>2, <1>3, <1>4, <1>5, <1>6, <1>7

\* When the card carries out the open call, its history stays in order and whole.
LEMMA HistoryGrows ==
  ASSUME IInv, toHost' # NoReply, toCard' = NoCommand, pc = "answer",
         UNCHANGED <<pc, req, length>>,
         \A i \in DOMAIN executed : executed[i].req < req,
         executed' = Append(executed, [req |-> req, bytes |-> length])
  PROVE  Ran' /\ OrderInv'
<1> DEFINE e == [req |-> req, bytes |-> length]
           S == [req : Nat, bytes : Nat]
<1>1. executed \in Seq(S) /\ e \in S
  BY DEF IInv, TypeOK
<1>2. /\ executed' # <<>>
      /\ Len(executed') = Len(executed) + 1
      /\ executed'[Len(executed')] = e
      /\ \A i \in 1 .. Len(executed) : executed'[i] = executed[i]
      /\ executed' \in Seq(S)
  BY <1>1, AppendFacts
<1>3. /\ Len(executed) \in Nat /\ DOMAIN executed = 1 .. Len(executed)
      /\ \A i \in DOMAIN executed : executed[i].req \in Nat
  BY History DEF IInv
<1>4. DOMAIN executed' = 1 .. Len(executed) + 1
  BY <1>2, LenProperties
<1>5. \A i \in DOMAIN executed' :
         \/ i \in DOMAIN executed /\ executed'[i] = executed[i]
         \/ i = Len(executed) + 1 /\ executed'[i] = e
  BY <1>2, <1>3, <1>4
<1>6. req \in Nat /\ e.req = req /\ e.bytes = length
  BY Numbers DEF IInv
<1> HIDE DEF e, S
<1>7. Ran'
  <2>1. e = [req |-> req', bytes |-> length']
    BY DEF e
  <2> QED
    BY <1>2, <2>1 DEF Ran
<1>8. \A i \in DOMAIN executed' : executed'[i].req <= req
  BY <1>3, <1>5, <1>6
<1>9. AtMostOnce'
  <2> SUFFICES ASSUME NEW i \in DOMAIN executed', NEW j \in DOMAIN executed', i < j
               PROVE  executed'[i].req < executed'[j].req
    BY DEF AtMostOnce
  <2>1. i \in DOMAIN executed /\ executed'[i] = executed[i]
    BY <1>3, <1>4, <1>5
  <2>2. CASE j \in DOMAIN executed
    BY <1>2, <1>3, <2>1, <2>2 DEF IInv, OrderInv, AtMostOnce
  <2>3. CASE j = Len(executed) + 1
    BY <1>2, <1>6, <2>1, <2>3
  <2> QED
    BY <1>5, <2>2, <2>3
<1>10. WholeCommands'
  <2> SUFFICES ASSUME NEW i \in DOMAIN executed', executed'[i].req = req
               PROVE  executed'[i].bytes = length
    BY DEF WholeCommands
  <2>1. i \notin DOMAIN executed
    BY <1>2, <1>3, <1>6
  <2> QED
    BY <1>5, <1>6, <2>1
<1> QED
  BY <1>7, <1>8, <1>9, <1>10 DEF OrderInv

LEMMA CardExecutesInv ==
  ASSUME IInv, TypeOK', NEW k \in 1 .. MaxSegments, CardExecutes(k)
  PROVE  IInv'
<1>1. /\ pc = "answer" /\ toCard.last /\ buffer + toCard.bytes = length
      /\ missed = 0 /\ cardSsc' = ssc /\ toCard # NoCommand /\ IsProtected(toCard)
      /\ \A i \in DOMAIN executed : executed[i].req < req
  BY AuthenticCommand DEF CardExecutes
<1>2. /\ toCard' = NoCommand /\ ~IsProtected(toCard')
      /\ UNCHANGED <<pc, req, length, remaining, parts, outcome, data, ssc, missed>>
      /\ buffer' = 0
      /\ executed' = Append(executed, [req |-> req, bytes |-> length])
  BY <1>1 DEF CardExecutes, Collect, host, IsProtected, NoCommand
<1>3. toHost' # NoReply /\ toHost'.req = req
  BY DEF CardExecutes, PieceOf, NoReply
<1>4. CounterGap' /\ AirInv' /\ RoomInv' /\ ChainInv'
  BY <1>1, <1>2, <1>3, Numbers DEF IInv, CounterGap, AirInv, RoomInv, ChainInv
<1>5. Ran' /\ OrderInv'
  BY <1>1, <1>2, <1>3, HistoryGrows
<1>6. AnswerInv'
  BY <1>1, <1>2, <1>3, <1>5 DEF IInv, AnswerInv
<1> QED
  BY <1>4, <1>5, <1>6 DEF IInv

LEMMA CardFailsInv == IInv /\ TypeOK' /\ CardFails => IInv'
<1> SUFFICES ASSUME IInv, TypeOK', CardFails PROVE IInv'
  OBVIOUS
<1>1. /\ pc = "answer" /\ toCard.last /\ buffer + toCard.bytes = length
      /\ missed = 0 /\ cardSsc' = ssc /\ toCard # NoCommand /\ IsProtected(toCard)
      /\ \A i \in DOMAIN executed : executed[i].req < req
  BY AuthenticCommand DEF CardFails
<1>2. /\ toCard' = NoCommand /\ ~IsProtected(toCard')
      /\ UNCHANGED <<pc, req, length, remaining, parts, outcome, data, ssc, missed>>
      /\ buffer' = 0
      /\ executed' = Append(executed, [req |-> req, bytes |-> length])
  BY <1>1 DEF CardFails, host, IsProtected, NoCommand
<1>3. toHost' # NoReply /\ toHost' \notin Piece
  BY DEF CardFails, StatusError, NoReply, Piece
<1>4. CounterGap' /\ AirInv' /\ RoomInv' /\ ChainInv'
  BY <1>1, <1>2, <1>3, Numbers DEF IInv, CounterGap, AirInv, RoomInv, ChainInv
<1>5. Ran' /\ OrderInv'
  BY <1>1, <1>2, <1>3, HistoryGrows
<1>6. AnswerInv'
  BY <1>1, <1>2, <1>3, <1>5 DEF IInv, AnswerInv
<1> QED
  BY <1>4, <1>5, <1>6 DEF IInv

\* A protected C-APDU that is not authenticated leaves nothing to answer the call
\* with, whether the card rejects it or never gets it.
LEMMA MissedInv ==
  ASSUME IInv, TypeOK', IsProtected(toCard), toCard' = NoCommand, toHost' # NoReply,
         toHost' \notin Piece, missed' = missed + 1, buffer' = 0,
         UNCHANGED <<pc, req, length, remaining, parts, outcome, data, ssc, cardSsc,
                     executed>>
  PROVE  IInv'
<1>1. /\ pc \in {"chunk", "answer", "nested"} /\ toCard # NoCommand
      /\ ~IsProtected(toCard')
  BY DEF IInv, AirInv, IsProtected, NoCommand
<1>2. CounterGap' /\ AirInv' /\ RoomInv' /\ ChainInv'
  BY <1>1, Numbers DEF IInv, CounterGap, AirInv, RoomInv, ChainInv
<1>3. AnswerInv' /\ OrderInv'
  BY <1>1 DEF IInv, AnswerInv, OrderInv, Ran, AtMostOnce, WholeCommands
<1> QED
  BY <1>2, <1>3 DEF IInv

LEMMA CardRejectsInv == IInv /\ TypeOK' /\ CardRejects => IInv'
<1> SUFFICES ASSUME IInv, TypeOK', CardRejects PROVE IInv'
  OBVIOUS
<1>1. /\ IsProtected(toCard) /\ toCard' = NoCommand /\ toHost' = StatusError
      /\ missed' = missed + 1 /\ buffer' = 0
      /\ UNCHANGED <<pc, req, length, remaining, parts, outcome, data, ssc, cardSsc,
                     executed>>
  BY DEF CardRejects, host
<1>2. toHost' # NoReply /\ toHost' \notin Piece
  BY <1>1 DEF StatusError, NoReply, Piece
<1> QED
  BY <1>1, <1>2, MissedInv

LEMMA CardGivesMoreInv == IInv /\ TypeOK' /\ CardGivesMore => IInv'
<1> SUFFICES ASSUME IInv, TypeOK', CardGivesMore PROVE IInv'
  OBVIOUS
<1>1. /\ toCard # NoCommand /\ ~IsProtected(toCard)
      /\ toCard' = NoCommand /\ ~IsProtected(toCard')
  BY DEF CardGivesMore, IsProtected, NoCommand
<1>2. pc = "more"
  BY <1>1 DEF IInv, TypeOK, AirInv
<1>3. /\ toHost' # NoReply
      /\ UNCHANGED <<pc, req, length, remaining, parts, outcome, data, ssc, cardSsc,
                     buffer, executed, missed>>
  BY DEF CardGivesMore, PieceOf, NoReply, host
<1>4. CounterGap' /\ AirInv' /\ RoomInv' /\ ChainInv'
  BY <1>1, <1>2, <1>3 DEF IInv, CounterGap, AirInv, RoomInv, ChainInv
<1>5. AnswerInv' /\ OrderInv'
  BY <1>1, <1>2, <1>3 DEF IInv, AnswerInv, OrderInv, Ran, AtMostOnce, WholeCommands
<1> QED
  BY <1>4, <1>5 DEF IInv

LEMMA CardAnswersProtectedInv == IInv /\ TypeOK' /\ CardAnswersProtected => IInv'
<1> SUFFICES ASSUME IInv, TypeOK', CardAnswersProtected PROVE IInv'
  OBVIOUS
<1>1. /\ IsProtected(toCard) /\ toCard # NoCommand
      /\ toCard' = NoCommand /\ ~IsProtected(toCard')
  BY DEF CardAnswersProtected, IsProtected, NoCommand
<1>2. missed = 0 /\ cardSsc' = ssc
  BY <1>1, AuthenticFacts DEF CardAnswersProtected
<1>3. pc = "nested"
  BY <1>1 DEF CardAnswersProtected, IInv, AirInv
<1>4. /\ toHost' # NoReply
      /\ UNCHANGED <<pc, req, length, remaining, parts, outcome, data, ssc, buffer,
                     executed, missed>>
  BY DEF CardAnswersProtected, PieceOf, StatusError, NoReply, host
<1>5. CounterGap' /\ AirInv' /\ RoomInv' /\ ChainInv'
  BY <1>1, <1>2, <1>3, <1>4, Numbers DEF IInv, CounterGap, AirInv, RoomInv, ChainInv
<1>6. AnswerInv' /\ OrderInv'
  BY <1>1, <1>2, <1>3, <1>4 DEF IInv, AnswerInv, OrderInv, Ran, AtMostOnce, WholeCommands
<1> QED
  BY <1>5, <1>6 DEF IInv

LEMMA LoseCommandInv == IInv /\ TypeOK' /\ LoseCommand => IInv'
<1> SUFFICES ASSUME IInv, TypeOK', LoseCommand PROVE IInv'
  OBVIOUS
<1>1. /\ toCard # NoCommand /\ toCard' = NoCommand /\ ~IsProtected(toCard')
      /\ toHost' # NoReply /\ toHost' \notin Piece
      /\ UNCHANGED <<pc, req, length, remaining, parts, outcome, data, ssc, cardSsc,
                     buffer, executed>>
  BY DEF LoseCommand, host, card, IOException, NoReply, Piece, IsProtected, NoCommand
<1>2. CASE IsProtected(toCard)
  BY <1>1, <1>2, MissedInv DEF LoseCommand, IInv, ChainInv
<1>3. CASE ~IsProtected(toCard)
  <2>1. missed' = missed
    BY <1>3 DEF LoseCommand
  <2>2. pc = "more"
    BY <1>1, <1>3 DEF IInv, TypeOK, AirInv
  <2>3. CounterGap' /\ AirInv' /\ RoomInv' /\ ChainInv'
    BY <1>1, <1>3, <2>1, <2>2 DEF IInv, CounterGap, AirInv, RoomInv, ChainInv
  <2>4. AnswerInv' /\ OrderInv'
    BY <1>1, <2>1, <2>2 DEF IInv, AnswerInv, OrderInv, Ran, AtMostOnce, WholeCommands
  <2> QED
    BY <2>3, <2>4 DEF IInv
<1> QED
  BY <1>2, <1>3

\* The other steps of the link change neither a C-APDU nor the call.
LEMMA LinkInv == IInv /\ TypeOK' /\ (LoseReply \/ Damage \/ TagLost) => IInv'
<1> SUFFICES ASSUME IInv, TypeOK', LoseReply \/ Damage \/ TagLost PROVE IInv'
  OBVIOUS
<1>1. UNCHANGED <<pc, req, length, remaining, parts, outcome, data, ssc, toCard,
                  cardSsc, executed, missed>>
  BY DEF LoseReply, Damage, TagLost, host, card
<1>2. /\ toHost' \in Piece => toHost \in Piece /\ toHost'.req = toHost.req
      /\ toHost' = NoReply <=> toHost = NoReply
  BY DEF LoseReply, Damage, TagLost, Piece, StatusError, IOException, NoReply
<1>3. buffer' = 0
  BY DEF LoseReply, Damage, TagLost, card, IInv, ChainInv
<1>4. CounterGap' /\ AirInv' /\ RoomInv' /\ ChainInv'
  BY <1>1, <1>2, <1>3 DEF IInv, CounterGap, AirInv, RoomInv, ChainInv
<1>5. AnswerInv' /\ OrderInv'
  BY <1>1, <1>2 DEF IInv, AnswerInv, OrderInv, Ran, AtMostOnce, WholeCommands
<1> QED
  BY <1>4, <1>5 DEF IInv

LEMMA Inductive == IInv /\ [Next]_vars => IInv'
<1> SUFFICES ASSUME IInv, [Next]_vars PROVE IInv'
  OBVIOUS
<1>1. TypeOK'
  BY TypeStep DEF IInv
<1>2. CASE UNCHANGED vars
  BY <1>1, <1>2
  DEF vars, host, card, IInv, CounterGap, AirInv, RoomInv, ChainInv, AnswerInv, OrderInv,
      Ran, AtMostOnce, WholeCommands
<1>3. CASE \E n \in DataLengths : Transmit(n)
  BY <1>1, <1>3, TransmitInv
<1>4. CASE Host
  BY <1>1, <1>4, SendChunkInv, SendLastInv, ChunkAnsweredInv, AnsweredInv, AskForMoreInv,
     AskAgainInv, NestedAnsweredInv, ThrowInv DEF Host
<1>5. CASE Card
  BY <1>1, <1>5, CardExecutesInv, CardFailsInv, CardRejectsInv, CardGivesMoreInv,
     CardAnswersProtectedInv DEF Card
<1>6. CASE LoseCommand \/ LoseReply \/ Damage \/ TagLost
  BY <1>1, <1>6, LoseCommandInv, LinkInv
<1> QED
  BY <1>2, <1>3, <1>4, <1>5, <1>6 DEF Next

LEMMA Invariance == Spec => []IInv
BY InitInv, Inductive, PTL DEF Spec

-----------------------------------------------------------------------------
(* The theorems *)

\* The two counters differ by exactly the C-APDUs the card has missed.
THEOREM CounterGapHolds == Spec => []CounterGap
<1>1. IInv => CounterGap
  BY DEF IInv
<1> QED
  BY <1>1, Invariance, PTL

\* transmit returns the answer to its own command, carried out with all its data.
THEOREM AnswersTheCallHolds == Spec => []AnswersTheCall
<1>1. IInv => AnswersTheCall
  BY DEF IInv, AnswerInv, AnswersTheCall, Ran
<1> QED
  BY <1>1, Invariance, PTL

\* After one missed C-APDU no call returns data.
THEOREM OneMissEndsTheChannelHolds == Spec => []OneMissEndsTheChannel
<1>1. IInv => OneMissEndsTheChannel
  BY DEF IInv, AnswerInv, OneMissEndsTheChannel
<1> QED
  BY <1>1, Invariance, PTL

\* The card carries out each call at most once, in the order of the calls, and the
\* open one with all its data.
THEOREM ExecutionHolds == Spec => [](AtMostOnce /\ WholeCommands)
<1>1. IInv => AtMostOnce /\ WholeCommands
  BY DEF IInv, OrderInv
<1> QED
  BY <1>1, Invariance, PTL

-----------------------------------------------------------------------------
(* No counter is used twice *)

\* Every counter used so far is below the reader's, or is the card's and equal to it
\* after an answer; a C-APDU in the air is the last thing that used one.
UsedInv ==
  /\ \A i \in DOMAIN used : used[i] <= ssc
  /\ IsProtected(toCard) => \A i \in DOMAIN used : used[i] < ssc
  /\ FreshCounters

\* A counter above all that were used is fresh.
LEMMA FreshAppended ==
  ASSUME TypeOK, FreshCounters, NEW c \in Counters, used' = Append(used, c),
         \A i \in DOMAIN used : used[i] < c
  PROVE  FreshCounters' /\ (\A i \in DOMAIN used' : used'[i] <= c)
<1>1. used \in Seq(Counters)
  BY DEF TypeOK
<1>2. /\ Len(used) \in Nat /\ DOMAIN used = 1 .. Len(used)
      /\ DOMAIN used' = 1 .. Len(used) + 1
      /\ used'[Len(used) + 1] = c
      /\ \A i \in 1 .. Len(used) : used'[i] = used[i]
  BY <1>1, AppendProperties, LenProperties
<1>3. c \in Nat /\ \A i \in DOMAIN used : used[i] \in Nat
  BY <1>1, <1>2, LenProperties DEF Counters
<1>4. \A i \in DOMAIN used' : (i \in DOMAIN used /\ used'[i] = used[i]) \/ i = Len(used) + 1
  BY <1>2
<1>5. \A i \in DOMAIN used' : used'[i] <= c
  BY <1>2, <1>3, <1>4
<1>6. FreshCounters'
  <2> SUFFICES ASSUME NEW i \in DOMAIN used', NEW j \in DOMAIN used', i < j
               PROVE  used'[i] # used'[j]
    BY DEF FreshCounters
  <2>1. i \in DOMAIN used /\ used'[i] = used[i]
    BY <1>2, <1>4
  <2>2. CASE j \in DOMAIN used
    BY <1>2, <2>1, <2>2 DEF FreshCounters
  <2>3. CASE j = Len(used) + 1
    BY <1>2, <1>3, <2>1, <2>3
  <2> QED
    BY <1>4, <2>2, <2>3
<1> QED
  BY <1>5, <1>6

\* encryptAndMac takes a counter above all that were used, and leaves the next for the
\* response.
LEMMA EncryptUsed ==
  ASSUME TypeOK, UsedInv, ssc + 2 < SscModulus, NEW kind, NEW n, NEW last,
         EncryptAndMac(kind, n, last)
  PROVE  UsedInv'
<1>1. IncrementSSC(ssc) = ssc + 1 /\ IncrementSSC(ssc + 1) = ssc + 2
  BY Numbers, IncrementAddsOne
<1>2. ssc' = ssc + 2 /\ used' = Append(used, ssc + 1) /\ ssc + 1 \in Counters
  BY <1>1, Numbers DEF EncryptAndMac, Counters
<1>3. \A i \in DOMAIN used : used[i] < ssc + 1
  <2>1. used \in Seq(Counters) /\ \A i \in DOMAIN used : used[i] \in Nat
    BY LenProperties DEF TypeOK, Counters
  <2> QED
    BY <2>1, Numbers DEF UsedInv
<1>4. FreshCounters' /\ (\A i \in DOMAIN used' : used'[i] <= ssc + 1)
  BY <1>2, <1>3, FreshAppended DEF UsedInv
<1>5. used' \in Seq(Counters)
  BY <1>2, AppendProperties DEF TypeOK
<1>6. \A i \in DOMAIN used' : used'[i] \in Nat
  BY <1>5, LenProperties DEF Counters
<1> QED
  BY <1>2, <1>4, <1>6, Numbers DEF UsedInv

\* The counter of the card's answer is the one that encryptAndMac left for it.
LEMMA AnswerUsed ==
  ASSUME IInv, UsedInv, IsProtected(toCard), Authentic(toCard), CardCounts,
         toCard' = NoCommand, UNCHANGED ssc
  PROVE  UsedInv'
<1>1. cardSsc' = ssc /\ used' = Append(used, ssc) /\ ssc \in Counters /\ TypeOK
  BY AuthenticFacts DEF CardCounts, IInv, TypeOK
<1>2. FreshCounters' /\ (\A i \in DOMAIN used' : used'[i] <= ssc)
  BY <1>1, FreshAppended DEF UsedInv
<1> QED
  BY <1>2 DEF UsedInv, IsProtected, NoCommand

\* No counter protects two APDUs, on whichever side.
THEOREM FreshCountersHold == Spec => []FreshCounters
<1>1. Init => UsedInv
  BY DEF Init, UsedInv, FreshCounters
<1>2. ASSUME IInv, UsedInv, [Next]_vars PROVE UsedInv'
  <2> USE <1>2
  <2>0. TypeOK
    BY DEF IInv
  <2>1. CASE SendChunk
    <3>1. ssc + 2 < SscModulus
      BY <2>1, Numbers DEF IInv, RoomInv, SendChunk, FramesFor, TypeOK
    <3> QED
      BY <2>0, <2>1, <3>1, EncryptUsed DEF SendChunk
  <2>2. CASE SendLast
    <3>1. ssc + 2 < SscModulus
      BY <2>2, Numbers DEF IInv, RoomInv, SendLast, FramesFor
    <3> QED
      BY <2>0, <2>2, <3>1, EncryptUsed DEF SendLast
  <2>3. CASE AskAgain
    <3>1. ssc + 2 < SscModulus
      BY <2>3 DEF IInv, RoomInv, AskAgain
    <3> QED
      BY <2>0, <2>3, <3>1, EncryptUsed DEF AskAgain
  <2>4. ASSUME NEW k \in 1 .. MaxSegments, CardExecutes(k) PROVE UsedInv'
    BY <2>4, AnswerUsed DEF CardExecutes, IsProtected
  <2>5. CASE CardFails
    BY <2>5, AnswerUsed DEF CardFails, IsProtected
  <2>6. CASE CardAnswersProtected
    BY <2>6, AnswerUsed DEF CardAnswersProtected, IsProtected
  <2>7. ASSUME UNCHANGED <<ssc, used>>, IsProtected(toCard') => toCard' = toCard
        PROVE  UsedInv'
    BY <2>7 DEF UsedInv, FreshCounters
  <2>8. CASE AskForMore
    BY <2>7, <2>8 DEF AskForMore, IsProtected, PlainGetResponse
  <2>9. CASE ChunkAnswered \/ Answered \/ NestedAnswered \/ StatusThrown \/ TransceiveFailed
    BY <2>7, <2>9
    DEF ChunkAnswered, Answered, NestedAnswered, StatusThrown, TransceiveFailed
  <2>10. CASE CardRejects \/ CardGivesMore
    <3>1. toCard' = NoCommand /\ UNCHANGED <<ssc, used>>
      BY <2>10 DEF CardRejects, CardGivesMore
    <3>2. ~IsProtected(toCard')
      BY <3>1 DEF IsProtected, NoCommand
    <3> QED
      BY <2>7, <3>1, <3>2
  <2>11. CASE LoseCommand \/ LoseReply \/ Damage \/ TagLost
    BY <2>7, <2>11 DEF LoseCommand, LoseReply, Damage, TagLost, IsProtected, NoCommand
  <2>12. ASSUME NEW n \in DataLengths, Transmit(n) PROVE UsedInv'
    BY <2>7, <2>12 DEF Transmit
  <2>13. CASE UNCHANGED vars
    BY <2>7, <2>13 DEF vars
  <2> QED
    BY <2>1, <2>2, <2>3, <2>4, <2>5, <2>6, <2>8, <2>9, <2>10, <2>11, <2>12, <2>13
    DEF Next, Host, Card
<1>3. UsedInv => FreshCounters
  BY DEF UsedInv
<1> QED
  BY <1>1, <1>2, <1>3, Invariance, PTL DEF Spec

-----------------------------------------------------------------------------
(* Why decryptAndVerify fails *)

\* The pieces that the unprotected part of the protocol puts together are those of one
\* response, in their order, under the counter as it is now.
PieceInv ==
  /\ pc = "answer" /\ toHost \in Piece =>
       /\ toHost.part = 1 /\ toHost.ctr = ssc
       /\ toHost.sw = "9000" => toHost.of = 1
       /\ pending # NoPending =>
            pending.part = 2 /\ pending.of = toHost.of /\ pending.ctr = ssc
  /\ pc = "more" =>
       /\ Len(parts) = 1 /\ parts[1].part = 1 /\ parts[1].ctr = ssc
       /\ toCard # NoCommand /\ pending # NoPending =>
            pending.part = 2 /\ pending.of = parts[1].of /\ pending.ctr = ssc
       /\ toHost \in Piece /\ toHost.sw = "9000" =>
            toHost.part = 2 /\ toHost.of = 2 /\ parts[1].of = 2 /\ toHost.ctr = ssc
  /\ pc = "nested" => Len(parts) >= 2
  /\ MacFailureMeansDamage

LEMMA PieceInitially == Init => PieceInv
BY DEF Init, PieceInv, MacFailureMeansDamage

\* A response that is in order, and does not verify, was damaged.
LEMMA AnsweredPieces == ASSUME IInv, PieceInv, Answered PROVE PieceInv'
<1> DEFINE ps == Append(parts, toHost)
<1>1. toHost \in Piece /\ parts \in Seq(Piece) /\ TypeOK
  BY ReplyKinds DEF IInv, TypeOK, Answered
<1>2. /\ Len(ps) = Len(parts) + 1 /\ ps[Len(ps)] = toHost /\ Len(parts) \in Nat
      /\ \A i \in 1 .. Len(parts) : ps[i] = parts[i]
      /\ DOMAIN ps = 1 .. Len(ps)
  <2>1. ps \in Seq(Piece)
    BY <1>1, AppendFacts
  <2> QED
    BY <1>1, <2>1, AppendFacts, LenProperties
<1>3. \A i \in DOMAIN ps : ps[i].part = i /\ ps[i].of = Len(ps) /\ ps[i].ctr = ssc
  <2>1. CASE pc = "answer"
    <3>1. parts = <<>>
      BY <2>1 DEF IInv, AnswerInv
    <3>2. Len(ps) = 1 /\ ps[1] = toHost
      BY <1>2, <3>1
    <3> QED
      BY <1>1, <1>2, <2>1, <3>2 DEF PieceInv, Answered
  <2>2. CASE pc = "more"
    <3>3. Len(parts) = 1
      BY <2>2 DEF PieceInv
    <3> HIDE DEF ps
    <3>1. Len(ps) = 2 /\ ps[1] = parts[1] /\ ps[2] = toHost
      BY <1>2, <3>3
    <3>4. DOMAIN ps = 1 .. 2
      BY <1>2, <3>1
    <3>2. \A i \in DOMAIN ps : i = 1 \/ i = 2
      BY <3>4
    <3> QED
      BY <1>1, <2>2, <3>1, <3>2 DEF PieceInv, Answered
  <2> QED
    BY <2>1, <2>2 DEF Answered
<1>4. pc' = "idle" /\ parts' = ps /\ outcome' \in {"data", "runtime", "malformed"}
      /\ (outcome' # "data" => ~Verified(ps))
  BY DEF Answered, DecryptAndVerify, Unverified, End
<1>5. ~Verified(ps) => \E i \in DOMAIN ps : ~ps[i].intact
  BY <1>3 DEF Verified
<1> QED
  BY <1>4, <1>5 DEF PieceInv, MacFailureMeansDamage

LEMMA NestedPieces == ASSUME IInv, PieceInv, NestedAnswered PROVE PieceInv'
<1>1. toHost \in Piece /\ parts \in Seq(Piece)
  BY ReplyKinds DEF IInv, TypeOK, NestedAnswered
<1>2. Len(Append(parts, toHost)) > 2
  BY <1>1, AppendFacts, LenProperties DEF PieceInv, NestedAnswered
<1>3. pc' = "idle" /\ parts' = Append(parts, toHost)
  BY DEF NestedAnswered, DecryptAndVerify, Unverified, End
<1> QED
  BY <1>2, <1>3 DEF PieceInv, MacFailureMeansDamage

LEMMA AskPieces == ASSUME IInv, PieceInv, AskForMore \/ AskAgain PROVE PieceInv'
<1>1. toHost \in Piece /\ parts \in Seq(Piece)
  BY ReplyKinds DEF IInv, TypeOK, AskForMore, AskAgain
<1>2. /\ parts' = Append(parts, toHost) /\ toHost' = NoReply
      /\ outcome' = outcome
  BY DEF AskForMore, AskAgain
<1>7. /\ Len(parts') = Len(parts) + 1 /\ parts'[Len(parts')] = toHost
      /\ Len(parts) \in Nat
  BY <1>1, <1>2, AppendFacts, LenProperties
<1>3. pc # "idle" /\ outcome = "none"
  BY DEF AskForMore, AskAgain, IInv, AnswerInv
<1>4. NoReply \notin Piece
  BY DEF NoReply, Piece
<1>5. CASE AskForMore
  <2>1. parts = <<>> /\ Len(parts') = 1 /\ parts'[1] = toHost
    BY <1>2, <1>5, <1>7 DEF AskForMore, IInv, AnswerInv
  <2>2. pc = "answer" /\ pc' = "more" /\ UNCHANGED <<ssc, pending>>
    BY <1>5 DEF AskForMore, card
  <2> QED
    BY <1>1, <1>2, <1>3, <1>4, <2>1, <2>2 DEF PieceInv, MacFailureMeansDamage
<1>6. CASE AskAgain
  <2>1. pc' = "nested" /\ outcome' = "none"
    BY <1>2, <1>3, <1>6 DEF AskAgain
  <2>2. Len(parts) = 1
    BY <1>6 DEF AskAgain, PieceInv
  <2> QED
    BY <1>7, <2>1, <2>2 DEF PieceInv, MacFailureMeansDamage
<1> QED
  BY <1>5, <1>6

\* Transmit, and the steps that send a C-APDU or throw.
LEMMA OtherHostPieces ==
  ASSUME IInv, PieceInv,
         \/ \E n \in DataLengths : Transmit(n)
         \/ SendChunk \/ SendLast \/ ChunkAnswered \/ StatusThrown \/ TransceiveFailed
  PROVE  PieceInv'
<1>1. toHost' \notin Piece
  <2>1. pc \in {"idle", "send"} => toHost = NoReply
    BY DEF IInv, AirInv
  <2>2. toHost' = NoReply
    BY <2>1 DEF Transmit, SendChunk, SendLast, ChunkAnswered, StatusThrown, TransceiveFailed, End
  <2> QED
    BY <2>2 DEF NoReply, Piece
<1>2. /\ pc' \notin {"more", "nested"} /\ outcome' \notin {"runtime", "malformed"}
  BY DEF Transmit, SendChunk, SendLast, ChunkAnswered, StatusThrown, TransceiveFailed, End,
         IInv, AnswerInv
<1> QED
  BY <1>1, <1>2 DEF PieceInv, MacFailureMeansDamage

LEMMA CardPieces == ASSUME IInv, PieceInv, Card PROVE PieceInv'
<1>1. UNCHANGED <<pc, parts, outcome, ssc>> /\ toCard # NoCommand /\ toCard' = NoCommand
  <2>1. UNCHANGED <<pc, parts, outcome, ssc>> /\ toCard' = NoCommand
    BY DEF Card, CardExecutes, CardFails, CardRejects, CardGivesMore, CardAnswersProtected, host
  <2>2. toCard.kind \in {"command", "getResponse", "plain"}
    BY DEF Card, CardExecutes, CardFails, CardRejects, CardGivesMore, CardAnswersProtected,
           IsProtected
  <2> QED
    BY <2>1, <2>2 DEF NoCommand
<1>2. MacFailureMeansDamage' /\ (pc' = "nested" => Len(parts') >= 2)
  BY <1>1 DEF PieceInv, MacFailureMeansDamage
<1>3. ASSUME NEW k \in 1 .. MaxSegments, CardExecutes(k) PROVE PieceInv'
  <2>1. IsProtected(toCard) /\ toCard.kind = "command" /\ pc \notin {"more", "nested"}
    BY <1>3 DEF CardExecutes, IsProtected, IInv, AirInv
  <2>2. cardSsc' = ssc
    BY <1>3, <2>1, AuthenticFacts DEF CardExecutes
  <2>3. toHost' = PieceOf(1, k, req, ssc) /\ pending' = Rest(1, k, req, ssc)
    BY <1>3, <2>2 DEF CardExecutes
  <2>4. /\ toHost'.part = 1 /\ toHost'.ctr = ssc /\ toHost'.of = k
        /\ toHost'.sw = "9000" => k = 1
    BY <2>3 DEF PieceOf
  <2>5. pending' # NoPending => pending'.part = 2 /\ pending'.of = k /\ pending'.ctr = ssc
    BY <2>3 DEF Rest
  <2> QED
    BY <1>1, <1>2, <2>1, <2>4, <2>5 DEF PieceInv
<1>4. CASE CardGivesMore
  <2>1. pc = "more"
    <3>1. ~IsProtected(toCard)
      BY <1>4 DEF CardGivesMore, IsProtected
    <3>2. pc \notin {"idle", "send", "chunk", "answer", "nested"}
      BY <1>1, <3>1 DEF IInv, AirInv
    <3> QED
      BY <3>2 DEF IInv, TypeOK
  <2>2. /\ pending.part = 2 /\ pending.of = parts[1].of /\ pending.ctr = ssc
        /\ Len(parts) = 1 /\ parts[1].part = 1 /\ parts[1].ctr = ssc
    BY <1>1, <1>4, <2>1 DEF CardGivesMore, PieceInv
  <2>3. toHost' = PieceOf(2, pending.of, pending.req, ssc)
    BY <1>4, <2>2 DEF CardGivesMore
  <2>4. toHost'.part = 2 /\ toHost'.of = parts[1].of /\ toHost'.ctr = ssc
        /\ (toHost'.sw = "9000" => toHost'.of = 2)
    BY <2>2, <2>3 DEF PieceOf
  <2> QED
    BY <1>1, <1>2, <2>1, <2>2, <2>4 DEF PieceInv
<1>5. CASE CardFails \/ CardRejects
  <2>1. toHost' = StatusError /\ IsProtected(toCard)
    BY <1>5 DEF CardFails, CardRejects, IsProtected
  <2>2. toHost' \notin Piece
    BY <2>1 DEF StatusError, Piece
  <2>3. pc # "more"
    BY <2>1 DEF IInv, AirInv
  <2> QED
    BY <1>1, <1>2, <2>2, <2>3 DEF PieceInv
<1>6. CASE CardAnswersProtected
  <2>1. pc = "nested"
    BY <1>6 DEF CardAnswersProtected, IInv, AirInv, IsProtected
  <2> QED
    BY <1>1, <1>2, <2>1 DEF PieceInv
<1> QED
  BY <1>3, <1>4, <1>5, <1>6 DEF Card

LEMMA LinkPieces ==
  ASSUME IInv, PieceInv, LoseCommand \/ LoseReply \/ Damage \/ TagLost
  PROVE  PieceInv'
<1>1. UNCHANGED <<pc, parts, outcome, ssc>>
  BY DEF LoseCommand, LoseReply, Damage, TagLost, host
<1>2. toCard' \in {toCard, NoCommand} /\ pending' \in {pending, NoPending}
  BY DEF LoseCommand, LoseReply, Damage, TagLost, card
<1>3. toHost' \in Piece =>
        /\ toHost \in Piece /\ toHost'.part = toHost.part /\ toHost'.of = toHost.of
        /\ toHost'.ctr = toHost.ctr /\ toHost'.sw = toHost.sw
  BY DEF LoseCommand, LoseReply, Damage, TagLost, IOException, Piece
<1> QED
  BY <1>1, <1>2, <1>3 DEF PieceInv, MacFailureMeansDamage

\* decryptAndVerify fails only on a damaged reply, or on a response of three pieces.
THEOREM MacFailureMeansDamageHolds == Spec => []MacFailureMeansDamage
<1>1. IInv /\ PieceInv /\ [Next]_vars => PieceInv'
  <2> SUFFICES ASSUME IInv, PieceInv, [Next]_vars PROVE PieceInv'
    OBVIOUS
  <2>1. CASE UNCHANGED vars
    BY <2>1 DEF vars, host, card, PieceInv, MacFailureMeansDamage
  <2> QED
    BY <2>1, AnsweredPieces, NestedPieces, AskPieces, OtherHostPieces, CardPieces, LinkPieces
    DEF Next, Host
<1>2. PieceInv => MacFailureMeansDamage
  BY DEF PieceInv
<1> QED
  BY <1>1, <1>2, PieceInitially, Invariance, PTL DEF Spec

-----------------------------------------------------------------------------
(* The channel implements AuthenticatedExchange *)

\* How a call that is over looks from outside.
LEMMA EndMaps ==
  ASSUME pc # "idle", pc' = "idle", UNCHANGED <<req, length, executed>>,
         \/ outcome' = "data" /\ Ran
         \/ outcome' \in {"status", "io", "runtime", "malformed"}
  PROVE  Exchange!Next
<1>1. CASE outcome' = "data" /\ Ran
  BY <1>1 DEF Exchange!Next, Exchange!Return, Exchange!HasRun, Exchange!Entry, Ran
<1>2. CASE outcome' \in {"status", "io", "runtime", "malformed"}
  BY <1>2 DEF Exchange!Next, Exchange!Throw
<1> QED
  BY <1>1, <1>2

LEMMA RunMaps ==
  ASSUME IInv, pc = "answer", UNCHANGED <<pc, req, length, outcome>>,
         \A i \in DOMAIN executed : executed[i].req < req,
         executed' = Append(executed, [req |-> req, bytes |-> length])
  PROVE  Exchange!Next
<1>1. ~Exchange!HasRun
  <2> SUFFICES ASSUME Exchange!HasRun PROVE FALSE
    OBVIOUS
  <2>1. executed # <<>> /\ executed[Len(executed)].req = req
    BY DEF Exchange!HasRun, Exchange!Entry
  <2>2. Len(executed) \in DOMAIN executed
    BY <2>1, History, EmptySeq DEF IInv, TypeOK
  <2> QED
    BY <2>1, <2>2, Numbers DEF IInv
<1>2. Exchange!Run
  BY <1>1 DEF Exchange!Run, Exchange!Entry
<1> QED
  BY <1>2 DEF Exchange!Next

LEMMA StepMaps ==
  ASSUME IInv, TypeOK', [Next]_vars
  PROVE  [Exchange!Next]_(Exchange!vars)
<1> USE DEF Exchange!vars
<1>1. CASE UNCHANGED <<pc, req, length, outcome, executed>>
  BY <1>1
<1>2. ASSUME NEW n \in DataLengths, Transmit(n) PROVE Exchange!Next
  BY <1>2 DEF Transmit, Exchange!Next, Exchange!Call, card
<1>3. CASE SendChunk \/ SendLast \/ ChunkAnswered \/ AskForMore \/ AskAgain
  BY <1>3 DEF SendChunk, SendLast, ChunkAnswered, AskForMore, AskAgain, card
<1>4. CASE Answered
  <2>1. toHost \in Piece
    BY <1>4, ReplyKinds DEF Answered, IInv
  <2>2. Ran
    BY <1>4, <2>1 DEF Answered, IInv, AnswerInv
  <2> QED
    BY <1>4, <2>2, EndMaps DEF Answered, DecryptAndVerify, Unverified, End, card
<1>5. CASE NestedAnswered
  <2>1. Ran
    BY <1>5 DEF NestedAnswered, IInv, AnswerInv
  <2> QED
    BY <1>5, <2>1, EndMaps DEF NestedAnswered, DecryptAndVerify, Unverified, End, card
<1>6. CASE StatusThrown
  BY <1>6, EndMaps DEF StatusThrown, End, card
<1>7. CASE TransceiveFailed
  <2>1. pc # "idle"
    BY <1>7 DEF TransceiveFailed, IInv, AirInv, IOException, NoReply
  <2> QED
    BY <1>7, <2>1, EndMaps DEF TransceiveFailed, End, card
<1>8. ASSUME NEW k \in 1 .. MaxSegments, CardExecutes(k) PROVE Exchange!Next
  <2>1. /\ pc = "answer" /\ toCard.last /\ buffer + toCard.bytes = length
        /\ \A i \in DOMAIN executed : executed[i].req < req
    BY <1>8, AuthenticCommand DEF CardExecutes
  <2> QED
    BY <1>8, <2>1, RunMaps DEF CardExecutes, Collect, host
<1>9. CASE CardFails
  <2>1. /\ pc = "answer" /\ toCard.last /\ buffer + toCard.bytes = length
        /\ \A i \in DOMAIN executed : executed[i].req < req
    BY <1>9, AuthenticCommand DEF CardFails
  <2> QED
    BY <1>9, <2>1, RunMaps DEF CardFails, host
<1>10. CASE CardRejects \/ CardGivesMore \/ CardAnswersProtected
  BY <1>10 DEF CardRejects, CardGivesMore, CardAnswersProtected, host
<1>11. CASE LoseCommand \/ LoseReply \/ Damage \/ TagLost
  BY <1>11 DEF LoseCommand, LoseReply, Damage, TagLost, host, card
<1>12. CASE UNCHANGED vars
  BY <1>12 DEF vars, host, card
<1> QED
  BY <1>2, <1>3, <1>4, <1>5, <1>6, <1>7, <1>8, <1>9, <1>10, <1>11, <1>12
  DEF Next, Host, Card

\* Every behaviour of the channel is one that AuthenticatedExchange allows.
THEOREM Refinement == Spec => Exchange!Spec
<1>1. Init => Exchange!Init
  BY DEF Init, Exchange!Init
<1>2. IInv => TypeOK
  BY DEF IInv
<1> QED
  BY <1>1, <1>2, StepMaps, Invariance, TypeStep, PTL DEF Spec, Exchange!Spec
=============================================================================
