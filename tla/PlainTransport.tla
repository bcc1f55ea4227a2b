---------------------------- MODULE PlainTransport ----------------------------
(***************************************************************************)
(* SmartCardReader.transmit as USB readers run it, and NFC readers before   *)
(* they have an encryptor: command chaining and GET RESPONSE, unprotected.  *)
(*                                                                         *)
(* Bytes are told apart by their position: a C-APDU carries the data from   *)
(* "from" up to "to", and what the card has collected is the number of      *)
(* bytes it has in their order, or Garbled.  Card and link are external.    *)
(***************************************************************************)
EXTENDS Integers, Sequences

CONSTANTS
    DataLengths,   \* lengths of the command data that callers pass
    MaxSegments,   \* pieces a card may cut a response into (61xx)
    MaxCalls,      \* bound on the calls
    Faults         \* what may go wrong with a chain beyond its end

FaultKinds == {"refused",   \* the card answers a chained C-APDU with an error
               "kept"}      \* the card keeps an unfinished chain over a lost exchange

ASSUME LengthsAssumption  == DataLengths \subseteq Nat
ASSUME SegmentsAssumption == MaxSegments \in Nat \ {0}
ASSUME CallsAssumption    == MaxCalls \in Nat
ASSUME FaultsAssumption   == Faults \subseteq FaultKinds

VARIABLES
    pc,            \* where the calling thread is in transmit
    req,           \* number of the last call
    length,        \* data.length of that call
    remaining,     \* the local variable of the chaining loop
    parts,         \* pieces of this call's response concatenated so far
    outcome,       \* how the last call ended
    toCard,        \* C-APDU in the air
    toHost,        \* R-APDU in the air, or the exception of the reader
    buffer,        \* command data the card has collected from a chain
    pending,       \* rest of a response that the card keeps for GET RESPONSE
    cut,           \* into how many pieces the card has cut its last response
    executed,      \* commands the card has carried out, in order
    faulted        \* history: did card or link fail in this call?

host == <<pc, req, length, remaining, parts, outcome>>
card == <<buffer, pending, cut, executed>>
vars == <<host, toCard, toHost, card, faulted>>

-----------------------------------------------------------------------------

Garbled == -1

\* A C-APDU and its Lc field, which is one byte.
Command(from, to, last) == [kind |-> "command", from |-> from, to |-> to,
                            lc |-> (to - from) % 256, last |-> last]
GetResponse == [kind |-> "getResponse"]
NoCommand   == [kind |-> "none"]

Piece == [sw : {"9000", "61xx"}, req : Nat, part : 1 .. MaxSegments]
StatusError == [sw |-> "error"]
Exception   == [sw |-> "exception"]
NoReply     == [sw |-> "none"]

NoPending == [part |-> 0, of |-> 0, req |-> 0]

\* Types: the chaining loop's remaining never passes below zero.
TypeOK ==
    /\ pc \in {"idle", "send", "chunk", "answer"}
    /\ req \in 0 .. MaxCalls
    /\ length \in DataLengths \cup {0}
    /\ remaining \in Nat
    /\ parts \in 0 .. MaxSegments \cup {Garbled}
    /\ outcome \in {"none", "data", "status", "exception"}
    /\ toCard \in [kind : {"command"}, from : Nat, to : Nat, lc : 0 .. 255, last : BOOLEAN]
                    \cup {GetResponse, NoCommand}
    /\ toHost \in Piece \cup {StatusError, Exception, NoReply}
    /\ buffer \in Nat \cup {Garbled}
    /\ pending \in [part : 1 .. MaxSegments, of : 1 .. MaxSegments, req : Nat]
                    \cup {NoPending}
    /\ cut \in 0 .. MaxSegments
    /\ executed \in Seq([req : Nat, bytes : Int])
    /\ faulted \in BOOLEAN

Init ==
    /\ pc = "idle" /\ req = 0 /\ length = 0 /\ remaining = 0
    /\ parts = 0 /\ outcome = "none"
    /\ toCard = NoCommand /\ toHost = NoReply
    /\ buffer = 0 /\ pending = NoPending /\ cut = 0 /\ executed = <<>>
    /\ faulted = FALSE

-----------------------------------------------------------------------------
(* The reader *)

Transmit(n) ==
    /\ pc = "idle"
    /\ req < MaxCalls
    /\ pc' = "send"
    /\ req' = req + 1
    /\ length' = n
    /\ remaining' = n
    /\ parts' = 0
    /\ outcome' = "none"
    /\ faulted' = FALSE
    /\ UNCHANGED <<toCard, toHost, card>>

\* Mutants of SendChunk: the chunks hold one byte more than they say; the loop goes on
\* while there is enough for a chunk, and may leave nothing.
SendChunkOverlapping ==
    /\ pc = "send"
    /\ remaining >= 256
    /\ toCard' = Command(length - remaining, length - remaining + 255, FALSE)
    /\ remaining' = remaining - 254
    /\ pc' = "chunk"
    /\ UNCHANGED <<req, length, parts, outcome, toHost, card, faulted>>
SendChunkFull ==
    /\ pc = "send"
    /\ remaining >= 255
    /\ toCard' = Command(length - remaining, length - remaining + 255, FALSE)
    /\ remaining' = remaining - 255
    /\ pc' = "chunk"
    /\ UNCHANGED <<req, length, parts, outcome, toHost, card, faulted>>

\* The body of the chaining loop: 255 bytes with CLA 0x10.
SendChunk ==
    /\ pc = "send"
    /\ remaining >= 256
    /\ toCard' = Command(length - remaining, length - remaining + 255, FALSE)
    /\ remaining' = remaining - 255
    /\ pc' = "chunk"
    /\ UNCHANGED <<req, length, parts, outcome, toHost, card, faulted>>

\* The whole data, or what the loop left.
SendLast ==
    /\ pc = "send"
    /\ remaining < 256
    /\ toCard' = Command(length - remaining, length, TRUE)
    /\ pc' = "answer"
    /\ UNCHANGED <<req, length, remaining, parts, outcome, toHost, card, faulted>>

\* The reader ignores what the card answers to a chained C-APDU.
ChunkAnswered ==
    /\ pc = "chunk"
    /\ toHost \in Piece \cup {StatusError}
    /\ toHost' = NoReply
    /\ pc' = "send"
    /\ UNCHANGED <<req, length, remaining, parts, outcome, toCard, card, faulted>>

\* Concatenation.
PartsAnd(reply) ==
    IF reply.part = parts + 1 /\ reply.req = req THEN parts + 1 ELSE Garbled

End(how) ==
    /\ pc' = "idle"
    /\ outcome' = how
    /\ toHost' = NoReply
    /\ UNCHANGED <<req, length, remaining, toCard, card, faulted>>

\* Mutant of Answered: 61xx ends the call as 9000 does.
AnsweredAtOnce ==
    /\ pc = "answer"
    /\ toHost \in Piece
    /\ parts' = PartsAnd(toHost)
    /\ End("data")

Answered ==
    /\ pc = "answer"
    /\ toHost.sw = "9000"
    /\ parts' = PartsAnd(toHost)
    /\ End("data")

\* SW 61xx: transmit calls itself for GET RESPONSE, as often as it takes.
AskForMore ==
    /\ pc = "answer"
    /\ toHost.sw = "61xx"
    /\ parts' = PartsAnd(toHost)
    /\ toHost' = NoReply
    /\ toCard' = GetResponse
    /\ UNCHANGED <<pc, req, length, remaining, outcome, card, faulted>>

\* Any other status word: ApduResponseException.
StatusThrown ==
    /\ pc = "answer"
    /\ toHost = StatusError
    /\ End("status")
    /\ UNCHANGED parts

\* Mutant of ReaderFailed: the command is sent again.
ReaderRetries ==
    /\ toHost = Exception
    /\ pc' = "send"
    /\ remaining' = length
    /\ toHost' = NoReply
    /\ UNCHANGED <<req, length, parts, outcome, toCard, card, faulted>>

\* The reader throws: SmartCardReaderException.
ReaderFailed ==
    /\ toHost = Exception
    /\ End("exception")
    /\ UNCHANGED parts

Host == \/ SendChunk \/ SendLast \/ ChunkAnswered
        \/ Answered \/ AskForMore \/ StatusThrown \/ ReaderFailed

-----------------------------------------------------------------------------
(* The card (external) *)

\* Lc says how much data there is.  A chain does not end with an Lc of zero.
Readable(c) == c.lc = c.to - c.from /\ (c.from > 0 => c.lc > 0)

Collected(c) == IF c.from = buffer THEN c.to ELSE Garbled

PieceOf(i, k, r) == [sw |-> IF i = k THEN "9000" ELSE "61xx", req |-> r, part |-> i]
Rest(i, k, r)    == IF i = k THEN NoPending ELSE [part |-> i + 1, of |-> k, req |-> r]

CardCollects ==
    /\ toCard.kind = "command" /\ Readable(toCard) /\ ~toCard.last
    /\ buffer' = Collected(toCard)
    /\ toHost' = PieceOf(1, 1, req)
    /\ pending' = NoPending
    /\ toCard' = NoCommand
    /\ UNCHANGED <<host, cut, executed, faulted>>

\* The last C-APDU of a chain is carried out with all that was collected.
CardExecutes(k) ==
    /\ toCard.kind = "command" /\ Readable(toCard) /\ toCard.last
    /\ executed' = Append(executed, [req |-> req, bytes |-> Collected(toCard)])
    /\ buffer' = 0
    /\ toHost' = PieceOf(1, k, req)
    /\ pending' = Rest(1, k, req)
    /\ cut' = k
    /\ toCard' = NoCommand
    /\ UNCHANGED <<host, faulted>>

\* The command fails, or cannot be read: a status word, and the end of a chain.
CardFails ==
    /\ toCard.kind = "command"
    /\ ~Readable(toCard) \/ toCard.last \/ "refused" \in Faults
    /\ buffer' = 0
    /\ toHost' = StatusError
    /\ pending' = NoPending
    /\ faulted' = (faulted \/ Readable(toCard))
    /\ toCard' = NoCommand
    /\ UNCHANGED <<host, cut, executed>>

CardGivesMore ==
    /\ toCard.kind = "getResponse" /\ pending # NoPending
    /\ toHost' = PieceOf(pending.part, pending.of, pending.req)
    /\ pending' = Rest(pending.part, pending.of, pending.req)
    /\ toCard' = NoCommand
    /\ UNCHANGED <<host, buffer, cut, executed, faulted>>

Card == \/ CardCollects
        \/ \E k \in 1 .. MaxSegments : CardExecutes(k)
        \/ CardFails \/ CardGivesMore

-----------------------------------------------------------------------------
(* The link (external) *)

\* A failed exchange is a lost card, which comes back without its chain, unless the
\* fault is included that it stays.
AfterLoss ==
    /\ buffer' \in {0} \cup (IF "kept" \in Faults THEN {buffer} ELSE {})
    /\ pending' = NoPending
    /\ toHost' = Exception
    /\ faulted' = TRUE

LoseCommand ==
    /\ toCard # NoCommand
    /\ toCard' = NoCommand
    /\ AfterLoss
    /\ UNCHANGED <<host, cut, executed>>

LoseReply ==
    /\ toHost \in Piece \cup {StatusError}
    /\ AfterLoss
    /\ UNCHANGED <<host, toCard, cut, executed>>

-----------------------------------------------------------------------------

Next == \/ \E n \in DataLengths : Transmit(n)
        \/ Host
        \/ Card
        \/ LoseCommand \/ LoseReply

Spec == Init /\ [][Next]_vars

\* The calling thread runs on, and the reader's transmit ends.
FairSpec == Spec /\ WF_vars(Host) /\ WF_vars(Card \/ LoseCommand)

-----------------------------------------------------------------------------
(* Properties *)

\* The card carries out a call with all the data the caller passed, in its order, or
\* not at all: "Automatically handles message chaining for large data transmissions"
\* (SmartCardReader.java:46).  This is of cards that take every chunk and forget an
\* unfinished chain (Faults = {}): transmit does nothing about one that is kept.
WholeCommands ==
    \A i \in DOMAIN executed : executed[i].req = req => executed[i].bytes = length

\* Data is returned only if the card has carried out this call, once and last, and
\* it is the whole response in its order, however many pieces it came in.
WholeAnswers ==
    outcome = "data" => /\ executed # <<>> /\ executed[Len(executed)].req = req
                        /\ parts = cut

\* No call's command is carried out twice, though a call ends at any failure and the
\* caller may call again.
AtMostOnce == \A i, j \in DOMAIN executed : i < j => executed[i].req < executed[j].req

\* When neither the card nor the link fails, the call returns data: chaining and GET
\* RESPONSE bring about no error of their own, at no length.
UndisturbedReturns == outcome \in {"status", "exception"} => faulted

\* The transport implements the exchange, as long as the card takes every chunk and
\* forgets an unfinished chain.
Exchange == INSTANCE AuthenticatedExchange WITH
    calls  <- req,
    open   <- pc # "idle",
    ran    <- executed,
    answer <- IF outcome \in {"none", "data"} THEN outcome ELSE "exception"

ImplementsExchange == Exchange!FairSpec
===============================================================================
