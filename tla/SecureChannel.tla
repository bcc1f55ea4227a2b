---------------------------- MODULE SecureChannel ----------------------------
(***************************************************************************)
(* NfcSmartCardReader.transmit with an ApduEncryptor installed: the secure  *)
(* messaging that ID1WithPace and ThalesWithPace run over the session keys  *)
(* of a PACE tunnel.  One caller's thread drives the reader; transceive     *)
(* blocks it until the card's reply or an IOException comes back.           *)
(*                                                                         *)
(* Cryptography is symbolic.  A protected APDU carries the counter its MAC  *)
(* was computed with (both ends hold the same keys after the tunnel), and   *)
(* a MAC verifies exactly when nothing was damaged and the counters agree.  *)
(* The card and the radio link are external: they are what the reader's    *)
(* code assumes of ISO 7816-4 secure messaging and of android.nfc.          *)
(***************************************************************************)
EXTENDS Naturals, Sequences

CONSTANTS
    DataLengths,   \* lengths of the command data that callers pass
    MaxSegments,   \* pieces a card may cut a protected response into (61xx)
    SscModulus     \* 256^16 in the code: the counter is a byte[16]

ASSUME LengthsAssumption  == DataLengths \subseteq Nat
ASSUME SegmentsAssumption == MaxSegments \in Nat \ {0}
ASSUME ModulusAssumption  == SscModulus \in Nat \ {0}

VARIABLES
    pc,            \* where the calling thread is in transmit
    req,           \* number of the last call
    length,        \* data.length of that call
    remaining,     \* the local variable of the chaining loop
    parts,         \* the pieces of the protected response received so far
    outcome,       \* how the last call ended
    data,          \* the request whose answer was returned, 0 for none
    ssc,           \* send sequence counter of the token object
    toCard,        \* C-APDU in the air
    toHost,        \* R-APDU in the air, or the IOException of transceive
    tag,           \* is the card in the field?
    cardSm,        \* does the card still hold the session keys?
    cardSsc,       \* its send sequence counter
    buffer,        \* command data the card has collected from a chain
    pending,       \* rest of a response the card keeps for GET RESPONSE
    executed,      \* commands the card has carried out, in order
    missed,        \* history: protected C-APDUs the card did not authenticate
    used           \* history: counters that the two ends have protected APDUs with

host == <<pc, req, length, remaining, parts, outcome, data>>
card == <<cardSm, cardSsc, buffer, pending, executed>>
vars == <<host, ssc, toCard, toHost, tag, card, missed, used>>

-----------------------------------------------------------------------------
(* APDUs *)

Counters == 0 .. SscModulus - 1

\* incrementSSC: the big-endian counter, 2^128 wraps to 0.
IncrementSSC(c) == (c + 1) % SscModulus

\* pad: 80 00* up to the block size, at least one byte.
Padded(n) == n + (16 - (n % 16))

\* Mutant of Fits: the length fields are widened to their long forms.
FitsLongForm(n) == n <= 255

\* getDo8587 writes the length of DO87 in one byte and encryptAndMac the length
\* of the body in another, so the card can only read the C-APDU if the first
\* is below the long form 0x81 and the second (DO87 header and value, DO97,
\* DO8E) does not wrap.
Fits(n) == n > 0 => /\ Padded(n) + 1 < 128
                    /\ Padded(n) + 3 + 3 + 10 < 256

ProtectedAPDU == [kind : {"command", "getResponse"}, ctr : Counters,
                  bytes : Nat, last : BOOLEAN, fits : BOOLEAN]
PlainGetResponse == [kind |-> "plain"]
NoCommand == [kind |-> "none"]

Piece == [sw : {"9000", "61xx"}, of : 1 .. MaxSegments, part : 1 .. MaxSegments,
          req : Nat, ctr : Counters, intact : BOOLEAN]
StatusError == [sw |-> "error"]      \* any SW but 9000 and 61xx
IOException == [sw |-> "io"]         \* TagLostException included
NoReply == [sw |-> "none"]

NoPending == [of |-> 0]
Pending == {p \in [of : 1 .. MaxSegments, part : 1 .. MaxSegments,
                   req : Nat, ctr : Counters] : p.part <= p.of}

IsProtected(c) == c.kind \in {"command", "getResponse"}

\* Types: ssc stays a counter of its width, remaining never passes below zero, and
\* outcome is one of the endings of transmit.
TypeOK ==
    /\ pc \in {"idle", "send", "chunk", "answer", "more", "nested"}
    /\ req \in Nat
    /\ length \in Nat
    /\ remaining \in Nat
    /\ parts \in Seq(Piece)
    /\ outcome \in {"none", "data", "status", "io", "runtime", "malformed"}
    /\ data \in Nat
    /\ ssc \in Counters
    /\ toCard \in ProtectedAPDU \cup {PlainGetResponse, NoCommand}
    /\ toHost \in Piece \cup {StatusError, IOException, NoReply}
    /\ tag \in BOOLEAN
    /\ cardSm \in BOOLEAN
    /\ cardSsc \in Counters
    /\ buffer \in Nat
    /\ pending \in Pending \cup {NoPending}
    /\ executed \in Seq([req : Nat, bytes : Nat])
    /\ missed \in Nat
    /\ used \in Seq(Counters)

\* tunnel() has just succeeded: the encryptor is installed and both counters
\* are zero.
Init ==
    /\ pc = "idle" /\ req = 0 /\ length = 0 /\ remaining = 0
    /\ parts = <<>> /\ outcome = "none" /\ data = 0
    /\ ssc = 0
    /\ toCard = NoCommand /\ toHost = NoReply
    /\ tag = TRUE
    /\ cardSm = TRUE /\ cardSsc = 0 /\ buffer = 0 /\ pending = NoPending
    /\ executed = <<>>
    /\ missed = 0 /\ used = <<>>

-----------------------------------------------------------------------------
(* The reader *)

\* Protected C-APDUs that a call with n bytes can need, the last for a second
\* GET RESPONSE.
FramesFor(n) == n \div 255 + 2

\* The bound of the model: a call starts only if its counters do not wrap.
CounterRoom(n) == ssc + 2 * FramesFor(n) < SscModulus

\* Mutant of EncryptAndMac: the increment for the response is left out.
EncryptAndMacOnce(kind, n, last) ==
    /\ toCard' = [kind |-> kind, ctr |-> IncrementSSC(ssc), bytes |-> n,
                  last |-> last, fits |-> Fits(n)]
    /\ used' = Append(used, IncrementSSC(ssc))
    /\ ssc' = IncrementSSC(ssc)

\* encryptAndMac, then transceive: one increment for the command, whose MAC is
\* computed with it, and one for the response.
EncryptAndMac(kind, n, last) ==
    /\ toCard' = [kind |-> kind, ctr |-> IncrementSSC(ssc), bytes |-> n,
                  last |-> last, fits |-> Fits(n)]
    /\ used' = Append(used, IncrementSSC(ssc))
    /\ ssc' = IncrementSSC(IncrementSSC(ssc))

Transmit(n) ==
    /\ pc = "idle"
    /\ CounterRoom(n)
    /\ pc' = "send"
    /\ req' = req + 1
    /\ length' = n
    /\ remaining' = n
    /\ parts' = <<>>
    /\ outcome' = "none"
    /\ data' = 0
    /\ UNCHANGED <<ssc, toCard, toHost, tag, card, missed, used>>

\* The body of the chaining loop: 255 bytes with CLA 0x10.
SendChunk ==
    /\ pc = "send"
    /\ remaining >= 256
    /\ EncryptAndMac("command", 255, FALSE)
    /\ remaining' = remaining - 255
    /\ pc' = "chunk"
    /\ UNCHANGED <<req, length, parts, outcome, data, toHost, tag, card, missed>>

\* The whole data, or what the loop left.
SendLast ==
    /\ pc = "send"
    /\ remaining < 256
    /\ EncryptAndMac("command", remaining, TRUE)
    /\ pc' = "answer"
    /\ UNCHANGED <<req, length, remaining, parts, outcome, data, toHost, tag,
                   card, missed>>

\* Mutant of ChunkAnswered: the loop waits for an answer without error.
ChunkAccepted ==
    /\ pc = "chunk"
    /\ toHost \in Piece
    /\ toHost' = NoReply
    /\ pc' = "send"
    /\ UNCHANGED <<req, length, remaining, parts, outcome, data, ssc, toCard,
                   tag, card, missed, used>>

\* The reader ignores what the card answers to a chained C-APDU.
ChunkAnswered ==
    /\ pc = "chunk"
    /\ toHost \in Piece \cup {StatusError}
    /\ toHost' = NoReply
    /\ pc' = "send"
    /\ UNCHANGED <<req, length, remaining, parts, outcome, data, ssc, toCard,
                   tag, card, missed, used>>

\* Leave transmit.
End(how, ps, answered) ==
    /\ pc' = "idle"
    /\ outcome' = how
    /\ parts' = ps
    /\ data' = answered
    /\ toHost' = NoReply
    /\ UNCHANGED <<req, length, remaining>>

\* decryptAndVerify accepts the concatenation ps: one whole response, and its
\* MAC verifies under the counter as it is now.
Verified(ps) ==
    \A i \in DOMAIN ps : /\ ps[i].part = i
                         /\ ps[i].of = Len(ps)
                         /\ ps[i].ctr = ssc
                         /\ ps[i].intact

\* decryptAndVerify throws: the RuntimeException of a MAC that does not verify, or a
\* SmartCardReaderException when the data objects cannot be told apart or decrypted,
\* which it tries first.
Unverified(ps) == \E how \in {"runtime", "malformed"} : End(how, ps, 0)

DecryptAndVerify(ps) ==
    IF Verified(ps) THEN End("data", ps, ps[1].req) ELSE Unverified(ps)

\* SW 9000 to the command, or to the unprotected GET RESPONSE.
Answered ==
    /\ pc \in {"answer", "more"}
    /\ toHost.sw = "9000"
    /\ DecryptAndVerify(Append(parts, toHost))
    /\ UNCHANGED <<ssc, toCard, tag, card, missed, used>>

\* Mutant of AskForMore: the first GET RESPONSE is protected too.
AskForMoreProtected ==
    /\ pc = "answer"
    /\ toHost.sw = "61xx"
    /\ parts' = Append(parts, toHost)
    /\ toHost' = NoReply
    /\ EncryptAndMac("getResponse", 0, TRUE)
    /\ pc' = "nested"
    /\ UNCHANGED <<req, length, remaining, outcome, data, tag, card, missed>>

\* SW 61xx to the command: super.transmit sends GET RESPONSE unprotected.
AskForMore ==
    /\ pc = "answer"
    /\ toHost.sw = "61xx"
    /\ parts' = Append(parts, toHost)
    /\ toHost' = NoReply
    /\ toCard' = PlainGetResponse
    /\ pc' = "more"
    /\ UNCHANGED <<req, length, remaining, outcome, data, ssc, tag, card, missed, used>>

\* SW 61xx to that GET RESPONSE: super.transmit calls transmit for the next one,
\* and the call is dispatched to NfcSmartCardReader, which protects it.
AskAgain ==
    /\ pc = "more"
    /\ toHost.sw = "61xx"
    /\ parts' = Append(parts, toHost)
    /\ toHost' = NoReply
    /\ EncryptAndMac("getResponse", 0, TRUE)
    /\ pc' = "nested"
    /\ UNCHANGED <<req, length, remaining, outcome, data, tag, card, missed>>

\* The inner transmit verifies the reply to the protected GET RESPONSE, the outer
\* one the concatenation, both under the counter as it is now.
NestedAnswered ==
    /\ pc = "nested"
    /\ toHost.sw = "9000"
    /\ IF toHost.intact /\ toHost.ctr = ssc
       THEN DecryptAndVerify(Append(parts, toHost))
       ELSE Unverified(Append(parts, toHost))
    /\ UNCHANGED <<ssc, toCard, tag, card, missed, used>>

\* Mutant of StatusThrown: the status word is not looked at.
StatusReturned ==
    /\ pc \in {"answer", "more", "nested"}
    /\ toHost = StatusError
    /\ End("data", parts, req)
    /\ UNCHANGED <<ssc, toCard, tag, card, missed, used>>

\* Any other status word: ApduResponseException, without decryptAndVerify.
StatusThrown ==
    /\ pc \in {"answer", "more", "nested"}
    /\ toHost = StatusError
    /\ End("status", parts, 0)
    /\ UNCHANGED <<ssc, toCard, tag, card, missed, used>>

\* Mutants of TransceiveFailed: the call is sent again, or the counter is set back.
SendAgain ==
    /\ toHost = IOException
    /\ pc' = "send"
    /\ remaining' = length
    /\ parts' = <<>>
    /\ toHost' = NoReply
    /\ UNCHANGED <<req, length, outcome, data, ssc, toCard, tag, card, missed, used>>
CounterSetBack ==
    /\ toHost = IOException
    /\ ssc >= 2
    /\ ssc' = ssc - 2
    /\ End("io", parts, 0)
    /\ UNCHANGED <<toCard, tag, card, missed, used>>

\* transceive throws IOException: SmartCardReaderException.
TransceiveFailed ==
    /\ toHost = IOException
    /\ End("io", parts, 0)
    /\ UNCHANGED <<ssc, toCard, tag, card, missed, used>>

Host == \/ SendChunk \/ SendLast \/ ChunkAnswered
        \/ Answered \/ AskForMore \/ AskAgain \/ NestedAnswered
        \/ StatusThrown \/ TransceiveFailed

-----------------------------------------------------------------------------
(* The card (external) *)

Authentic(c) == cardSm /\ c.fits /\ c.ctr = IncrementSSC(cardSsc)

\* The card counts the C-APDU, and the response, which it protects.
CardCounts ==
    /\ cardSsc' = IncrementSSC(IncrementSSC(cardSsc))
    /\ used' = Append(used, cardSsc')

\* The piece number i of a response of k pieces.
PieceOf(i, k, r, c) == [sw |-> IF i = k THEN "9000" ELSE "61xx", of |-> k,
                        part |-> i, req |-> r, ctr |-> c, intact |-> TRUE]
Rest(i, k, r, c) == IF i = k THEN NoPending
                    ELSE [of |-> k, part |-> i + 1, req |-> r, ctr |-> c]

\* A chained C-APDU is collected; the last one of a chain is carried out with
\* all that was collected.
Collect(bytes, last) ==
    IF last
    THEN /\ executed' = Append(executed, [req |-> req, bytes |-> buffer + bytes])
         /\ buffer' = 0
    ELSE /\ buffer' = buffer + bytes
         /\ UNCHANGED executed

CardExecutes(k) ==
    /\ tag
    /\ toCard.kind = "command"
    /\ Authentic(toCard)
    /\ toCard.last \/ k = 1
    /\ Collect(toCard.bytes, toCard.last)
    /\ CardCounts
    /\ toHost' = PieceOf(1, k, req, cardSsc')
    /\ pending' = Rest(1, k, req, cardSsc')
    /\ toCard' = NoCommand
    /\ UNCHANGED <<host, ssc, tag, cardSm, missed>>

\* An authentic command that fails (a wrong PIN, say) has been carried out; a
\* chained C-APDU that fails ends the chain.
CardFails ==
    /\ tag
    /\ toCard.kind = "command"
    /\ Authentic(toCard)
    /\ executed' = IF toCard.last
                   THEN Append(executed, [req |-> req, bytes |-> buffer + toCard.bytes])
                   ELSE executed
    /\ buffer' = 0
    /\ CardCounts
    /\ toHost' = StatusError
    /\ pending' = NoPending
    /\ toCard' = NoCommand
    /\ UNCHANGED <<host, ssc, tag, cardSm, missed>>

\* A C-APDU that does not authenticate: the card may give up the session keys.
CardRejects ==
    /\ tag
    /\ IsProtected(toCard)
    /\ ~Authentic(toCard)
    /\ cardSm' \in {cardSm, FALSE}
    /\ toHost' = StatusError
    /\ buffer' = 0
    /\ pending' = NoPending
    /\ toCard' = NoCommand
    /\ missed' = missed + 1
    /\ UNCHANGED <<host, ssc, tag, cardSsc, executed, used>>

\* Unprotected GET RESPONSE: the next piece, outside of secure messaging.
CardGivesMore ==
    /\ tag
    /\ toCard.kind = "plain"
    /\ pending # NoPending
    /\ toHost' = PieceOf(pending.part, pending.of, pending.req, pending.ctr)
    /\ pending' = Rest(pending.part, pending.of, pending.req, pending.ctr)
    /\ toCard' = NoCommand
    /\ UNCHANGED <<host, ssc, tag, cardSm, cardSsc, buffer, executed, missed, used>>

\* Protected GET RESPONSE: refused, or answered as any other command is, with
\* the next piece in a response protected on its own.
CardAnswersProtected ==
    /\ tag
    /\ toCard.kind = "getResponse"
    /\ Authentic(toCard)
    /\ CardCounts
    /\ \/ toHost' = StatusError
       \/ /\ pending # NoPending
          /\ toHost' = [PieceOf(pending.part, pending.of, pending.req, cardSsc')
                          EXCEPT !.sw = "9000"]
    /\ pending' = NoPending
    /\ toCard' = NoCommand
    /\ UNCHANGED <<host, ssc, tag, cardSm, buffer, executed, missed>>

Card == \/ \E k \in 1 .. MaxSegments : CardExecutes(k)
        \/ CardFails
        \/ CardRejects
        \/ CardGivesMore
        \/ CardAnswersProtected

-----------------------------------------------------------------------------
(* The link (external) *)

\* The C-APDU does not reach the card, and transceive throws.
LoseCommand ==
    /\ toCard # NoCommand
    /\ missed' = IF IsProtected(toCard) THEN missed + 1 ELSE missed
    /\ toCard' = NoCommand
    /\ toHost' = IOException
    /\ UNCHANGED <<host, ssc, tag, card, used>>

\* The card has acted on the C-APDU, but transceive throws.
LoseReply ==
    /\ toHost \in Piece \cup {StatusError}
    /\ toHost' = IOException
    /\ UNCHANGED <<host, ssc, toCard, tag, card, missed, used>>

\* A reply arrives with bytes changed.
Damage ==
    /\ toHost \in Piece
    /\ toHost.intact
    /\ toHost' = [toHost EXCEPT !.intact = FALSE]
    /\ UNCHANGED <<host, ssc, toCard, tag, card, missed, used>>

\* The card leaves the field and with the power loses its session.
TagLost ==
    /\ tag
    /\ tag' = FALSE
    /\ cardSm' = FALSE
    /\ buffer' = 0
    /\ pending' = NoPending
    /\ UNCHANGED <<host, ssc, toCard, toHost, cardSsc, executed, missed, used>>

-----------------------------------------------------------------------------

Next == \/ \E n \in DataLengths : Transmit(n)
        \/ Host
        \/ Card
        \/ LoseCommand
        \/ LoseReply
        \/ Damage
        \/ TagLost

Spec == Init /\ [][Next]_vars

\* The calling thread runs on, and transceive ends: with the card's reply, or
\* by the timeout set with setTimeout.
Fairness == WF_vars(Host) /\ WF_vars(Card \/ LoseCommand)

FairSpec == Spec /\ Fairness

-----------------------------------------------------------------------------
(* Properties *)

\* The reader's counter is ahead of the card's by two for every protected C-APDU
\* that the card has not authenticated, the one in the air included: the two
\* increments of encryptAndMac, the unprotected first GET RESPONSE and the
\* exceptions that skip decryptAndVerify leave nothing else out of step.
CounterGap ==
    ssc = cardSsc + 2 * (missed + IF IsProtected(toCard) THEN 1 ELSE 0)

\* What transmit returns is the answer to the command of this very call, carried
\* out by the card with all the data the caller passed: never the late answer to
\* an earlier one, and never that to the tail of a chain whose head was refused.
AnswersTheCall ==
    outcome = "data" => /\ data = req
                        /\ executed # <<>>
                        /\ executed[Len(executed)] = [req |-> req, bytes |-> length]

\* No command of the caller is carried out twice, and none overtakes another.
AtMostOnce == \A i, j \in DOMAIN executed : i < j => executed[i].req < executed[j].req

\* The card carries out a call with the data the caller passed or not at all,
\* although the reader ignores the answers to the chained C-APDUs.
WholeCommands ==
    \A i \in DOMAIN executed : executed[i].req = req => executed[i].bytes = length

\* One protected C-APDU that the card missed is the end of the channel: no later
\* call on this reader returns data, however long the card stays in the field,
\* because nothing ever resets ssc.
OneMissEndsTheChannel == outcome = "data" => missed = 0

\* decryptAndVerify fails only if a reply was damaged or the response came in three
\* pieces or more, never because of a loss, an error status or an earlier call.
MacFailureMeansDamage ==
    outcome \in {"runtime", "malformed"} =>
        \/ Len(parts) > 2
        \/ \E i \in DOMAIN parts : ~parts[i].intact

\* No counter protects two APDUs, C-APDUs and responses taken together: encdecData derives
\* the CBC initialisation vector of either direction from it, and the MACs of both begin
\* with it.  Losses, refusals, retries of the caller and the unprotected GET RESPONSE
\* included, what the two ends count apart never meets.
FreshCounters == \A i, j \in DOMAIN used : i < j => used[i] # used[j]

\* Every call of transmit returns or throws.
CallsEnd == pc # "idle" ~> pc = "idle"

\* "Automatically handles message chaining for large data transmissions"
\* (SmartCardReader.transmit): the APDUs it cuts data of 256 bytes or more into
\* can be read by a card.
ChainingWorks == toCard.kind = "command" /\ length >= 256 => toCard.fits

\* The channel implements the exchange it promises its callers.
Exchange == INSTANCE AuthenticatedExchange WITH
    calls  <- req,
    open   <- pc # "idle",
    ran    <- executed,
    answer <- IF outcome \in {"none", "data"} THEN outcome ELSE "exception"

ImplementsExchange == Exchange!FairSpec
=============================================================================
