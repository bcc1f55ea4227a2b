------------------------- MODULE SecureMessagingCodec -------------------------
(***************************************************************************)
(* encryptAndMac and decryptAndVerify of ID1WithPace, as ThalesWithPace has *)
(* them, octet by octet, against a card that reads and encodes as ISO       *)
(* 7816-4 says.                                                            *)
(*                                                                         *)
(* Octets up to 255 are in clear.  Those of a ciphertext and of a MAC lie   *)
(* beyond, as they tell nothing without the keys; what a MAC covers is kept *)
(* beside it.  The card and the link are external.                         *)
(***************************************************************************)
EXTENDS Octets

CONSTANTS
    Commands,      \* command data
    Answers,       \* response data
    Counters,      \* values of ssc before a command
    NoLe,          \* le == null
    Les            \* values of le

\* Bound: what one protected C-APDU can carry.  The objects of longer data cannot be
\* read, as getDo8587 writes their length in one octet.
CommandsAssumption == \A data \in Commands : data \in Seq(Octet) /\ Len(data) <= 111

\* Bound: an answer whose object has a length that BER writes in two octets.
AnswersAssumption == \A data \in Answers : data \in Seq(Octet) /\ Len(data) + 17 < 65536

\* Bound: the counter has two octets, in the code a block.
CountersAssumption == Counters \subseteq [1 .. 2 -> Octet]

LesAssumption == Les \subseteq Octet /\ NoLe \notin Les

ASSUME CommandsAssumption
ASSUME AnswersAssumption
ASSUME CountersAssumption
ASSUME LesAssumption

BLOCK_SIZE == 16
MAC_LENGTH == 8
DO85 == 133
DO87 == 135
DO8E == 142
DO97 == 151
DO99 == 153

VARIABLES
    pc,            \* whose turn it is
    call,          \* ins, data and le of the command
    ssc,           \* the host's counter
    cardSsc,       \* the card's, a number
    apdu,          \* the protected C-APDU or R-APDU in the air
    covered,       \* what its MAC covers
    heard,         \* the command that the card has read
    answer,        \* what the card answers
    damaged,       \* history: has the link damaged the answer?
    result         \* of decryptAndVerify

vars == <<pc, call, ssc, cardSsc, apdu, covered, heard, answer, damaged, result>>

Error == <<-1>>

\* BigInteger(1, octets).  Bound: of at most three octets.
Value(octets) ==
    LET FromEnd(k) == IF k < Len(octets) THEN octets[Len(octets) - k] ELSE 0
    IN  256 * 256 * FromEnd(2) + 256 * FromEnd(1) + FromEnd(0)

Modulus == 256 * 256                           \* of the counter of two octets

Encrypted(octets) == [i \in DOMAIN octets |-> octets[i] + 256]
Decrypted(octets) == [i \in DOMAIN octets |-> octets[i] - 256]
TheMac            == [i \in 1 .. MAC_LENGTH |-> 512 + i]

Init ==
    /\ pc = "host"
    /\ call \in [ins : {"even", "odd"}, data : Commands, le : Les \cup {NoLe}]
    /\ ssc \in Counters /\ cardSsc = Value(ssc)
    /\ apdu = <<>> /\ covered = <<>> /\ heard = call.data /\ answer = <<>>
    /\ damaged = FALSE /\ result = Error

-----------------------------------------------------------------------------
(* encryptAndMac *)

\* Mutant of Do8587: every command in DO87.
Do87(even, data) ==
    IF data = <<>> THEN <<>>
    ELSE LET cipher == Encrypted(Pad(data, BLOCK_SIZE))
         IN  <<DO87, (Len(cipher) + 1) % 256, 1>> \o cipher

\* getDo8587: lengths are written in one octet, whatever they are.
Do8587(even, data) ==
    IF data = <<>> THEN <<>>
    ELSE LET cipher == Encrypted(Pad(data, BLOCK_SIZE))
         IN  IF even THEN <<DO87, (Len(cipher) + 1) % 256, 1>> \o cipher
             ELSE <<DO85, Len(cipher) % 256>> \o cipher

Do97(le) == IF le = NoLe THEN <<>> ELSE <<DO97, 1, le % 256>>

\* getDo8e: the counter and the padded header are whole blocks; padded if the rest is
\* not.
MacInput(counter, objects) ==
    <<Value(counter)>> \o IF Len(objects) % BLOCK_SIZE = 0 THEN objects
                          ELSE Pad(objects, BLOCK_SIZE)

\* The body and Lc; the header is in "call".
EncryptAndMac ==
    LET objects == Do8587(call.ins = "even", call.data) \o Do97(call.le) IN
    /\ pc = "host"
    /\ pc' = "card"
    /\ apdu' = <<(Len(objects) + 2 + MAC_LENGTH) % 256>> \o objects
                   \o <<DO8E, MAC_LENGTH>> \o TheMac
    /\ covered' = MacInput(IncrementSSC(ssc), objects)
    /\ ssc' = IncrementSSC(IncrementSSC(ssc))
    /\ UNCHANGED <<call, cardSsc, heard, answer, damaged, result>>

-----------------------------------------------------------------------------
(* decryptAndVerify *)

\* response[i] in Java; -1 is an ArrayIndexOutOfBoundsException.
At(r, i) == IF i \in 0 .. Len(r) - 1 THEN r[i + 1] ELSE -1

\* Octets from i up to j; copyOfRange fills up with zeros beyond the end.
Part(r, i, j) == [k \in 1 .. j - i |-> IF i + k <= Len(r) THEN r[i + k] ELSE 0]

\* Where the ciphertext begins and ends, or "at" past the response if it has no
\* readable header.  A length of more than three octets exceeds every response.
CipherText(r) ==
    LET first  == At(r, 1)
        octets == IF first > 128 THEN first % 16 ELSE 0
        size   == IF octets = 0 /\ first <= 128 THEN first
                  ELSE IF octets > 3 THEN 256 * 256
                  ELSE Value(Part(r, 2, 2 + octets))
        header == 2 + octets
        skip   == IF At(r, 0) = DO87 THEN 1 ELSE 0
    IN  IF At(r, 0) \notin {DO85, DO87} THEN [from |-> 0, to |-> 0]
        ELSE IF skip = 1 /\ At(r, header) # 1 THEN [from |-> Len(r), to |-> Len(r)]
        ELSE [from |-> header + skip, to |-> header + size]

\* Behind DO99, which may be missing.
StatusEnd(r, i) ==
    IF At(r, i) # DO99 THEN i
    ELSE IF Part(r, i, i + 4) = <<DO99, 2, 144, 0>> THEN i + 4 ELSE Len(r)

Readable(r, text, mac) ==
    /\ text.from <= text.to /\ text.to <= Len(r)
    /\ (text.to - text.from) % BLOCK_SIZE = 0
    /\ At(r, mac) = DO8E /\ At(r, mac + 1) = MAC_LENGTH
    /\ Len(r) = mac + 2 + MAC_LENGTH + 2

\* Mutant of DecryptAndVerify: the MAC is not compared.
DecryptUnverified(r) ==
    LET text == CipherText(r)
        mac  == StatusEnd(r, text.to)
    IN  IF Readable(r, text, mac) THEN Unpad(Decrypted(Part(r, text.from, text.to)))
        ELSE Error

\* The MAC is right if it is the card's and covers what is before it.
DecryptAndVerify(r) ==
    LET text == CipherText(r)
        mac  == StatusEnd(r, text.to)
    IN  IF /\ Readable(r, text, mac)
           /\ Part(r, mac + 2, mac + 2 + MAC_LENGTH) = TheMac
           /\ covered = <<Value(ssc)>> \o Pad(Part(r, 0, mac), BLOCK_SIZE)
        THEN Unpad(Decrypted(Part(r, text.from, text.to)))
        ELSE Error

Return ==
    /\ pc = "answered"
    /\ pc' = "done"
    /\ result' = DecryptAndVerify(apdu)
    /\ UNCHANGED <<call, ssc, cardSsc, apdu, covered, heard, answer, damaged>>

-----------------------------------------------------------------------------
(* The card (external) *)

\* BER: short lengths, or 81 and 82 with one and two octets.
Length(n) ==
    IF n < 128 THEN <<n>>
    ELSE IF n < 256 THEN <<129, n>> ELSE <<130, n \div 256, n % 256>>

\* ISO 7816-4, padding method 2: the next whole block.
IsoPadded(octets) ==
    [i \in 1 .. 16 * (Len(octets) \div 16 + 1) |->
        IF i <= Len(octets) THEN octets[i] ELSE IF i = Len(octets) + 1 THEN 128 ELSE 0]

Object(tag, value) == <<tag>> \o Length(Len(value)) \o value
CipherObject(even, data) ==
    LET cipher == Encrypted(IsoPadded(data))
    IN  IF data = <<>> THEN <<>>
        ELSE IF even THEN Object(DO87, <<1>> \o cipher) ELSE Object(DO85, cipher)

\* ISO 7816-4: what a MAC covers is padded if there is any object.
Covers(n, objects) ==
    <<n % Modulus>> \o IF objects = <<>> THEN <<>> ELSE IsoPadded(objects)

\* Is the C-APDU one that carries "data" for a card that counts n?
Carries(data, n) ==
    LET objects == CipherObject(call.ins = "even", data)
                     \o IF call.le = NoLe THEN <<>> ELSE Object(DO97, <<call.le>>)
        body    == objects \o Object(DO8E, TheMac)
    IN  apdu = <<Len(body)>> \o body /\ covered = Covers(n, objects)

Hear ==
    /\ pc = "card"
    /\ heard' = IF Carries(call.data, cardSsc + 1) THEN call.data ELSE Error
    /\ cardSsc' = (cardSsc + 2) % Modulus
    /\ pc' = "heard"
    /\ UNCHANGED <<call, ssc, apdu, covered, answer, damaged, result>>

\* The answer, in DO87 or DO85, with or without DO99, and the status 9000; at least
\* one of the objects.
Answer(data, even, status) ==
    LET objects == CipherObject(even, data)
                     \o IF status THEN Object(DO99, <<144, 0>>) ELSE <<>> IN
    /\ pc = "heard"
    /\ objects # <<>>
    /\ pc' = "answered"
    /\ answer' = data
    /\ apdu' = objects \o Object(DO8E, TheMac) \o <<144, 0>>
    /\ covered' = Covers(cardSsc, objects)
    /\ UNCHANGED <<call, ssc, cardSsc, heard, damaged, result>>

-----------------------------------------------------------------------------
(* The link (external) *)

\* Octets that mean something to the reader.
Meaningful == {0, 1, 128, 129, 130, DO85, DO87, DO8E, DO99}

\* Bound: of the ciphertext only the first octets and the last are changed.
Change(i, octet) ==
    /\ pc = "answered" /\ ~damaged
    /\ octet # apdu[i]
    /\ apdu' = [apdu EXCEPT ![i] = octet]
    /\ damaged' = TRUE
    /\ UNCHANGED <<pc, call, ssc, cardSsc, covered, heard, answer, result>>

Cut(n) ==
    /\ pc = "answered" /\ ~damaged
    /\ apdu' = SubSeq(apdu, 1, Len(apdu) - n)
    /\ damaged' = TRUE
    /\ UNCHANGED <<pc, call, ssc, cardSsc, covered, heard, answer, result>>

Next == \/ EncryptAndMac \/ Hear \/ Return
        \/ \E data \in Answers, even, status \in BOOLEAN : Answer(data, even, status)
        \/ \E i \in DOMAIN apdu, octet \in Meaningful :
              (i <= 5 \/ i > Len(apdu) - 16) /\ Change(i, octet)
        \/ \E n \in 1 .. 16 : n <= Len(apdu) /\ Cut(n)

Spec == Init /\ [][Next]_vars

-----------------------------------------------------------------------------
(* Properties *)

\* The card finds in a C-APDU what the caller gave, in the data object of its
\* instruction, under the MAC that the card computes: padding, lengths, Lc and the
\* counter are those of the standard, for data of up to 111 bytes.
CommandHeard == pc \in {"heard", "answered", "done"} => heard = call.data

\* The card's answer is returned octet for octet, whether in DO87 or DO85, in every
\* form of the length, with padding octets at its end, and over every carry of the
\* counter and its wrap to zero; one that was changed or cut on its way is returned
\* as the card sent it, or not at all.
AnswerReturned == pc = "done" => result = answer \/ (damaged /\ result = Error)
===============================================================================
