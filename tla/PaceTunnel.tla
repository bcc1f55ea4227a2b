----------------------------- MODULE PaceTunnel -----------------------------
(***************************************************************************)
(* tunnel() of ID1WithPace and ThalesWithPace: the PACE key exchange with   *)
(* the card, six exchanges one after the other over the reader's transmit,  *)
(* which sends them unprotected until an encryptor is installed and through *)
(* secure messaging from then on.                                          *)
(*                                                                         *)
(* Cryptography is symbolic: the nonce decrypts to what the card encrypted  *)
(* only under the card's own CAN; a session key is the pair of a nonce and  *)
(* the two ephemeral keys that went into it; a token verifies exactly under *)
(* the key it was made with.  The card and the link are external.           *)
(***************************************************************************)
EXTENDS Naturals

CONSTANTS
    Cans,          \* card access numbers a user may enter
    CardCan,       \* the one printed on the card
    NoCan,         \* not a CAN: what a damaged nonce decrypts with
    MaxAttempts    \* bound on the calls of tunnel()

ASSUME CanAssumption      == CardCan \in Cans /\ NoCan \notin Cans
ASSUME AttemptsAssumption == MaxAttempts \in Nat

VARIABLES
    pc,            \* the exchange tunnel() is at, or "idle"
    waiting,       \* is it in transceive?
    attempt,       \* number of this call, which also names its ephemeral keys
    can,           \* its argument
    nonce,         \* the decrypted nonce
    agreed,        \* the keys computed in this call
    keys,          \* the fields keyEnc and keyMAC
    installed,     \* has the reader got the token as its encryptor?
    ssc,           \* send sequence counter of the token
    result,        \* how the last call ended
    stage,         \* the exchange the card expects next
    run,           \* the card's key exchanges so far, naming nonce and keys
    cardAgreed,    \* the keys the card has computed in this one
    session,       \* the keys of its secure messaging session
    cardSsc,
    toCard, toHost, \* APDUs in the air
    disturbed,     \* history: did card or link fail during this call?
    reused         \* history: was tunnel() called on a token with a tunnel?

token == <<attempt, can, nonce, agreed, keys, installed, reused>>
chip  == <<stage, run, cardAgreed, session, cardSsc>>
vars  == <<pc, waiting, token, ssc, result, chip, toCard, toHost, disturbed>>

-----------------------------------------------------------------------------

Steps == <<"select", "mse", "nonce", "map", "agree", "auth">>
StepNames == {Steps[i] : i \in DOMAIN Steps}

Nonces == [can : Cans \cup {NoCan}, run : Nat]
Keys   == [nonce : Nonces, host : Nat, card : Nat]
NoKeys == [nonce |-> [can |-> NoCan, run |-> 0], host |-> 0, card |-> 0]

\* The counter needs no bound of its own: MaxAttempts bounds it.
Command == [step : StepNames, sm : BOOLEAN, keys : Keys, ctr : Nat,
            host : Nat, token : Keys]
Reply   == [sw : {"9000", "6300", "other"}, sm : BOOLEAN, keys : Keys, ctr : Nat,
            card : Nat, token : Keys, intact : BOOLEAN]
Nothing     == [kind |-> "nothing"]
IOException == [kind |-> "IOException"]

\* Types: tunnel() ends in one of its documented exceptions, and keys are those of a
\* key exchange.
TypeOK ==
    /\ pc \in StepNames \cup {"idle"}
    /\ waiting \in BOOLEAN
    /\ attempt \in 0 .. MaxAttempts
    /\ can \in Cans
    /\ nonce \in Nonces
    /\ agreed \in Keys
    /\ keys \in Keys
    /\ installed \in BOOLEAN
    /\ ssc \in Nat
    /\ result \in {"none", "ok", "PaceTunnelException", "SmartCardReaderException"}
    /\ stage \in {"none", "nonce", "map", "agree", "auth"}
    /\ run \in Nat
    /\ cardAgreed \in Keys
    /\ session \in Keys
    /\ cardSsc \in Nat
    /\ toCard \in Command \cup {Nothing}
    /\ toHost \in Reply \cup {Nothing, IOException}
    /\ disturbed \in BOOLEAN
    /\ reused \in BOOLEAN

\* A token on a card that has just come into the field.
Init ==
    /\ pc = "idle" /\ waiting = FALSE
    /\ attempt = 0 /\ can = CardCan
    /\ nonce = NoKeys.nonce /\ agreed = NoKeys /\ keys = NoKeys
    /\ installed = FALSE /\ ssc = 0 /\ result = "none"
    /\ stage = "none" /\ run = 0 /\ cardAgreed = NoKeys
    /\ session = NoKeys /\ cardSsc = 0
    /\ toCard = Nothing /\ toHost = Nothing
    /\ disturbed = FALSE /\ reused = FALSE

-----------------------------------------------------------------------------
(* The token *)

\* Mutant of Tunnel: the ephemeral keys of the last call are used again.
TunnelSameKeys(c) ==
    /\ pc = "idle"
    /\ attempt < MaxAttempts
    /\ pc' = "select"
    /\ can' = c
    /\ result' = "none"
    /\ disturbed' = FALSE
    /\ reused' = (reused \/ installed)
    /\ UNCHANGED <<waiting, attempt, nonce, agreed, keys, installed, ssc, chip,
                   toCard, toHost>>

Tunnel(c) ==
    /\ pc = "idle"
    /\ attempt < MaxAttempts
    /\ pc' = "select"
    /\ attempt' = attempt + 1
    /\ can' = c
    /\ result' = "none"
    /\ disturbed' = FALSE
    /\ reused' = (reused \/ installed)
    /\ UNCHANGED <<waiting, nonce, agreed, keys, installed, ssc, chip, toCard, toHost>>

\* Mutant of Send: unprotected C-APDUs are counted too.
SendCounting ==
    /\ pc # "idle"
    /\ ~waiting
    /\ waiting' = TRUE
    /\ toCard' = [step |-> pc, sm |-> installed, keys |-> keys, ctr |-> ssc + 1,
                  host |-> attempt, token |-> agreed]
    /\ ssc' = ssc + 2
    /\ UNCHANGED <<pc, token, result, chip, toHost, disturbed>>

\* reader.transmit: encryptAndMac counts, if an encryptor is installed.
Send ==
    /\ pc # "idle"
    /\ ~waiting
    /\ waiting' = TRUE
    /\ toCard' = [step |-> pc, sm |-> installed, keys |-> keys, ctr |-> ssc + 1,
                  host |-> attempt, token |-> agreed]
    /\ ssc' = IF installed THEN ssc + 2 ELSE ssc
    /\ UNCHANGED <<pc, token, result, chip, toHost, disturbed>>

\* transmit returns data: SW 9000, and a MAC that verifies once there is an
\* encryptor.
Returned ==
    /\ waiting
    /\ toHost \in Reply
    /\ toHost.sw = "9000"
    /\ installed => /\ toHost.sm
                    /\ toHost.keys = keys
                    /\ toHost.ctr = ssc
                    /\ toHost.intact

Proceed(next) ==
    /\ waiting' = FALSE
    /\ toHost' = Nothing
    /\ pc' = next
    /\ UNCHANGED <<attempt, can, ssc, chip, toCard, disturbed, reused>>

\* The responses to the first two commands carry nothing.
Selected ==
    /\ pc \in {"select", "mse"}
    /\ Returned
    /\ Proceed(IF pc = "select" THEN "mse" ELSE "nonce")
    /\ UNCHANGED <<nonce, agreed, keys, installed, result>>

\* Mutant of GotNonce: the nonce decrypts under any CAN.
GotAnyNonce ==
    /\ pc = "nonce"
    /\ Returned
    /\ nonce' = [can |-> CardCan, run |-> toHost.card]
    /\ Proceed("map")
    /\ UNCHANGED <<agreed, keys, installed, result>>

\* validateHeader looks at the first bytes only: damage behind them goes into the
\* nonce unseen.
GotNonce ==
    /\ pc = "nonce"
    /\ Returned
    /\ nonce' = [can |-> IF toHost.intact THEN can ELSE NoCan, run |-> toHost.card]
    /\ Proceed("map")
    /\ UNCHANGED <<agreed, keys, installed, result>>

\* decodePoint accepts a point of the curve only.
Mapped ==
    /\ pc = "map"
    /\ Returned
    /\ toHost.intact
    /\ Proceed("agree")
    /\ UNCHANGED <<nonce, agreed, keys, installed, result>>

\* Mutant of Agreed: the encryptor is installed before the tokens are exchanged.
AgreedInstalling ==
    /\ pc = "agree"
    /\ Returned
    /\ toHost.intact
    /\ agreed' = [nonce |-> nonce, host |-> attempt, card |-> toHost.card]
    /\ keys' = agreed'
    /\ installed' = TRUE
    /\ Proceed("auth")
    /\ UNCHANGED <<nonce, result>>

Agreed ==
    /\ pc = "agree"
    /\ Returned
    /\ toHost.intact
    /\ agreed' = [nonce |-> nonce, host |-> attempt, card |-> toHost.card]
    /\ Proceed("auth")
    /\ UNCHANGED <<nonce, keys, installed, result>>

\* The chip's token verifies: only now tunnel() changes the fields and installs
\* the encryptor.  The counter stays as it is.
ChipVerified ==
    /\ pc = "auth"
    /\ Returned
    /\ toHost.token = agreed
    /\ keys' = agreed
    /\ installed' = TRUE
    /\ result' = "ok"
    /\ Proceed("idle")
    /\ UNCHANGED <<nonce, agreed>>

Throw(exception) ==
    /\ result' = exception
    /\ Proceed("idle")
    /\ UNCHANGED <<nonce, agreed, keys, installed>>

\* ApduResponseException 63 00, from whichever exchange.
WrongCan ==
    /\ waiting
    /\ toHost \in Reply
    /\ toHost.sw = "6300"
    /\ Throw("PaceTunnelException")

\* Any other status word, an IOException, a MAC that does not verify, a header that
\* is not the expected one, a point that is not on the curve, a chip token that
\* does not verify.
ExchangeFailed ==
    /\ waiting
    /\ \/ toHost = IOException
       \/ /\ toHost \in Reply
          /\ \/ toHost.sw = "other"
             \/ toHost.sw = "9000" /\ ~Returned
             \/ toHost.sw = "9000" /\ ~toHost.intact /\ pc \in {"nonce", "map", "agree"}
             \/ toHost.sw = "9000" /\ toHost.token # agreed /\ pc = "auth"

\* Mutants of OtherFailure: every status word is taken for a wrong CAN, or an exchange
\* that was lost while nothing is protected is tried again, without a limit.
AnyStatusBlamesCan ==
    /\ ExchangeFailed
    /\ Throw(IF toHost \in Reply /\ toHost.sw = "other" THEN "PaceTunnelException"
             ELSE "SmartCardReaderException")
LostExchangeRepeated ==
    /\ ExchangeFailed
    /\ IF toHost = IOException /\ ~installed
       THEN /\ Proceed(pc)
            /\ UNCHANGED <<nonce, agreed, keys, installed, result>>
       ELSE Throw("SmartCardReaderException")

OtherFailure ==
    /\ ExchangeFailed
    /\ Throw("SmartCardReaderException")

Host == \/ Send
        \/ Selected \/ GotNonce \/ Mapped \/ Agreed \/ ChipVerified
        \/ WrongCan \/ OtherFailure

-----------------------------------------------------------------------------
(* The card (external) *)

\* Can the card read the C-APDU in the air?
Readable == toCard.sm => toCard.keys = session /\ session # NoKeys
                         /\ toCard.ctr = cardSsc + 1

\* An unprotected C-APDU ends the card's session; a protected one is counted.
SessionAfter == /\ session' = IF toCard.sm THEN session ELSE NoKeys
                /\ cardSsc' = IF toCard.sm THEN cardSsc + 2 ELSE 0

AnswerWith(sw, cardPublic, chipToken) ==
    /\ toHost' = [sw |-> sw, sm |-> toCard.sm, keys |-> session, ctr |-> cardSsc + 2,
                  card |-> cardPublic, token |-> chipToken, intact |-> TRUE]
    /\ toCard' = Nothing

CardSelects ==
    /\ toCard # Nothing /\ Readable
    /\ toCard.step \in {"select", "mse"}
    /\ IF toCard.step = "mse" THEN stage' = "nonce" /\ run' = run + 1
                              ELSE stage' = "none" /\ UNCHANGED run
    /\ SessionAfter
    /\ AnswerWith("9000", 0, NoKeys)
    /\ UNCHANGED <<pc, waiting, token, ssc, result, cardAgreed, disturbed>>

\* The three exchanges of the key agreement, in the card's own order.
CardExchanges ==
    /\ toCard # Nothing /\ Readable
    /\ toCard.step = stage
    /\ stage \in {"nonce", "map", "agree"}
    /\ stage' = CASE stage = "nonce" -> "map" [] stage = "map" -> "agree"
                  [] stage = "agree" -> "auth"
    /\ cardAgreed' = IF stage = "agree"
                     THEN [nonce |-> [can |-> CardCan, run |-> run],
                           host |-> toCard.host, card |-> run]
                     ELSE cardAgreed
    /\ SessionAfter
    /\ AnswerWith("9000", run, NoKeys)
    /\ UNCHANGED <<pc, waiting, token, ssc, result, run, disturbed>>

\* The reader's token verifies: the card starts a session with the new keys, after
\* it has answered under the old ones.
CardStartsSession ==
    /\ toCard # Nothing /\ Readable
    /\ toCard.step = "auth" /\ stage = "auth"
    /\ toCard.token = cardAgreed
    /\ stage' = "none"
    /\ session' = cardAgreed
    /\ cardSsc' = 0
    /\ AnswerWith("9000", 0, cardAgreed)
    /\ UNCHANGED <<pc, waiting, token, ssc, result, run, cardAgreed, disturbed>>

\* It does not: the nonce was decrypted with another CAN.
CardRefusesToken ==
    /\ toCard # Nothing /\ Readable
    /\ toCard.step = "auth" /\ stage = "auth"
    /\ toCard.token # cardAgreed
    /\ stage' = "none"
    /\ SessionAfter
    /\ AnswerWith("6300", 0, NoKeys)
    /\ UNCHANGED <<pc, waiting, token, ssc, result, run, cardAgreed, disturbed>>

\* The card fails, or it cannot read the C-APDU.
CardFails ==
    /\ toCard # Nothing
    /\ stage' = "none"
    /\ IF Readable THEN SessionAfter /\ disturbed' = TRUE
                   ELSE /\ session' \in {session, NoKeys}
                        /\ UNCHANGED <<cardSsc, disturbed>>
    /\ AnswerWith("other", 0, NoKeys)
    /\ UNCHANGED <<pc, waiting, token, ssc, result, run, cardAgreed>>

Card == CardSelects \/ CardExchanges \/ CardStartsSession \/ CardRefusesToken \/ CardFails

-----------------------------------------------------------------------------
(* The link (external) *)

LoseCommand ==
    /\ toCard # Nothing
    /\ toCard' = Nothing
    /\ toHost' = IOException
    /\ disturbed' = TRUE
    /\ UNCHANGED <<pc, waiting, token, ssc, result, chip>>

LoseReply ==
    /\ toHost \in Reply
    /\ toHost' = IOException
    /\ disturbed' = TRUE
    /\ UNCHANGED <<pc, waiting, token, ssc, result, chip, toCard>>

Damage ==
    /\ toHost \in Reply
    /\ toHost.intact
    /\ toHost' = [toHost EXCEPT !.intact = FALSE, !.token = NoKeys]
    /\ disturbed' = TRUE
    /\ UNCHANGED <<pc, waiting, token, ssc, result, chip, toCard>>

-----------------------------------------------------------------------------

Next == \/ \E c \in Cans : Tunnel(c)
        \/ Host
        \/ Card
        \/ LoseCommand
        \/ LoseReply
        \/ Damage

Spec == Init /\ [][Next]_vars

\* The calling thread runs on, and transceive ends.
FairSpec == Spec /\ WF_vars(Host) /\ WF_vars(Card \/ LoseCommand)

-----------------------------------------------------------------------------
(* Properties *)

\* When a token's first tunnel() to succeed has returned, the token and the card hold
\* the same session keys and the same counter, whatever calls failed before: the next
\* command will authenticate.  This is where SecureChannel starts.  (A second success
\* on the same token leaves its counter where it was: ssc is reset nowhere.)
SessionUsable == result = "ok" /\ ~reused => session = keys /\ ssc = cardSsc

\* tunnel() returns only to a caller with the card's own CAN.
OnlyTheRightCan == result = "ok" => can = CardCan

\* When card and link do not fail, the call's result depends on the CAN alone:
\* nothing that an earlier call left in the card or in the token spoils it, not
\* even a session the card opened although that call threw; until tunnel() is called
\* on a token that has a tunnel.
UndisturbedResult ==
    pc = "idle" /\ attempt > 0 /\ ~disturbed /\ ~reused =>
        result = IF can = CardCan THEN "ok" ELSE "PaceTunnelException"

\* The user is told of a wrong CAN only if it was wrong, or its nonce came damaged.
BlamesTheCan ==
    result = "PaceTunnelException" => can # CardCan \/ nonce.can = NoCan

\* A session key belongs to one key exchange only: the keys of a new tunnel are
\* never those of an earlier one.
FreshKeys == [][keys' # keys => keys'.host > keys.host /\ keys'.card > keys.card]_vars

\* tunnel() returns or throws.
TunnelEnds == pc # "idle" ~> pc = "idle"
=============================================================================
