--------------------------------- MODULE Token ---------------------------------
(***************************************************************************)
(* A token over a card: the calls of the Token interface, one after the     *)
(* other, as ID1 or Thales carries them out.  Every C-APDU of a call is one *)
(* step: transmit is synchronous and one thread makes the calls.  Between   *)
(* two steps the card may lose its power, and with it all but its counters. *)
(* The card is external.                                                   *)
(***************************************************************************)
EXTENDS CardCommand

CONSTANTS
    MaxTries,      \* attempts of a code: three on these cards
    Hashes         \* what the client has signed

ASSUME TriesAssumption  == MaxTries \in 1 .. 3

VARIABLES
    kind,          \* of the token: "ID1" or "Thales"
    call,          \* the call that is open, or was last
    script,        \* what is left of it
    answer,        \* what the last C-APDU returned
    outcome,       \* how the call ended
    card,          \* the card's state
    before,        \* history: the card's counters and application when the call began
    disturbed      \* history: did card or link fail during the call?

vars == <<kind, call, script, answer, outcome, card, before, disturbed>>

Idemia == INSTANCE ID1
Gemalto == INSTANCE Thales

Script(c)    == IF kind = "ID1" THEN Idemia!Script(c) ELSE Gemalto!Script(c)
CodeFailures == IF kind = "ID1" THEN Idemia!CodeFailures ELSE Gemalto!CodeFailures

-----------------------------------------------------------------------------
(* Types *)

None == "none"
PIN(op) == IF op = "calculateSignature" THEN "PIN2" ELSE "PIN1"
PinOps  == {"calculateSignature", "authenticate", "decrypt"}
Ops     == PinOps \cup {"personalData", "certificate", "codeRetryCounter", "changeCode",
                        "unblockAndChangeCode", "pinChangedFlag"}
Call(op, type, code, hash) == [op |-> op, type |-> type, code |-> code, hash |-> hash]

\* What a client may call.  "null" is a PUK: the code asks for it.
TokenCalls ==
    {c \in [op : Ops, type : CodeTypes, code : CodeTypes \cup {"wrong", "null", ""},
            hash : Hashes \cup {""}] :
        CASE c.op \in {"personalData", "certificate", "pinChangedFlag"} ->
                c = Call(c.op, "PIN2", "", "")
          [] c.op = "codeRetryCounter" -> c = Call(c.op, c.type, "", "")
          [] c.op = "changeCode" -> c.code \in {c.type, "wrong"} /\ c.hash = ""
          [] c.op = "unblockAndChangeCode" ->
                /\ c.code \in {"PUK", "wrong", "null"} /\ c.hash = ""
                /\ c.type # "PUK"
          [] c.op = "decrypt" ->
                c.type = "PIN1" /\ c.code \in {"PIN1", "wrong"} /\ c.hash = ""
          [] c.op \in {"calculateSignature", "authenticate"} ->
                c.type = PIN(c.op) /\ c.code \in {PIN(c.op), "wrong"} /\ c.hash # ""}

\* ID1's pinChangedFlag returns 1 without a C-APDU.
Calls == {c \in TokenCalls : c.op = "pinChangedFlag" => kind = "Thales"}

NoCall  == Call(None, "PIN1", "", "")
Nothing == [of |-> None, value |-> 0, key |-> None, hash |-> ""]
Number(of, n) == [of |-> of, value |-> n, key |-> None, hash |-> ""]
Signature(key, hash) == [of |-> "signature", value |-> 0, key |-> key, hash |-> hash]

Ended(how, type, left) == [how |-> how, type |-> type, left |-> left]
Open == Ended("open", None, 0)

Keys == {"sign", "auth"}
Cards == [app : {None, "main", "qscd", "oberthur"},
          file : {None, "personal", "record", "certificate"},
          verified : SUBSET CodeTypes,
          env : [{"B6", "A4", "B8"} -> Keys \cup {None}],
          hashed : Hashes \cup {""},
          changed : BOOLEAN,
          tries : [CodeTypes -> 0 .. MaxTries]]

Commands == [ins : {"select", "select file", "read", "counter", "changed flag", "verify",
                    "change", "unblock", "unblock with PUK", "set environment", "hash",
                    "sign", "authenticate", "decipher", "throw", "require"},
             ref : {"main", "qscd", "oberthur", "personal", "record", "certificate",
                    "B6", "A4", "B8", "SmartCardReaderException", "NullPointerException", ""}
                   \cup CodeTypes,
             arg : {"wrong", "null", ""} \cup CodeTypes \cup Keys \cup Hashes,
             blame : CodeTypes \cup {"nobody", "wrapped"}]
Answers  == [of : {None, "counter", "flag", "data", "signature"}, value : 0 .. MaxTries,
             key : Keys \cup {None}, hash : Hashes \cup {""}]

\* Types.  "RuntimeException" stands for every unchecked exception but the
\* NullPointerException of a PUK that is null.
TypeOK ==
    /\ kind \in {"ID1", "Thales"}
    /\ call \in Calls \cup {NoCall}
    /\ script \in Seq(Commands)
    /\ answer \in Answers
    /\ outcome \in [how : {"open", "ok", "CodeVerificationException",
                           "ApduResponseException", "SmartCardReaderException",
                           "RuntimeException", "NullPointerException"},
                    type : CodeTypes \cup {None}, left : 0 .. 2]
    /\ card \in Cards
    /\ before \in [app : {None, "main", "qscd", "oberthur"},
                   tries : [CodeTypes -> 0 .. MaxTries]]
    /\ disturbed \in BOOLEAN

NoEnv == [t \in {"B6", "A4", "B8"} |-> None]

\* The card as it is after a reset.
Reset(c) == [c EXCEPT !.app = None, !.file = None, !.verified = {}, !.env = NoEnv,
                      !.hashed = ""]

\* What of the card a call's result depends on.
Standing(c) == [app |-> c.app, tries |-> c.tries]

\* Token.create selects the main application of a Thales card.  TokenWithPace.create
\* and tunnel leave none that the operations rely on.
Init ==
    /\ kind \in {"ID1", "Thales"}
    /\ call = NoCall /\ script = <<>> /\ answer = Nothing
    /\ outcome = Ended("ok", None, 0)
    /\ \E changed \in {TRUE, kind = "ID1"},
          app \in IF kind = "ID1" THEN {None} ELSE {None, "main"} :
        card = [app |-> app,
                file |-> None, verified |-> {}, env |-> NoEnv, hashed |-> "",
                changed |-> changed, tries |-> [t \in CodeTypes |-> MaxTries]]
    /\ before = Standing(card)
    /\ disturbed = FALSE

-----------------------------------------------------------------------------
(* The card (external) *)

Response(c, sw, data) == [card |-> c, sw |-> sw, data |-> data]
Done(c)        == Response(c, "9000", Nothing)
Refused(c, sw) == Response(c, sw, Nothing)
Tries(n)       == CASE n = 0 -> "63C0" [] n = 1 -> "63C1" [] n = 2 -> "63C2"

\* On an IDEMIA card PIN2 belongs to the QSCD application, the others to the card.
Reachable(c, type) ==
    IF kind = "ID1" THEN type # "PIN2" \/ c.app = "qscd" ELSE c.app = "main"

\* Another application than the selected one: PIN2 has to be verified again.
Selects(c, app) ==
    Done(IF app = c.app THEN [c EXCEPT !.file = None]
         ELSE [Reset(c) EXCEPT !.app = app, !.verified = c.verified \ {"PIN2"}])

\* The card checks a code, and goes on as "right" says if it is the right one.
Checks(c, type, code, right) ==
    CASE ~Reachable(c, type) -> Refused(c, "6A88")
      [] Reachable(c, type) /\ c.tries[type] = 0 -> Refused(c, "6983")
      [] Reachable(c, type) /\ c.tries[type] > 0 /\ code = type ->
            Done([right EXCEPT !.tries[type] = MaxTries])
      [] Reachable(c, type) /\ c.tries[type] > 0 /\ code # type ->
            Refused([c EXCEPT !.tries[type] = @ - 1, !.verified = @ \ {type}],
                    Tries(c.tries[type] - 1))

\* RESET RETRY COUNTER with a new code only: the PUK has to be verified.
Unblocks(c, type) ==
    IF Reachable(c, type) /\ "PUK" \in c.verified
    THEN Done([c EXCEPT !.tries[type] = MaxTries, !.changed = @ \/ type = "PIN2"])
    ELSE Refused(c, "6982")

KeyCode(key) == IF key = "sign" THEN "PIN2" ELSE "PIN1"
KeyHere(c, key) ==
    IF kind = "ID1" THEN c.app = IF key = "sign" THEN "qscd" ELSE "oberthur"
                    ELSE c.app = "main"

\* A private key works in the environment it is set in, once its code is verified.
\* PIN2 serves one signature.
Uses(c, template, data) ==
    LET key == c.env[template] IN
    IF key # None /\ KeyCode(key) \in c.verified
    THEN Response([c EXCEPT !.verified = @ \ (IF key = "sign" THEN {"PIN2"} ELSE {}),
                            !.hashed = ""], "9000", data)
    ELSE Refused(c, "6982")

Returns(possible, c, data) ==
    IF possible THEN Response(c, "9000", data) ELSE Refused(c, "6A88")
Becomes(possible, c, new) == IF possible THEN Done(new) ELSE Refused(c, "6A88")

CardResponse(c, cmd) ==
    CASE cmd.ins = "select" -> Selects(c, cmd.ref)
      [] cmd.ins = "select file" -> Becomes(c.app # None, c, [c EXCEPT !.file = cmd.ref])
      [] cmd.ins = "read" -> Returns(c.file # None, c, Number("data", 0))
      [] cmd.ins = "counter" ->
            Returns(Reachable(c, cmd.ref), c, Number("counter", c.tries[cmd.ref]))
      [] cmd.ins = "changed flag" ->
            Returns(c.app = "main", c, Number("flag", IF c.changed THEN 1 ELSE 0))
      [] cmd.ins = "verify" ->
            Checks(c, cmd.ref, cmd.arg, [c EXCEPT !.verified = @ \cup {cmd.ref}])
      [] cmd.ins = "change" ->
            Checks(c, cmd.ref, cmd.arg, [c EXCEPT !.changed = @ \/ cmd.ref = "PIN2"])
      [] cmd.ins = "unblock" -> Unblocks(c, cmd.ref)
      [] cmd.ins = "unblock with PUK" ->
            Checks(c, "PUK", cmd.arg, [c EXCEPT !.tries[cmd.ref] = MaxTries,
                                                !.changed = @ \/ cmd.ref = "PIN2"])
      [] cmd.ins = "set environment" ->
            Becomes(KeyHere(c, cmd.arg), c, [c EXCEPT !.env[cmd.ref] = cmd.arg])
      [] cmd.ins = "hash" -> Becomes(c.app # None, c, [c EXCEPT !.hashed = cmd.arg])
      [] cmd.ins = "sign" ->
            Uses(c, "B6", Signature(c.env["B6"], IF cmd.arg = "" THEN c.hashed ELSE cmd.arg))
      [] cmd.ins = "authenticate" -> Uses(c, "A4", Signature(c.env["A4"], cmd.arg))
      [] cmd.ins = "decipher" -> Uses(c, "B8", Number("data", 0))

-----------------------------------------------------------------------------
(* The token *)

Begin(c) ==
    /\ outcome # Open
    /\ call' = c
    /\ script' = Script(c)
    /\ answer' = Nothing
    /\ outcome' = Open
    /\ before' = Standing(card)
    /\ disturbed' = FALSE
    /\ UNCHANGED <<kind, card>>

\* The call has ended; what it leaves behind is in the card.
End(how, type, left) == outcome' = Ended(how, type, left) /\ script' = <<>>

Proceed(data) ==
    /\ answer' = data
    /\ IF Tail(script) = <<>> THEN End("ok", None, 0)
       ELSE script' = Tail(script) /\ UNCHANGED outcome

\* Mutant of ApduError: the attempts are those used.
ApduErrorUsed(cmd, sw) ==
    IF cmd.blame \in CodeTypes /\ sw \in CodeFailures
    THEN End("CodeVerificationException", cmd.blame,
             CASE sw = "63C2" -> 1 [] sw = "63C1" -> 2 [] OTHER -> 3)
    ELSE End(IF cmd.blame = "wrapped" THEN "SmartCardReaderException"
             ELSE "ApduResponseException", None, 0)

\* transmit throws ApduResponseException; handleApduResponseException may make it a
\* CodeVerificationException with what is left: 2, 1, or else 0.
ApduError(cmd, sw) ==
    IF cmd.blame \in CodeTypes /\ sw \in CodeFailures
    THEN End("CodeVerificationException", cmd.blame,
             CASE sw = "63C2" -> 2 [] sw = "63C1" -> 1 [] OTHER -> 0)
    ELSE End(IF cmd.blame = "wrapped" THEN "SmartCardReaderException"
             ELSE "ApduResponseException", None, 0)

AtCommand == script # <<>> /\ Head(script).ins \notin {"throw", "require"}

Exchange ==
    /\ AtCommand
    /\ LET cmd == Head(script)
           got == CardResponse(card, cmd)
       IN  /\ card' = got.card
           /\ IF got.sw = "9000" THEN Proceed(got.data)
              ELSE ApduError(cmd, got.sw) /\ UNCHANGED answer
    /\ UNCHANGED <<kind, call, before, disturbed>>

\* pinChangedFlag() == 0.
Require ==
    /\ script # <<>> /\ Head(script).ins = "require"
    /\ IF answer.value = 0 THEN End("SmartCardReaderException", None, 0) /\ UNCHANGED answer
       ELSE Proceed(answer)
    /\ UNCHANGED <<kind, call, card, before, disturbed>>

ThrowItself ==
    /\ script # <<>> /\ Head(script).ins = "throw"
    /\ End(Head(script).ref, None, 0)
    /\ UNCHANGED <<kind, call, answer, card, before, disturbed>>

\* transmit throws, whether the card has acted or not.  The RuntimeException is that of
\* an answer over NFC that the card has not authenticated.
TransmitFails ==
    /\ AtCommand
    /\ card' \in {card, CardResponse(card, Head(script)).card}
    /\ \E how \in {"SmartCardReaderException", "RuntimeException"} : End(how, None, 0)
    /\ disturbed' = TRUE
    /\ UNCHANGED <<kind, call, answer, before>>

\* The card has returned all of a result, and the code can make nothing of it: the parser
\* of the records throws, or ID1 finds no octet where the counter should be.
Unreadable ==
    /\ AtCommand /\ Tail(script) = <<>>
    /\ call.op = "personalData" \/ (kind = "ID1" /\ call.op = "codeRetryCounter")
    /\ CardResponse(card, Head(script)).sw = "9000"
    /\ End("RuntimeException", None, 0)
    /\ disturbed' = TRUE
    /\ UNCHANGED <<kind, call, answer, card, before>>

\* The card fails to do what it is asked to, and says so in a status word of its own.
CardFails ==
    /\ AtCommand
    /\ ApduError(Head(script), "6F00")
    /\ disturbed' = TRUE
    /\ UNCHANGED <<kind, call, answer, card, before>>

\* Power goes and comes, during a call or between two.
CardReset ==
    /\ card' = Reset(card)
    /\ disturbed' = (disturbed \/ outcome = Open)
    /\ UNCHANGED <<kind, call, script, answer, outcome, before>>

Token == Exchange \/ Require \/ ThrowItself

Next == \/ \E c \in Calls : Begin(c)
        \/ Token
        \/ TransmitFails \/ Unreadable \/ CardFails \/ CardReset

Spec == Init /\ [][Next]_vars

-----------------------------------------------------------------------------
(* Properties *)

\* What the caller is told of a counter is what the card holds: the attempts in a
\* CodeVerificationException, for the code it names, and codeRetryCounter's result.
AttemptsReported ==
    /\ outcome.how = "CodeVerificationException" =>
          outcome.left = card.tries[outcome.type]
    /\ outcome.how = "ok" /\ call.op = "codeRetryCounter" =>
          answer = Number("counter", card.tries[call.type])

\* The code a call passes, and whose counter a wrong one may cost an attempt.
Passed(c) ==
    CASE c.op = "changeCode" -> {c.type}
      [] c.op = "unblockAndChangeCode" -> {"PUK"}
      [] c.op \in PinOps -> {PIN(c.op)}
      [] OTHER -> {}

\* A call costs no attempt but one of the code it passes, and only if that is wrong,
\* whatever fails on the way.  This is what the code does, not what Token.java:60 says of
\* unblockAndChangeCode: "When PIN1/PIN2 is not blocked yet it will be blocked before
\* unblocking", at the cost of its attempts.  Neither token does so.
OneAttemptPerCall ==
    \A t \in CodeTypes :
        before.tries[t] - card.tries[t] <= IF t \in Passed(call) /\ call.code # t THEN 1 ELSE 0

\* A call that passes a code succeeds only if it is the right one, though an earlier
\* call may have left a code verified or a key set in the card.
RightCodeRequired == outcome.how = "ok" => \A t \in Passed(call) : call.code = t

\* A signature is one over this call's hash, and by the key of the operation.
TheSignature ==
    outcome.how = "ok" /\ call.op \in {"calculateSignature", "authenticate"} =>
        answer = Signature(IF call.op = "calculateSignature" THEN "sign" ELSE "auth", call.hash)

\* What a call needs: the right code, not blocked, and a changed PIN2 for a signature.
\* Three limits of the code are left out.  Thales's authenticate and decrypt select no
\* application, so that they need one that an earlier call has selected; its changeCode
\* refuses the PUK, which Token.java:46 names among the codes it changes; ID1's
\* unblockAndChangeCode does not send the PUK, and so never succeeds.
Entitled(c) ==
    /\ \A t \in Passed(c) : c.code = t /\ before.tries[t] > 0
    /\ c.op = "calculateSignature" => card.changed
    /\ kind = "Thales" /\ c.op = "changeCode" => c.type # "PUK"
    /\ kind = "Thales" /\ c.op \in {"authenticate", "decrypt"} => before.app = "main"
    /\ kind = "ID1" => c.op # "unblockAndChangeCode"

\* The Token interface leaves it to the token to bring the card into the state that an
\* operation needs: when nothing fails during a call, a user with the right code gets
\* the result, whatever was called before, and whatever of that had failed.
RightCodeWorks ==
    call # NoCall /\ outcome # Open /\ ~disturbed /\ Entitled(call) => outcome.how = "ok"
===============================================================================
