--------------------------------- MODULE ID1 ---------------------------------
(***************************************************************************)
(* The operations of ID1, the token of IDEMIA cards, as scripts.  ID1 keeps *)
(* no state: all of it is in the card.  A code is abstracted to the name of *)
(* the code it is ("PIN1" is the right PIN1), or "wrong".                   *)
(***************************************************************************)
EXTENDS CardCommand

SelectFor(type) == SelectApp(IF type = "PIN2" THEN "qscd" ELSE "main")

\* Eight records, each selected and read.  What the parser makes of them is Unreadable.
PersonalData ==
    <<SelectApp("main"), SelectFile("personal")>>
        \o Repeated(8, <<SelectFile("record"), ReadFile>>)

\* One READ BINARY stands for the loop, which CardFile models.  The loop wraps the errors
\* that do not end it.
Certificate == <<SelectApp("main"), SelectFile("certificate"), ReadWrapped>>

CodeRetryCounter(type) == <<SelectFor(type), Plain("counter", type, "")>>

\* Mutant of ChangeCode: the two codes are joined the other way round, so that
\* the card compares the new one.
ChangeCodeSwapped(type, current) ==
    <<SelectFor(type), Command("change", type, "wrong", type)>>

ChangeCode(type, current) ==
    <<SelectFor(type), Command("change", type, current, type)>>

\* The PUK is not sent, and only PIN2 selects an application.
UnblockAndChangeCode(puk, type) ==
    (IF type = "PIN2" THEN <<SelectFor(type)>> ELSE <<>>)
        \o <<Command("unblock", type, "", "PUK")>>

\* Mutant of CalculateSignature: the application that is selected will do.
CalculateSignatureAnywhere(pin2, hash) ==
    <<Verify("PIN2", pin2), SetEnv("B6", "sign"), Plain("sign", "", hash)>>

CalculateSignature(pin2, hash) ==
    <<SelectApp("qscd"), Verify("PIN2", pin2), SetEnv("B6", "sign"),
      Plain("sign", "", hash)>>

\* Mutants of Authenticate: PIN1 is taken as verified; a wrong PIN1 is reported as
\* a wrong PIN2.
AuthenticateUnverified(pin1, hash) ==
    <<SelectApp("oberthur"), SetEnv("A4", "auth"), Plain("authenticate", "", hash)>>
AuthenticateBlamesPin2(pin1, hash) ==
    <<SelectApp("oberthur"), Command("verify", "PIN1", pin1, "PIN2"),
      SetEnv("A4", "auth"), Plain("authenticate", "", hash)>>

Authenticate(pin1, hash) ==
    <<SelectApp("oberthur"), Verify("PIN1", pin1), SetEnv("A4", "auth"),
      Plain("authenticate", "", hash)>>

Decrypt(pin1) ==
    <<SelectApp("oberthur"), Verify("PIN1", pin1), SetEnv("B8", "auth"),
      Plain("decipher", "", "")>>

\* pinChangedFlag returns 1 without asking the card.
Script(call) ==
    CASE call.op = "personalData"         -> PersonalData
      [] call.op = "certificate"          -> Certificate
      [] call.op = "codeRetryCounter"     -> CodeRetryCounter(call.type)
      [] call.op = "changeCode"           -> ChangeCode(call.type, call.code)
      [] call.op = "unblockAndChangeCode" -> UnblockAndChangeCode(call.code, call.type)
      [] call.op = "calculateSignature"   -> CalculateSignature(call.code, call.hash)
      [] call.op = "authenticate"         -> Authenticate(call.code, call.hash)
      [] call.op = "decrypt"              -> Decrypt(call.code)

\* handleApduResponseException: the status words that become CodeVerificationException.
CodeFailures == {"63C2", "63C1", "63C0", "6983"}
===============================================================================
