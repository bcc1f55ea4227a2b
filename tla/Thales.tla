-------------------------------- MODULE Thales --------------------------------
(***************************************************************************)
(* The operations of Thales, the token of Thales cards, as scripts, in the  *)
(* terms of ID1.  All codes and keys are in one application.               *)
(***************************************************************************)
EXTENDS CardCommand

Main == SelectApp("main")

\* readFile: one READ BINARY stands for the loop, which CardFile models.  The loop wraps
\* the errors that do not end it.
File(name) == <<SelectFile(name), ReadWrapped>>

PersonalData == <<Main, SelectFile("personal")>> \o Repeated(8, File("record"))
Certificate  == <<Main>> \o File("certificate")

CodeRetryCounter(type) == <<Main, Plain("counter", type, "")>>
PinChangedFlag         == <<Main, Plain("changed flag", "PIN2", "")>>

ChangeCode(type, current) ==
    <<Main>> \o IF type = "PUK" THEN <<Throw("SmartCardReaderException")>>
                ELSE <<Command("change", type, current, type)>>

\* Mutants of UnblockAndChangeCode: P1 02, as if the PUK had been verified; a wrong PUK
\* is reported as a wrong PIN.
UnblockWithoutPuk(puk, type) ==
    <<Main>> \o IF type = "PUK" THEN <<Throw("SmartCardReaderException")>>
                ELSE <<Command("unblock", type, "", "PUK")>>
UnblockBlamesThePin(puk, type) ==
    <<Main>> \o
      CASE type = "PUK"   -> <<Throw("SmartCardReaderException")>>
        [] puk = "null"   -> <<Throw("NullPointerException")>>
        [] OTHER          -> <<Command("unblock with PUK", type, puk, type)>>

\* code(null) throws, whatever P1 has been chosen.
UnblockAndChangeCode(puk, type) ==
    <<Main>> \o
      CASE type = "PUK" -> <<Throw("SmartCardReaderException")>>
        [] type # "PUK" /\ puk = "null" -> <<Throw("NullPointerException")>>
        [] type # "PUK" /\ puk # "null" -> <<Command("unblock with PUK", type, puk, "PUK")>>

\* Mutant of Sign: the PIN is taken as verified.
SignUnverified(type, pin, key, hash) ==
    <<SetEnv("B6", key), Plain("hash", "", hash), Plain("sign", "", "")>>

Sign(type, pin, key, hash) ==
    <<Verify(type, pin), SetEnv("B6", key), Plain("hash", "", hash),
      Plain("sign", "", "")>>

\* Mutant of CalculateSignature: PIN2 is verified against PIN1.
CalculateSignatureByPin1(pin2, hash) ==
    PinChangedFlag \o <<RequireNonZero>> \o Sign("PIN1", pin2, "sign", hash)

CalculateSignature(pin2, hash) ==
    PinChangedFlag \o <<RequireNonZero>> \o Sign("PIN2", pin2, "sign", hash)

\* Mutant of Authenticate: the security environment is left as it is.
AuthenticateAsSet(pin1, hash) ==
    <<Verify("PIN1", pin1), Plain("hash", "", hash), Plain("sign", "", "")>>

\* Authenticate and Decrypt select no application.
Authenticate(pin1, hash) == Sign("PIN1", pin1, "auth", hash)

Decrypt(pin1) ==
    <<Verify("PIN1", pin1), SetEnv("B8", "auth"), Plain("decipher", "", "")>>

Script(call) ==
    CASE call.op = "personalData"         -> PersonalData
      [] call.op = "certificate"          -> Certificate
      [] call.op = "codeRetryCounter"     -> CodeRetryCounter(call.type)
      [] call.op = "pinChangedFlag"       -> PinChangedFlag
      [] call.op = "changeCode"           -> ChangeCode(call.type, call.code)
      [] call.op = "unblockAndChangeCode" -> UnblockAndChangeCode(call.code, call.type)
      [] call.op = "calculateSignature"   -> CalculateSignature(call.code, call.hash)
      [] call.op = "authenticate"         -> Authenticate(call.code, call.hash)
      [] call.op = "decrypt"              -> Decrypt(call.code)

\* handleApduResponseException: the status words that become CodeVerificationException.
CodeFailures == {"63C2", "63C1", "63C0", "6983", "6984"}
===============================================================================
