----------------------------- MODULE CardCommand -----------------------------
(***************************************************************************)
(* The C-APDUs that the tokens send, abstracted to what a card does with    *)
(* them.  A token's operation is a script: its C-APDUs in order, with what  *)
(* the code does when the card answers one of them with an error.          *)
(***************************************************************************)
EXTENDS Naturals, Sequences

CodeTypes == {"PIN1", "PIN2", "PUK"}

\* "blame" is the CodeType in whose name handleApduResponseException reports; for
\* "nobody" the ApduResponseException goes to the caller as it is, and for "wrapped" it
\* does so as the cause of a SmartCardReaderException.
Command(ins, ref, arg, blame) ==
    [ins |-> ins, ref |-> ref, arg |-> arg, blame |-> blame]

Plain(ins, ref, arg) == Command(ins, ref, arg, "nobody")

SelectApp(app)   == Plain("select", app, "")
SelectFile(file) == Plain("select file", file, "")
ReadFile         == Plain("read", "", "")
ReadWrapped      == Command("read", "", "", "wrapped")
SetEnv(template, key) == Plain("set environment", template, key)
Verify(type, code)    == Command("verify", type, code, type)

\* Not a C-APDU: the operation throws here.
Throw(exception) == Plain("throw", exception, "")
\* Not one either: the operation goes on only if the last answer is not zero.
RequireNonZero   == Plain("require", "", "")

Repeated(n, script) == [i \in 1 .. n * Len(script) |-> script[1 + ((i - 1) % Len(script))]]
===============================================================================
