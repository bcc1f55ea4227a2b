------------------------------- MODULE CardFile -------------------------------
(***************************************************************************)
(* The loops that read a file with READ BINARY: that of ID1.certificate,    *)
(* which ends at status word 6B00, and that of Thales.readFile, which ends  *)
(* at the size that the file control information announces.  The card and  *)
(* the link are external.  Bytes are told apart by their position.         *)
(***************************************************************************)
EXTENDS Naturals

CONSTANTS
    ByteValues,    \* 256: P1 and P2, which hold the offset, are bytes
    DefaultSize,   \* 0xE5: size without file control information, and the most that
                   \* Thales reads at once
    FileLengths    \* lengths of the file on the card

\* A READ BINARY whose P1 has its first bit set names a file in the other bits: only
\* what lies below can be addressed.
Limit == ByteValues * (ByteValues \div 2)

ASSUME ByteAssumption    == ByteValues \in Nat /\ ByteValues > 1
ASSUME SizeAssumption    == DefaultSize \in Nat \ {0}
ASSUME LengthsAssumption == FileLengths \subseteq 0 .. (Limit - 1)

VARIABLES
    kind,          \* which loop it is: "ID1" or "Thales"
    length,        \* of the file
    announced,     \* what its control information says, NoSize if nothing
    pc,            \* "select", "loop", "read" while the card reads, or "done"
    size,          \* the local variable of readFile
    got,           \* stream.size()
    garbled,       \* are there other bytes in the stream than the file's?
    command,       \* P1, P2 and Le of the last READ BINARY
    outcome,       \* of the call
    faulted        \* history: did card or link fail?

vars == <<kind, length, announced, pc, size, got, garbled, command, outcome, faulted>>

NoSize == [known |-> FALSE, size |-> 0]
Sizes  == {[known |-> TRUE, size |-> n] : n \in FileLengths} \cup {NoSize}
Bytes  == 0 .. ByteValues - 1

TypeOK ==
    /\ kind \in {"ID1", "Thales"}
    /\ length \in FileLengths
    /\ announced \in Sizes
    /\ pc \in {"select", "loop", "read", "done"}
    /\ size \in Nat
    /\ got \in Nat
    /\ garbled \in BOOLEAN
    /\ command \in [p1 : Bytes, p2 : Bytes, le : Nat]
    /\ outcome \in {"none", "data", "exception"}
    /\ faulted \in BOOLEAN

\* The control information may give more than there is, for what is allocated.
Init ==
    /\ kind \in {"ID1", "Thales"}
    /\ length \in FileLengths
    /\ announced \in {s \in Sizes : s.known => s.size >= length}
    /\ pc = "select" /\ size = 0 /\ got = 0 /\ garbled = FALSE
    /\ command = [p1 |-> 0, p2 |-> 0, le |-> 0]
    /\ outcome = "none" /\ faulted = FALSE

-----------------------------------------------------------------------------
(* The token *)

Least(a, b) == IF a <= b THEN a ELSE b

\* SELECT: Thales looks into the answer for tags 80 and 81.
Select ==
    /\ pc = "select"
    /\ pc' = "loop"
    /\ size' = IF announced.known THEN announced.size ELSE DefaultSize
    /\ UNCHANGED <<kind, length, announced, got, garbled, command, outcome, faulted>>

More == kind = "Thales" => got < size

\* Mutant of ReadBinary: P1 is left zero.
ReadBinaryFirst ==
    /\ pc = "loop" /\ More
    /\ pc' = "read"
    /\ command' = [p1 |-> 0, p2 |-> got % ByteValues,
                   le |-> IF kind = "ID1" THEN ByteValues
                          ELSE Least(DefaultSize, size - got)]
    /\ UNCHANGED <<kind, length, announced, size, got, garbled, outcome, faulted>>

\* READ BINARY at the end of the stream; Le 00 asks for 256 bytes.
ReadBinary ==
    /\ pc = "loop" /\ More
    /\ pc' = "read"
    /\ command' = [p1 |-> (got \div ByteValues) % ByteValues, p2 |-> got % ByteValues,
                   le |-> IF kind = "ID1" THEN ByteValues
                          ELSE Least(DefaultSize, size - got)]
    /\ UNCHANGED <<kind, length, announced, size, got, garbled, outcome, faulted>>

End(how) == pc' = "done" /\ outcome' = how

ReadAll ==
    /\ pc = "loop" /\ ~More
    /\ End("data")
    /\ UNCHANGED <<kind, length, announced, size, got, garbled, command, faulted>>

-----------------------------------------------------------------------------
(* The card and its link (external), and what the token does with the answer *)

Offset == command.p1 * ByteValues + command.p2
Names  == command.p1 >= ByteValues \div 2

\* Mutant of Answered: a short answer is asked for again.
AnsweredAgain(n) ==
    /\ pc = "read" /\ ~Names /\ Offset < length
    /\ n <= Least(command.le, length - Offset)
    /\ got' = IF n < command.le THEN got ELSE got + n
    /\ garbled' = (garbled \/ Offset # got)
    /\ pc' = "loop"
    /\ UNCHANGED <<kind, length, announced, size, command, outcome, faulted>>

\* At least one byte, and as many as asked for or fewer: stream.write.
Answered(n) ==
    /\ pc = "read" /\ ~Names /\ Offset < length
    /\ n <= Least(command.le, length - Offset)
    /\ got' = got + n
    /\ garbled' = (garbled \/ Offset # got)
    /\ pc' = "loop"
    /\ UNCHANGED <<kind, length, announced, size, command, outcome, faulted>>

\* Mutant of PastTheEnd: 6B00 is an error.
PastTheEndThrows ==
    /\ pc = "read" /\ ~Names /\ Offset >= length
    /\ End("exception")
    /\ UNCHANGED <<kind, length, announced, size, got, garbled, command, faulted>>

\* 6B00: the loop ends.
PastTheEnd ==
    /\ pc = "read" /\ ~Names /\ Offset >= length
    /\ End("data")
    /\ UNCHANGED <<kind, length, announced, size, got, garbled, command, faulted>>

\* Another status word, or no answer.
Failed ==
    /\ pc = "read"
    /\ End("exception")
    /\ faulted' = TRUE
    /\ UNCHANGED <<kind, length, announced, size, got, garbled, command>>

\* No answer with 9000 is empty.
Exchange == \/ \E n \in 1 .. ByteValues : Answered(n)
            \/ PastTheEnd

Token == Select \/ ReadBinary \/ ReadAll

Next == Token \/ Exchange \/ Failed

Spec == Init /\ [][Next]_vars

\* The calling thread runs on, and a transmit ends.
FairSpec == Spec /\ WF_vars(Token) /\ WF_vars(Exchange \/ Failed)

-----------------------------------------------------------------------------
(* Properties *)

\* What the loop returns is the whole file and nothing else, however the card cuts it
\* into answers; without control information, of a file of up to DefaultSize bytes.
WholeFile ==
    outcome = "data" => \/ ~garbled /\ got = length
                        \/ kind = "Thales" /\ ~announced.known /\ DefaultSize < length

\* The loop throws only if the card or the link failed: it meets no end of the file
\* that it does not expect, whether or not the announced size is that of the file.
ThrowsOnFailure == outcome = "exception" => faulted

\* Reading ends, although ID1's loop has no bound but 6B00, and Thales's trusts the
\* announced size.
ReadEnds == <>(pc = "done")
===============================================================================
