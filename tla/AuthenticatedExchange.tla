------------------------ MODULE AuthenticatedExchange ------------------------
(***************************************************************************)
(* What a secure channel promises to the code that calls transmit: calls   *)
(* are made one at a time; the card carries out a call at most once, with  *)
(* all of its data, while the call is open; a call that returns data was   *)
(* carried out, and any call may instead end with an exception, which      *)
(* leaves open whether the card carried it out.                            *)
(***************************************************************************)
EXTENDS Naturals, Sequences

CONSTANT DataLengths    \* lengths of command data that callers pass

VARIABLES calls,        \* number of calls made so far; the last is number calls
          open,         \* is that call still open?
          length,       \* how many bytes of data it carries
          ran,          \* what the card has carried out, in order
          answer        \* how the last call ended: "none" while it is open

vars == <<calls, open, length, ran, answer>>

TypeOK == /\ calls \in Nat
          /\ open \in BOOLEAN
          /\ length \in DataLengths \cup {0}
          /\ ran \in Seq([req : Nat, bytes : Nat])
          /\ answer \in {"none", "data", "exception"}

Init == /\ calls = 0
        /\ open = FALSE
        /\ length = 0
        /\ ran = <<>>
        /\ answer = "none"

\* The entry the card's history gets when it carries out the open call.
Entry == [req |-> calls, bytes |-> length]

HasRun == ran # <<>> /\ ran[Len(ran)] = Entry

Call(n) == /\ ~open
           /\ open' = TRUE
           /\ calls' = calls + 1
           /\ length' = n
           /\ answer' = "none"
           /\ UNCHANGED ran

Run == /\ open
       /\ ~HasRun
       /\ ran' = Append(ran, Entry)
       /\ UNCHANGED <<calls, open, length, answer>>

Return == /\ open
          /\ HasRun
          /\ open' = FALSE
          /\ answer' = "data"
          /\ UNCHANGED <<calls, length, ran>>

Throw == /\ open
         /\ open' = FALSE
         /\ answer' = "exception"
         /\ UNCHANGED <<calls, length, ran>>

Next == \/ \E n \in DataLengths : Call(n)
        \/ Run
        \/ Return
        \/ Throw

Spec == Init /\ [][Next]_vars

\* A call that was made ends.
FairSpec == Spec /\ WF_vars(Return \/ Throw)
=============================================================================
