----------------------------- MODULE Token_proofs -----------------------------
(***************************************************************************)
(* Proofs about Token, for both tokens, any hashes and any number of        *)
(* attempts that the card's status words can tell.                         *)
(***************************************************************************)
EXTENDS Token, SequenceTheorems, TLAPS

USE TriesAssumption

-----------------------------------------------------------------------------
(* The inductive invariant *)

Exceptions == {"SmartCardReaderException", "NullPointerException"}

\* What the script of a call consists of: it checks no other code than the call passes,
\* with no other value.
CommandsOf(c) ==
    {cmd \in Commands :
        /\ cmd.ins = "select" => cmd.ref \in {"main", "qscd", "oberthur"}
        /\ cmd.ins = "select file" => cmd.ref \in {"personal", "record", "certificate"}
        /\ cmd.ins \in {"counter", "verify", "change", "unblock", "unblock with PUK"} =>
               cmd.ref \in CodeTypes
        /\ cmd.ins \in {"verify", "change"} =>
               cmd.ref \in Passed(c) /\ cmd.arg = c.code /\ cmd.blame = cmd.ref
        /\ cmd.ins = "verify" => cmd.ref # "PUK"
        /\ cmd.ins = "unblock with PUK" =>
               "PUK" \in Passed(c) /\ cmd.arg = c.code /\ cmd.blame = "PUK"
        /\ cmd.ins = "set environment" => cmd.ref \in {"B6", "A4", "B8"} /\ cmd.arg \in Keys
        /\ cmd.ins \in {"hash", "sign", "authenticate"} => cmd.arg \in {c.hash, ""}
        /\ cmd.ins = "throw" => cmd.ref \in Exceptions
        /\ cmd.ins \notin {"verify", "change", "unblock", "unblock with PUK"} =>
               cmd.blame \in {"nobody", "wrapped"}}

\* The commands past which a call comes only with the right code of this type.
Asks(type) ==
    {cmd \in Commands :
        \/ cmd.ins \in {"verify", "change"} /\ cmd.ref = type
        \/ cmd.ins = "unblock with PUK" /\ type = "PUK"
        \/ cmd.ins = "unblock" \/ cmd.ins = "throw"}

\* A call is open as long as there is something left of its script.
PlaceInv ==
    /\ outcome.how = "open" => outcome = Open
    /\ script # <<>> <=> outcome = Open
    /\ call = NoCall => outcome # Open

ScriptInv == script \in Seq(CommandsOf(call))

\* The code was right, or the card will still be asked about it.
CodeInv ==
    outcome.how \in {"open", "ok"} =>
        \A t \in Passed(call) :
            call.code = t \/ \E i \in 1 .. Len(script) : script[i] \in Asks(t)

\* No token verifies the PUK.
PukInv == "PUK" \notin card.verified

\* A wrong code ends the call.
TriesInv ==
    /\ outcome = Open => \A t \in CodeTypes : before.tries[t] <= card.tries[t]
    /\ OneAttemptPerCall

CounterInv ==
    /\ outcome = Open /\ call.op = "codeRetryCounter" =>
          script[Len(script)] = Plain("counter", call.type, "")
    /\ AttemptsReported

IInv == TypeOK /\ PlaceInv /\ ScriptInv /\ CodeInv /\ PukInv /\ TriesInv /\ CounterInv

-----------------------------------------------------------------------------
(* Sequences *)

LEMMA TailAt ==
  ASSUME NEW S, NEW q \in Seq(S), q # <<>>
  PROVE  /\ Tail(q) \in Seq(S)
         /\ Len(Tail(q)) = Len(q) - 1 /\ Len(q) \in Nat \ {0}
         /\ Head(q) = q[1] /\ Head(q) \in S
         /\ \A i \in 1 .. Len(q) - 1 : Tail(q)[i] = q[i + 1]
<1>1. /\ Head(q) \in S /\ Tail(q) \in Seq(S)
      /\ Len(Tail(q)) = Len(q) - 1
      /\ \A i \in 1 .. Len(Tail(q)) : Tail(q)[i] = q[i + 1]
  BY HeadTailProperties
<1>2. Len(q) \in Nat /\ Len(q) # 0 /\ Head(q) = q[1]
  OBVIOUS
<1> QED
  BY <1>1, <1>2

\* What is in a sequence, and is not its head, is in its tail.
LEMMA InTail ==
  ASSUME NEW S, NEW A, NEW q \in Seq(S), q # <<>>, Head(q) \notin A,
         \E i \in 1 .. Len(q) : q[i] \in A
  PROVE  \E i \in 1 .. Len(Tail(q)) : Tail(q)[i] \in A
<1>1. PICK i \in 1 .. Len(q) : q[i] \in A
  OBVIOUS
<1>2. i # 1 /\ Len(q) \in Nat
  BY <1>1, TailAt
<1>3. i - 1 \in 1 .. Len(q) - 1 /\ (i - 1) + 1 = i
  BY <1>2
<1>4. Tail(q)[i - 1] = q[i] /\ Len(Tail(q)) = Len(q) - 1
  BY <1>3, TailAt
<1> QED
  BY <1>1, <1>3, <1>4

LEMMA InConcat ==
  ASSUME NEW S, NEW A, NEW p \in Seq(S), NEW q \in Seq(S),
         \/ \E i \in 1 .. Len(p) : p[i] \in A
         \/ \E i \in 1 .. Len(q) : q[i] \in A
  PROVE  \E i \in 1 .. Len(p \o q) : (p \o q)[i] \in A
<1> DEFINE r == p \o q
<1>1. /\ Len(r) = Len(p) + Len(q)
      /\ \A i \in 1 .. Len(p) + Len(q) : r[i] = IF i <= Len(p) THEN p[i] ELSE q[i - Len(p)]
  BY ConcatProperties
<1>2. Len(p) \in Nat /\ Len(q) \in Nat
  BY LenProperties
<1> HIDE DEF r
<1>3. ASSUME NEW i \in 1 .. Len(p), p[i] \in A
      PROVE  \E j \in 1 .. Len(r) : r[j] \in A
  <2>1. i \in 1 .. Len(r) /\ r[i] = p[i]
    BY <1>1, <1>2
  <2> QED
    BY <1>3, <2>1
<1>4. ASSUME NEW i \in 1 .. Len(q), q[i] \in A
      PROVE  \E j \in 1 .. Len(r) : r[j] \in A
  <2>1. /\ Len(p) + i \in 1 .. Len(p) + Len(q) /\ ~(Len(p) + i <= Len(p))
        /\ (Len(p) + i) - Len(p) = i
    BY <1>2
  <2>2. r[Len(p) + i] = q[i]
    BY <1>1, <2>1
  <2> QED
    BY <1>1, <1>4, <2>1, <2>2
<1> QED
  BY <1>3, <1>4 DEF r

\* Short scripts.
LEMMA Tuple1 ==
  ASSUME NEW S, NEW a \in S
  PROVE  <<a>> \in Seq(S) /\ Len(<<a>>) = 1 /\ <<a>> # <<>> /\ <<a>>[1] = a
OBVIOUS

LEMMA Tuple2 ==
  ASSUME NEW S, NEW a \in S, NEW b \in S
  PROVE  /\ <<a, b>> \in Seq(S) /\ Len(<<a, b>>) = 2 /\ <<a, b>> # <<>>
         /\ <<a, b>>[1] = a /\ <<a, b>>[2] = b
OBVIOUS

LEMMA Tuple3 ==
  ASSUME NEW S, NEW a \in S, NEW b \in S, NEW d \in S
  PROVE  /\ <<a, b, d>> \in Seq(S) /\ Len(<<a, b, d>>) = 3 /\ <<a, b, d>> # <<>>
         /\ <<a, b, d>>[1] = a /\ <<a, b, d>>[2] = b /\ <<a, b, d>>[3] = d
OBVIOUS

LEMMA Tuple4 ==
  ASSUME NEW S, NEW a \in S, NEW b \in S, NEW d \in S, NEW e \in S
  PROVE  /\ <<a, b, d, e>> \in Seq(S) /\ Len(<<a, b, d, e>>) = 4 /\ <<a, b, d, e>> # <<>>
         /\ <<a, b, d, e>>[1] = a /\ <<a, b, d, e>>[2] = b
         /\ <<a, b, d, e>>[3] = d /\ <<a, b, d, e>>[4] = e
OBVIOUS

LEMMA ConcatSeq ==
  ASSUME NEW S, NEW p \in Seq(S), NEW q \in Seq(S)
  PROVE  /\ p \o q \in Seq(S) /\ Len(p \o q) = Len(p) + Len(q)
         /\ p # <<>> \/ q # <<>> => p \o q # <<>>
         /\ \A i \in 1 .. Len(q) : (p \o q)[Len(p) + i] = q[i]
<1> DEFINE r == p \o q
<1>1. /\ r \in Seq(S) /\ Len(r) = Len(p) + Len(q)
      /\ \A i \in 1 .. Len(p) + Len(q) : r[i] = IF i <= Len(p) THEN p[i] ELSE q[i - Len(p)]
  BY ConcatProperties
<1>2. Len(p) \in Nat /\ Len(q) \in Nat
  BY LenProperties
<1> HIDE DEF r
<1>3. p # <<>> \/ q # <<>> => r # <<>>
  BY <1>1, <1>2, EmptySeq
<1>4. ASSUME NEW i \in 1 .. Len(q) PROVE r[Len(p) + i] = q[i]
  <2>1. /\ Len(p) + i \in 1 .. Len(p) + Len(q) /\ ~(Len(p) + i <= Len(p))
        /\ (Len(p) + i) - Len(p) = i
    BY <1>2
  <2> QED
    BY <1>1, <2>1
<1> QED
  BY <1>1, <1>3, <1>4 DEF r

LEMMA RepeatedType ==
  ASSUME NEW S, NEW q \in Seq(S), q # <<>>
  PROVE  Repeated(8, q) \in Seq(S)
<1>1. Len(q) \in Nat /\ Len(q) > 0
  BY TailAt
<1> DEFINE n == Len(q)
<1> HIDE DEF n
<1>2. \A i \in 1 .. 8 * n : 1 + ((i - 1) % n) \in 1 .. n
  <2> SUFFICES ASSUME NEW i \in 1 .. 8 * n PROVE 1 + ((i - 1) % n) \in 1 .. n
    OBVIOUS
  <2>1. i - 1 \in Int /\ n \in Nat /\ n > 0
    BY <1>1 DEF n
  <2>2. (i - 1) % n \in 0 .. n - 1
    BY <2>1, SMTT(20)
  <2> QED
    BY <2>1, <2>2
<1>3. \A j \in 1 .. n : q[j] \in S
  BY ElementOfSeq DEF n
<1>4. 8 * n \in Nat
  BY <1>1 DEF n
<1>5. [i \in 1 .. 8 * n |-> q[1 + ((i - 1) % n)]] \in Seq(S)
  BY <1>2, <1>3, <1>4, IsASeq
<1> QED
  BY <1>5 DEF Repeated, n

-----------------------------------------------------------------------------
(* The scripts *)

LEMMA PassedIs ==
  ASSUME NEW c
  PROVE  /\ c.op = "changeCode" => Passed(c) = {c.type}
         /\ c.op = "unblockAndChangeCode" => Passed(c) = {"PUK"}
         /\ c.op = "calculateSignature" => Passed(c) = {"PIN2"}
         /\ c.op \in {"authenticate", "decrypt"} => Passed(c) = {"PIN1"}
         /\ c.op \notin PinOps \cup {"changeCode", "unblockAndChangeCode"} => Passed(c) = {}
BY DEF Passed, PinOps, PIN

LEMMA CallTypes ==
  ASSUME NEW c \in TokenCalls
  PROVE  /\ c.op \in Ops /\ c.type \in CodeTypes /\ c.hash \in Hashes \cup {""}
         /\ c.code \in CodeTypes \cup {"wrong", "null", ""}
         /\ c.op \in {"calculateSignature", "authenticate"} => c.hash # ""
         /\ Passed(c) \subseteq CodeTypes
<1>1. /\ c.op \in Ops /\ c.type \in CodeTypes /\ c.hash \in Hashes \cup {""}
      /\ c.code \in CodeTypes \cup {"wrong", "null", ""}
  BY DEF TokenCalls
<1>2. c.op \in {"calculateSignature", "authenticate"} => c.hash # ""
  BY DEF TokenCalls
<1>3. Passed(c) \subseteq CodeTypes
  BY <1>1, PassedIs DEF Ops, PinOps, CodeTypes
<1> QED
  BY <1>1, <1>2, <1>3

\* What is needed of a script when its call begins.
ScriptOf(c, s) ==
    /\ s \in Seq(CommandsOf(c)) /\ s # <<>>
    /\ \A t \in Passed(c) : \E i \in 1 .. Len(s) : s[i] \in Asks(t)
    /\ c.op = "codeRetryCounter" => s[Len(s)] = Plain("counter", c.type, "")

LEMMA Builders ==
  ASSUME NEW c \in TokenCalls
  PROVE  /\ \A app \in {"main", "qscd", "oberthur"} : SelectApp(app) \in CommandsOf(c)
         /\ \A file \in {"personal", "record", "certificate"} : SelectFile(file) \in CommandsOf(c)
         /\ ReadFile \in CommandsOf(c) /\ ReadWrapped \in CommandsOf(c)
         /\ \A type \in CodeTypes : Plain("counter", type, "") \in CommandsOf(c)
         /\ Plain("changed flag", "PIN2", "") \in CommandsOf(c)
         /\ \A t \in {"B6", "A4", "B8"}, key \in Keys : SetEnv(t, key) \in CommandsOf(c)
         /\ Plain("decipher", "", "") \in CommandsOf(c)
         /\ \A ins \in {"hash", "sign", "authenticate"}, hash \in {c.hash, ""} :
                Plain(ins, "", hash) \in CommandsOf(c)
         /\ \A e \in Exceptions : Throw(e) \in CommandsOf(c) /\ \A t : Throw(e) \in Asks(t)
         /\ RequireNonZero \in CommandsOf(c)
<1> USE CallTypes DEF CommandsOf, Commands, SelectApp, SelectFile, ReadFile, Plain, Command, SetEnv,
                      ReadWrapped, Throw, RequireNonZero, CodeTypes, Keys, Exceptions, Asks
<1>1. \A app \in {"main", "qscd", "oberthur"} : SelectApp(app) \in CommandsOf(c)
  OBVIOUS
<1>2. \A file \in {"personal", "record", "certificate"} : SelectFile(file) \in CommandsOf(c)
  OBVIOUS
<1>3. /\ ReadFile \in CommandsOf(c) /\ ReadWrapped \in CommandsOf(c)
      /\ RequireNonZero \in CommandsOf(c)
  OBVIOUS
<1>4. \A type \in CodeTypes : Plain("counter", type, "") \in CommandsOf(c)
  OBVIOUS
<1>5. Plain("changed flag", "PIN2", "") \in CommandsOf(c) /\ Plain("decipher", "", "") \in CommandsOf(c)
  OBVIOUS
<1>6. \A t \in {"B6", "A4", "B8"}, key \in Keys : SetEnv(t, key) \in CommandsOf(c)
  OBVIOUS
<1>7. \A ins \in {"hash", "sign", "authenticate"}, hash \in {c.hash, ""} :
         Plain(ins, "", hash) \in CommandsOf(c)
  OBVIOUS
<1>8. \A e \in Exceptions : Throw(e) \in CommandsOf(c) /\ \A t : Throw(e) \in Asks(t)
  OBVIOUS
<1> QED
  BY <1>1, <1>2, <1>3, <1>4, <1>5, <1>6, <1>7, <1>8

\* Those that ask the card about a code.
LEMMA AskingBuilders ==
  ASSUME NEW c \in TokenCalls
  PROVE  /\ \A type \in Passed(c) \ {"PUK"} :
                Verify(type, c.code) \in CommandsOf(c) /\ Verify(type, c.code) \in Asks(type)
         /\ \A type \in Passed(c) :
                /\ Command("change", type, c.code, type) \in CommandsOf(c)
                /\ Command("change", type, c.code, type) \in Asks(type)
         /\ \A type \in CodeTypes :
                /\ Command("unblock", type, "", "PUK") \in CommandsOf(c)
                /\ \A t : Command("unblock", type, "", "PUK") \in Asks(t)
         /\ "PUK" \in Passed(c) => \A type \in CodeTypes :
                /\ Command("unblock with PUK", type, c.code, "PUK") \in CommandsOf(c)
                /\ Command("unblock with PUK", type, c.code, "PUK") \in Asks("PUK")
<1> USE CallTypes DEF CommandsOf, Commands, Command, Verify, CodeTypes, Asks
<1>1. \A type \in Passed(c) \ {"PUK"} :
         Verify(type, c.code) \in CommandsOf(c) /\ Verify(type, c.code) \in Asks(type)
  OBVIOUS
<1>2. \A type \in Passed(c) :
         /\ Command("change", type, c.code, type) \in CommandsOf(c)
         /\ Command("change", type, c.code, type) \in Asks(type)
  OBVIOUS
<1>3. \A type \in CodeTypes :
         /\ Command("unblock", type, "", "PUK") \in CommandsOf(c)
         /\ \A t : Command("unblock", type, "", "PUK") \in Asks(t)
  OBVIOUS
<1>4. "PUK" \in Passed(c) => \A type \in CodeTypes :
         /\ Command("unblock with PUK", type, c.code, "PUK") \in CommandsOf(c)
         /\ Command("unblock with PUK", type, c.code, "PUK") \in Asks("PUK")
  OBVIOUS
<1> QED
  BY <1>1, <1>2, <1>3, <1>4

\* The definitions of CardCommand are the same in both tokens.
LEMMA SameIdemia ==
  /\ \A x : Idemia!SelectApp(x) = SelectApp(x) /\ Idemia!SelectFile(x) = SelectFile(x)
  /\ Idemia!ReadFile = ReadFile /\ Idemia!ReadWrapped = ReadWrapped
  /\ \A x, y : Idemia!SetEnv(x, y) = SetEnv(x, y) /\ Idemia!Verify(x, y) = Verify(x, y)
  /\ \A x, y, z : Idemia!Plain(x, y, z) = Plain(x, y, z)
  /\ \A x, y, z, u : Idemia!Command(x, y, z, u) = Command(x, y, z, u)
  /\ \A n, q : Idemia!Repeated(n, q) = Repeated(n, q)
BY DEF Idemia!SelectApp, SelectApp, Idemia!SelectFile, SelectFile, Idemia!ReadFile, ReadFile,
       Idemia!ReadWrapped, ReadWrapped,
       Idemia!SetEnv, SetEnv, Idemia!Verify, Verify, Idemia!Plain, Plain, Idemia!Command, Command,
       Idemia!Repeated, Repeated

LEMMA SameGemalto ==
  /\ \A x : Gemalto!SelectApp(x) = SelectApp(x) /\ Gemalto!SelectFile(x) = SelectFile(x)
  /\ Gemalto!ReadWrapped = ReadWrapped /\ Gemalto!RequireNonZero = RequireNonZero
  /\ \A x : Gemalto!Throw(x) = Throw(x)
  /\ \A x, y : Gemalto!SetEnv(x, y) = SetEnv(x, y) /\ Gemalto!Verify(x, y) = Verify(x, y)
  /\ \A x, y, z : Gemalto!Plain(x, y, z) = Plain(x, y, z)
  /\ \A x, y, z, u : Gemalto!Command(x, y, z, u) = Command(x, y, z, u)
  /\ \A n, q : Gemalto!Repeated(n, q) = Repeated(n, q)
BY DEF Gemalto!SelectApp, SelectApp, Gemalto!SelectFile, SelectFile, Gemalto!ReadWrapped, ReadWrapped,
       Gemalto!RequireNonZero, RequireNonZero, Gemalto!Throw, Throw,
       Gemalto!SetEnv, SetEnv, Gemalto!Verify, Verify, Gemalto!Plain, Plain, Gemalto!Command, Command,
       Gemalto!Repeated, Repeated

LEMMA IdemiaScript ==
  ASSUME NEW c \in TokenCalls, c.op # "pinChangedFlag"
  PROVE  ScriptOf(c, Idemia!Script(c))
<1> DEFINE S == CommandsOf(c)
           s == Idemia!Script(c)
<1>0. /\ \A app \in {"main", "qscd", "oberthur"} : SelectApp(app) \in S
      /\ \A file \in {"personal", "record", "certificate"} : SelectFile(file) \in S
      /\ ReadFile \in S /\ ReadWrapped \in S /\ Plain("decipher", "", "") \in S
      /\ Plain("counter", c.type, "") \in S
      /\ \A t \in {"B6", "A4", "B8"}, key \in Keys : SetEnv(t, key) \in S
      /\ Plain("sign", "", c.hash) \in S /\ Plain("authenticate", "", c.hash) \in S
  BY Builders, CallTypes
<1> SUFFICES ScriptOf(c, s)
  OBVIOUS
<1>1. CASE c.op = "personalData"
  <2> DEFINE p == <<SelectApp("main"), SelectFile("personal")>>
             q == Repeated(8, <<SelectFile("record"), ReadFile>>)
  <2>1. s = p \o q
    BY <1>1, SameIdemia DEF Idemia!Script, Idemia!PersonalData
  <2>2. p \in Seq(S) /\ p # <<>>
    BY <1>0, Tuple2
  <2>3. <<SelectFile("record"), ReadFile>> \in Seq(S) /\ <<SelectFile("record"), ReadFile>> # <<>>
    BY <1>0, Tuple2
  <2>4. q \in Seq(S)
    BY <2>3, RepeatedType
  <2> HIDE DEF p, q, s
  <2>5. s \in Seq(S) /\ s # <<>>
    BY <2>1, <2>2, <2>4, ConcatSeq
  <2> QED
    BY <1>1, <2>5, PassedIs DEF ScriptOf, PinOps
<1>2. CASE c.op = "certificate"
  <2>1. s = <<SelectApp("main"), SelectFile("certificate"), ReadWrapped>>
    BY <1>2, SameIdemia DEF Idemia!Script, Idemia!Certificate
  <2>2. SelectApp("main") \in S /\ SelectFile("certificate") \in S /\ ReadWrapped \in S
    BY <1>0
  <2>3. s \in Seq(S) /\ s # <<>>
    BY <2>1, <2>2, Tuple3
  <2> HIDE DEF s
  <2> QED
    BY <1>2, <2>3, PassedIs DEF ScriptOf, PinOps
<1>3. CASE c.op = "codeRetryCounter"
  <2> DEFINE app == IF c.type = "PIN2" THEN "qscd" ELSE "main"
  <2>1. s = <<SelectApp(app), Plain("counter", c.type, "")>>
    BY <1>3, SameIdemia DEF Idemia!Script, Idemia!CodeRetryCounter, Idemia!SelectFor
  <2>2. SelectApp(app) \in S
    BY <1>0
  <2> HIDE DEF s, app
  <2>3. s \in Seq(S) /\ s # <<>> /\ Len(s) = 2 /\ s[2] = Plain("counter", c.type, "")
    BY <1>0, <2>1, <2>2, Tuple2
  <2> QED
    BY <1>3, <2>3, PassedIs DEF ScriptOf, PinOps
<1>4. CASE c.op = "changeCode"
  <2> DEFINE app == IF c.type = "PIN2" THEN "qscd" ELSE "main"
             change == Command("change", c.type, c.code, c.type)
  <2>1. s = <<SelectApp(app), change>>
    BY <1>4, SameIdemia DEF Idemia!Script, Idemia!ChangeCode, Idemia!SelectFor
  <2>2. SelectApp(app) \in S
    BY <1>0
  <2>3. Passed(c) = {c.type} /\ change \in S /\ change \in Asks(c.type)
    BY <1>4, PassedIs, AskingBuilders
  <2> HIDE DEF s, app, change
  <2>4. s \in Seq(S) /\ s # <<>> /\ Len(s) = 2 /\ s[2] = change
    BY <2>1, <2>2, <2>3, Tuple2
  <2>5. \A t \in Passed(c) : 2 \in 1 .. Len(s) /\ s[2] \in Asks(t)
    BY <2>3, <2>4
  <2> QED
    BY <1>4, <2>4, <2>5 DEF ScriptOf
<1>5. CASE c.op = "unblockAndChangeCode"
  <2> DEFINE p == IF c.type = "PIN2" THEN <<SelectApp("qscd")>> ELSE <<>>
             unblock == Command("unblock", c.type, "", "PUK")
             q == <<unblock>>
  <2>1. s = p \o q
    BY <1>5, SameIdemia DEF Idemia!Script, Idemia!UnblockAndChangeCode, Idemia!SelectFor
  <2>2. p \in Seq(S)
    BY <1>0, Tuple1, EmptySeq
  <2>3. unblock \in S /\ \A t : unblock \in Asks(t)
    BY AskingBuilders, CallTypes
  <2> HIDE DEF unblock
  <2>4. q \in Seq(S) /\ q # <<>> /\ Len(q) = 1 /\ q[1] = unblock
    BY <2>3, Tuple1
  <2> HIDE DEF p, q, s
  <2>5. s \in Seq(S) /\ s # <<>>
    BY <2>1, <2>2, <2>4, ConcatSeq
  <2>6. \A t : \E i \in 1 .. Len(q) : q[i] \in Asks(t)
    BY <2>3, <2>4
  <2>7. \A t : \E i \in 1 .. Len(s) : s[i] \in Asks(t)
    BY <2>1, <2>2, <2>4, <2>6, InConcat
  <2> QED
    BY <1>5, <2>5, <2>7 DEF ScriptOf
<1>6. CASE c.op \in PinOps
  <2> DEFINE t == PIN(c.op)
  <2>1. Passed(c) = {t} /\ t # "PUK"
    BY <1>6 DEF Passed, PIN, PinOps
  <2>2. Verify(t, c.code) \in S /\ Verify(t, c.code) \in Asks(t)
    BY <2>1, AskingBuilders
  <2>3. \E app \in {"qscd", "oberthur"}, template \in {"B6", "A4", "B8"}, key \in Keys, last \in S :
              s = <<SelectApp(app), Verify(t, c.code), SetEnv(template, key), last>>
    <3>1. CASE c.op = "calculateSignature"
      BY <1>0, <3>1, SameIdemia DEF PIN, Keys, Idemia!Script, Idemia!CalculateSignature
    <3>2. CASE c.op = "authenticate"
      BY <1>0, <3>2, SameIdemia DEF PIN, Keys, Idemia!Script, Idemia!Authenticate
    <3>3. CASE c.op = "decrypt"
      BY <1>0, <3>3, SameIdemia DEF PIN, Keys, Idemia!Script, Idemia!Decrypt
    <3> QED
      BY <1>6, <3>1, <3>2, <3>3 DEF PinOps
  <2> HIDE DEF s, t
  <2>4. s \in Seq(S) /\ s # <<>> /\ Len(s) = 4 /\ s[2] = Verify(t, c.code)
    <3>1. PICK app \in {"qscd", "oberthur"}, template \in {"B6", "A4", "B8"}, key \in Keys,
               last \in S :
                  s = <<SelectApp(app), Verify(t, c.code), SetEnv(template, key), last>>
      BY <2>3
    <3>2. SelectApp(app) \in S /\ SetEnv(template, key) \in S
      BY <1>0
    <3> QED
      BY <2>2, <3>1, <3>2, Tuple4
  <2>5. 2 \in 1 .. Len(s) /\ s[2] \in Asks(t)
    BY <2>2, <2>4
  <2> QED
    BY <1>6, <2>1, <2>4, <2>5 DEF ScriptOf, PinOps
<1>7. c.op \in Ops
  BY CallTypes
<1> QED
  BY <1>1, <1>2, <1>3, <1>4, <1>5, <1>6, <1>7 DEF Ops

LEMMA GemaltoScript ==
  ASSUME NEW c \in TokenCalls
  PROVE  ScriptOf(c, Gemalto!Script(c))
<1> DEFINE S == CommandsOf(c)
           s == Gemalto!Script(c)
           main == SelectApp("main")
           flag == Plain("changed flag", "PIN2", "")
<1>0. /\ main \in S /\ flag \in S
      /\ \A file \in {"personal", "record", "certificate"} : SelectFile(file) \in S
      /\ ReadWrapped \in S /\ Plain("decipher", "", "") \in S /\ RequireNonZero \in S
      /\ Plain("counter", c.type, "") \in S
      /\ \A t \in {"B6", "A4", "B8"}, key \in Keys : SetEnv(t, key) \in S
      /\ Plain("hash", "", c.hash) \in S /\ Plain("sign", "", "") \in S
      /\ \A e \in Exceptions : Throw(e) \in S /\ \A t : Throw(e) \in Asks(t)
  BY Builders, CallTypes
<1> SUFFICES ScriptOf(c, s)
  OBVIOUS
<1>1. CASE c.op = "personalData"
  <2> DEFINE p == <<main, SelectFile("personal")>>
             q == Repeated(8, <<SelectFile("record"), ReadWrapped>>)
  <2>1. s = p \o q
    BY <1>1, SameGemalto DEF Gemalto!Script, Gemalto!PersonalData, Gemalto!Main, Gemalto!File
  <2>2. p \in Seq(S) /\ p # <<>>
    BY <1>0, Tuple2
  <2>3. <<SelectFile("record"), ReadWrapped>> \in Seq(S) /\ <<SelectFile("record"), ReadWrapped>> # <<>>
    BY <1>0, Tuple2
  <2>4. q \in Seq(S)
    BY <2>3, RepeatedType
  <2> HIDE DEF p, q, s
  <2>5. s \in Seq(S) /\ s # <<>>
    BY <2>1, <2>2, <2>4, ConcatSeq
  <2> QED
    BY <1>1, <2>5, PassedIs DEF ScriptOf, PinOps
<1>2. CASE c.op = "certificate"
  <2> DEFINE p == <<main>>
             q == <<SelectFile("certificate"), ReadWrapped>>
  <2>1. s = p \o q
    BY <1>2, SameGemalto DEF Gemalto!Script, Gemalto!Certificate, Gemalto!Main, Gemalto!File
  <2>2. p \in Seq(S) /\ p # <<>>
    BY <1>0, Tuple1
  <2>3. q \in Seq(S)
    BY <1>0, Tuple2
  <2> HIDE DEF p, q, s
  <2>4. s \in Seq(S) /\ s # <<>>
    BY <2>1, <2>2, <2>3, ConcatSeq
  <2> QED
    BY <1>2, <2>4, PassedIs DEF ScriptOf, PinOps
<1>3. CASE c.op = "codeRetryCounter"
  <2>1. s = <<main, Plain("counter", c.type, "")>>
    BY <1>3, SameGemalto DEF Gemalto!Script, Gemalto!CodeRetryCounter, Gemalto!Main
  <2> HIDE DEF s, main
  <2>2. s \in Seq(S) /\ s # <<>> /\ Len(s) = 2 /\ s[2] = Plain("counter", c.type, "")
    BY <1>0, <2>1, Tuple2
  <2> QED
    BY <1>3, <2>2, PassedIs DEF ScriptOf, PinOps
<1>4. CASE c.op = "pinChangedFlag"
  <2>1. s = <<main, flag>>
    BY <1>4, SameGemalto DEF Gemalto!Script, Gemalto!PinChangedFlag, Gemalto!Main
  <2> HIDE DEF s, main, flag
  <2>2. s \in Seq(S) /\ s # <<>>
    BY <1>0, <2>1, Tuple2
  <2> QED
    BY <1>4, <2>2, PassedIs DEF ScriptOf, PinOps
\* Both operations are a SELECT with one element more, which asks.
<1>5. ASSUME NEW cmd \in S, s = <<main>> \o <<cmd>>, \A t \in Passed(c) : cmd \in Asks(t),
             c.op # "codeRetryCounter"
      PROVE  ScriptOf(c, s)
  <2> DEFINE p == <<main>>
             q == <<cmd>>
  <2>1. p \in Seq(S) /\ p # <<>>
    BY <1>0, Tuple1
  <2>2. q \in Seq(S) /\ q # <<>> /\ Len(q) = 1 /\ q[1] = cmd
    BY <1>5, Tuple1
  <2>3. s = p \o q
    BY <1>5
  <2> HIDE DEF p, q, s
  <2>4. s \in Seq(S) /\ s # <<>>
    BY <2>1, <2>2, <2>3, ConcatSeq
  <2>5. ASSUME NEW t \in Passed(c) PROVE \E i \in 1 .. Len(s) : s[i] \in Asks(t)
    <3>1. \E i \in 1 .. Len(q) : q[i] \in Asks(t)
      BY <1>5, <2>2
    <3> QED
      BY <2>1, <2>2, <2>3, <3>1, InConcat
  <2> QED
    BY <1>5, <2>4, <2>5 DEF ScriptOf
<1>6. CASE c.op = "changeCode"
  <2> DEFINE cmd == IF c.type = "PUK" THEN Throw("SmartCardReaderException")
                    ELSE Command("change", c.type, c.code, c.type)
  <2>1. s = <<main>> \o <<cmd>>
    BY <1>6, SameGemalto DEF Gemalto!Script, Gemalto!ChangeCode, Gemalto!Main
  <2>2. cmd \in S /\ \A t \in Passed(c) : cmd \in Asks(t)
    BY <1>0, <1>6, PassedIs, AskingBuilders DEF Exceptions
  <2> HIDE DEF s, cmd, main
  <2> QED
    BY <1>5, <1>6, <2>1, <2>2
<1>7. CASE c.op = "unblockAndChangeCode"
  <2> DEFINE cmd == CASE c.type = "PUK" -> Throw("SmartCardReaderException")
                      [] c.type # "PUK" /\ c.code = "null" -> Throw("NullPointerException")
                      [] c.type # "PUK" /\ c.code # "null" ->
                            Command("unblock with PUK", c.type, c.code, "PUK")
  <2>1. s = <<main>> \o <<cmd>>
    BY <1>7, SameGemalto DEF Gemalto!Script, Gemalto!UnblockAndChangeCode, Gemalto!Main
  <2>2. cmd \in S /\ \A t \in Passed(c) : cmd \in Asks(t)
    BY <1>0, <1>7, PassedIs, CallTypes, AskingBuilders DEF Exceptions
  <2> HIDE DEF s, cmd, main
  <2> QED
    BY <1>5, <1>7, <2>1, <2>2
<1>8. CASE c.op \in PinOps
  <2> DEFINE t == PIN(c.op)
             verify == Verify(t, c.code)
  <2>1. Passed(c) = {t} /\ t # "PUK"
    BY <1>8 DEF Passed, PIN, PinOps
  <2>2. verify \in S /\ verify \in Asks(t)
    BY <2>1, AskingBuilders
  <2> DEFINE p == IF c.op = "calculateSignature" THEN <<main, flag>> \o <<RequireNonZero>> ELSE <<>>
             key == IF c.op = "calculateSignature" THEN "sign" ELSE "auth"
             q == IF c.op = "decrypt" THEN <<verify, SetEnv("B8", "auth"), Plain("decipher", "", "")>>
                  ELSE <<verify, SetEnv("B6", key), Plain("hash", "", c.hash), Plain("sign", "", "")>>
  <2>3. p \in Seq(S)
    <3>1. <<main, flag>> \in Seq(S)
      BY <1>0, Tuple2
    <3>2. <<RequireNonZero>> \in Seq(S)
      BY <1>0, Tuple1
    <3> HIDE DEF main, flag
    <3> QED
      BY <3>1, <3>2, ConcatSeq, EmptySeq
  <2>4. q \in Seq(S) /\ q # <<>> /\ q[1] = verify /\ 1 \in 1 .. Len(q)
    <3>1. SetEnv("B8", "auth") \in S /\ SetEnv("B6", key) \in S
      BY <1>0 DEF Keys
    <3> DEFINE short == <<verify, SetEnv("B8", "auth"), Plain("decipher", "", "")>>
               long  == <<verify, SetEnv("B6", key), Plain("hash", "", c.hash),
                          Plain("sign", "", "")>>
    <3> HIDE DEF verify, key
    <3>2. short \in Seq(S) /\ short # <<>> /\ short[1] = verify /\ Len(short) = 3
      BY <1>0, <2>2, <3>1, Tuple3
    <3>3. long \in Seq(S) /\ long # <<>> /\ long[1] = verify /\ Len(long) = 4
      BY <1>0, <2>2, <3>1, Tuple4
    <3>4. q = short \/ q = long
      OBVIOUS
    <3> HIDE DEF q, short, long
    <3> QED
      BY <3>2, <3>3, <3>4
  <2>5. s = p \o q \/ s = q
    BY <1>8, SameGemalto DEF PinOps, PIN, Gemalto!Script, Gemalto!CalculateSignature,
            Gemalto!Authenticate, Gemalto!Decrypt, Gemalto!Sign, Gemalto!PinChangedFlag, Gemalto!Main
  <2> HIDE DEF s, p, q, t, verify
  <2>6. s \in Seq(S) /\ s # <<>>
    BY <2>3, <2>4, <2>5, ConcatSeq
  <2>7. \E i \in 1 .. Len(q) : q[i] \in Asks(t)
    BY <2>2, <2>4
  <2>8. \E i \in 1 .. Len(s) : s[i] \in Asks(t)
    BY <2>3, <2>4, <2>5, <2>7, InConcat
  <2> QED
    BY <1>8, <2>1, <2>6, <2>8 DEF ScriptOf, PinOps
<1>9. c.op \in Ops
  BY CallTypes
<1> QED
  BY <1>1, <1>2, <1>3, <1>4, <1>6, <1>7, <1>8, <1>9 DEF Ops

-----------------------------------------------------------------------------
(* The card *)

StatusWords == {"9000", "6A88", "6982", "6983", "63C0", "63C1", "63C2"}

\* What is needed of the card's answer to a command of a call.
CardGood(c, cmd, r) ==
    /\ r.card \in Cards /\ r.data \in Answers /\ r.sw \in StatusWords
    /\ "PUK" \notin r.card.verified
    /\ \A t \in CodeTypes :
          \/ card.tries[t] <= r.card.tries[t]
          \/ /\ card.tries[t] = r.card.tries[t] + 1 /\ r.sw # "9000"
             /\ t \in Passed(c) /\ c.code # t
    /\ r.sw = "9000" /\ cmd.ins # "throw" =>
          \A t \in Passed(c) : cmd \in Asks(t) => c.code = t
    /\ r.sw \in {"6983", "63C0", "63C1", "63C2"} =>
          /\ cmd.blame \in CodeTypes
          /\ r.card.tries[cmd.blame] = CASE r.sw = "63C2" -> 2 [] r.sw = "63C1" -> 1 [] OTHER -> 0
    /\ cmd.ins = "counter" /\ r.sw = "9000" =>
          r.card = card /\ r.data = Number("counter", card.tries[cmd.ref])

LEMMA NothingType == Nothing \in Answers
BY DEF Nothing, Answers, None

LEMMA TriesType ==
  ASSUME NEW k \in Cards, NEW t \in CodeTypes
  PROVE  k.tries[t] \in 0 .. MaxTries /\ k.tries[t] \in Nat
<1>1. k.tries \in [CodeTypes -> 0 .. MaxTries]
  BY DEF Cards
<1>2. k.tries[t] \in 0 .. MaxTries
  BY <1>1
<1> QED
  BY <1>2

LEMMA SameTries ==
  ASSUME NEW k \in Cards, NEW l, l.tries = k.tries
  PROVE  \A t \in CodeTypes : l.tries[t] <= k.tries[t] /\ k.tries[t] <= l.tries[t]
<1> SUFFICES ASSUME NEW t \in CodeTypes
             PROVE  l.tries[t] <= k.tries[t] /\ k.tries[t] <= l.tries[t]
  OBVIOUS
<1>1. l.tries[t] = k.tries[t]
  OBVIOUS
<1>2. k.tries[t] \in Nat
  BY TriesType
<1> QED
  BY <1>1, <1>2

\* A card with another counter.
LEMMA CountedCard ==
  ASSUME NEW k \in Cards, NEW type \in CodeTypes, NEW n \in 0 .. MaxTries
  PROVE  LET new == [k EXCEPT !.tries[type] = n] IN
         /\ new \in Cards /\ new.verified = k.verified
         /\ \A t \in CodeTypes : new.tries[t] = IF t = type THEN n ELSE k.tries[t]
BY DEF Cards

LEMMA AttemptsOf ==
  ASSUME NEW n \in {0, 1, 2}
  PROVE  /\ Tries(n) \in {"63C0", "63C1", "63C2"}
         /\ n = CASE Tries(n) = "63C2" -> 2 [] Tries(n) = "63C1" -> 1 [] OTHER -> 0
BY DEF Tries

\* Commands that check no code.
LEMMA QuietGood ==
  ASSUME NEW c \in TokenCalls, NEW cmd \in CommandsOf(c), card \in Cards, NEW r,
         r.card \in Cards, r.data \in Answers, r.sw \in {"9000", "6A88", "6982"},
         r.card.tries = card.tries, "PUK" \notin r.card.verified,
         \/ cmd.ins \notin {"verify", "change", "unblock", "unblock with PUK"}
         \/ r.sw = "6982",
         cmd.ins = "counter" /\ r.sw = "9000" =>
            r.card = card /\ r.data = Number("counter", card.tries[cmd.ref])
  PROVE  CardGood(c, cmd, r)
<1>1. \A t \in CodeTypes : card.tries[t] <= r.card.tries[t]
  BY SameTries
<1>2. r.sw = "9000" /\ cmd.ins # "throw" => \A t : cmd \notin Asks(t)
  BY DEF Asks
<1> QED
  BY <1>1, <1>2 DEF CardGood, StatusWords

\* A code is checked.
LEMMA ChecksGood ==
  ASSUME NEW c \in TokenCalls, NEW cmd \in CommandsOf(c), card \in Cards, NEW type \in CodeTypes,
         type \in Passed(c), cmd.blame = type, NEW right \in Cards,
         "PUK" \notin card.verified, "PUK" \notin right.verified,
         \A t \in CodeTypes : card.tries[t] <= right.tries[t],
         cmd.ins # "counter",
         \A t \in Passed(c) : cmd \in Asks(t) => t = type
  PROVE  CardGood(c, cmd, Checks(card, type, c.code, right))
<1> DEFINE r == Checks(card, type, c.code, right)
<1>1. \A t \in CodeTypes : card.tries[t] <= card.tries[t]
  BY SameTries
<1>2. card.tries[type] \in 0 .. MaxTries
  BY TriesType
<1> SUFFICES CardGood(c, cmd, r)
  OBVIOUS
<1>3. CASE ~Reachable(card, type)
  <2>1. r.card = card /\ r.sw = "6A88" /\ r.data = Nothing
    BY <1>3 DEF Checks, Refused, Response
  <2> HIDE DEF r
  <2> QED
    BY <1>1, <2>1, NothingType DEF CardGood, StatusWords
<1>4. CASE Reachable(card, type) /\ card.tries[type] = 0
  <2>1. r.card = card /\ r.sw = "6983" /\ r.data = Nothing
    BY <1>4 DEF Checks, Refused, Response
  <2> HIDE DEF r
  <2> QED
    BY <1>1, <1>4, <2>1, NothingType DEF CardGood, StatusWords
<1>5. CASE Reachable(card, type) /\ card.tries[type] > 0 /\ c.code = type
  <2> DEFINE new == [right EXCEPT !.tries[type] = MaxTries]
  <2>1. r.card = new /\ r.sw = "9000" /\ r.data = Nothing
    BY <1>5 DEF Checks, Done, Response
  <2>2. /\ new \in Cards /\ new.verified = right.verified
        /\ \A t \in CodeTypes : new.tries[t] = IF t = type THEN MaxTries ELSE right.tries[t]
    BY CountedCard
  <2> HIDE DEF r, new
  <2>3. \A t \in CodeTypes : card.tries[t] <= new.tries[t]
    <3> SUFFICES ASSUME NEW t \in CodeTypes PROVE card.tries[t] <= new.tries[t]
      OBVIOUS
    <3>1. card.tries[t] <= right.tries[t]
      OBVIOUS
    <3>2. card.tries[t] \in 0 .. MaxTries
      BY TriesType
    <3>3. new.tries[t] = IF t = type THEN MaxTries ELSE right.tries[t]
      BY <2>2
    <3> QED
      BY <3>1, <3>2, <3>3
  <2>4. \A t \in CodeTypes : card.tries[t] <= r.card.tries[t]
    BY <2>1, <2>3
  <2>5. \A t \in Passed(c) : cmd \in Asks(t) => c.code = t
    BY <1>5
  <2>6. r.card \in Cards /\ "PUK" \notin r.card.verified
    BY <2>1, <2>2
  <2> QED
    BY <2>1, <2>4, <2>5, <2>6, NothingType DEF CardGood, StatusWords
<1>6. CASE Reachable(card, type) /\ card.tries[type] > 0 /\ c.code # type
  <2> DEFINE left == card.tries[type] - 1
             still == card.verified \ {type}
             new == [card EXCEPT !.tries[type] = left, !.verified = still]
  <2>1. r.card = new /\ r.sw = Tries(left) /\ r.data = Nothing
    BY <1>6 DEF Checks, Refused, Response
  <2>2. left \in {0, 1, 2} /\ left \in 0 .. MaxTries /\ card.tries[type] = left + 1
    BY <1>2, <1>6
  <2>3. still \in SUBSET CodeTypes /\ "PUK" \notin still /\ left \in 0 .. MaxTries
    BY <2>2 DEF Cards
  <2> HIDE DEF left, still
  <2>4. /\ new \in Cards /\ new.verified = still
        /\ \A t \in CodeTypes : new.tries[t] = IF t = type THEN left ELSE card.tries[t]
    BY <2>3 DEF Cards
  <2> HIDE DEF r, new
  <2>5. /\ r.sw \in {"63C0", "63C1", "63C2"}
        /\ left = CASE r.sw = "63C2" -> 2 [] r.sw = "63C1" -> 1 [] OTHER -> 0
    BY <2>1, <2>2, AttemptsOf
  <2>6. \A t \in CodeTypes :
           \/ card.tries[t] <= r.card.tries[t]
           \/ /\ card.tries[t] = r.card.tries[t] + 1 /\ r.sw # "9000"
              /\ t \in Passed(c) /\ c.code # t
    <3> SUFFICES ASSUME NEW t \in CodeTypes, t # type PROVE card.tries[t] <= r.card.tries[t]
      BY <1>6, <2>1, <2>2, <2>4, <2>5
    <3> QED
      BY <1>1, <2>1, <2>4
  <2>7. r.card.tries[cmd.blame] = left /\ cmd.blame \in CodeTypes
    BY <2>1, <2>4
  <2>8. r.card \in Cards /\ "PUK" \notin r.card.verified
    BY <2>1, <2>3, <2>4
  <2> QED
    BY <2>1, <2>5, <2>6, <2>7, <2>8, NothingType DEF CardGood, StatusWords
<1> QED
  BY <1>2, <1>3, <1>4, <1>5, <1>6

LEMMA ResetCard ==
  ASSUME NEW k \in Cards
  PROVE  Reset(k) \in Cards /\ Reset(k).tries = k.tries /\ Reset(k).verified = {}
BY DEF Cards, Reset, NoEnv, None

LEMMA AnswerTypes ==
  /\ \A of \in {"counter", "flag", "data"}, n \in 0 .. MaxTries : Number(of, n) \in Answers
  /\ \A key \in Keys \cup {None}, hash \in Hashes \cup {""} : Signature(key, hash) \in Answers
<1>1. 0 \in 0 .. MaxTries
  OBVIOUS
<1>2. ASSUME NEW of \in {"counter", "flag", "data"}, NEW n \in 0 .. MaxTries
      PROVE  Number(of, n) \in Answers
  BY DEF Number, Answers
<1>3. ASSUME NEW key \in Keys \cup {None}, NEW hash \in Hashes \cup {""}
      PROVE  Signature(key, hash) \in Answers
  BY <1>1 DEF Signature, Answers
<1> QED
  BY <1>2, <1>3

\* The card answers every command as the invariant needs it.
LEMMA ResponseGood ==
  ASSUME NEW c \in TokenCalls, NEW cmd \in CommandsOf(c), card \in Cards, PukInv,
         cmd.ins \notin {"throw", "require"}
  PROVE  CardGood(c, cmd, CardResponse(card, cmd))
<1> DEFINE r == CardResponse(card, cmd)
<1>1. /\ cmd \in Commands /\ "PUK" \notin card.verified
      /\ c.code \in CodeTypes \cup {"wrong", "null", ""} /\ Passed(c) \subseteq CodeTypes
  BY CallTypes DEF CommandsOf, PukInv
<1>2. CASE cmd.ins = "select"
  <2>1. cmd.ref \in {"main", "qscd", "oberthur"}
    BY <1>2 DEF CommandsOf
  <2>2. r = Selects(card, cmd.ref)
    BY <1>2 DEF CardResponse
  <2> DEFINE new == IF cmd.ref = card.app THEN [card EXCEPT !.file = None]
                    ELSE [Reset(card) EXCEPT !.app = cmd.ref, !.verified = card.verified \ {"PIN2"}]
  <2>3. r.card = new /\ r.sw = "9000" /\ r.data = Nothing
    BY <2>2 DEF Selects, Done, Response
  <2>4. new \in Cards /\ new.tries = card.tries /\ "PUK" \notin new.verified
    BY <1>1, <2>1 DEF Cards, Reset, NoEnv, None
  <2> HIDE DEF r, new
  <2> QED
    BY <1>2, <2>3, <2>4, NothingType, QuietGood DEF r
<1>3. CASE cmd.ins = "select file"
  <2>1. cmd.ref \in {"personal", "record", "certificate"}
    BY <1>3 DEF CommandsOf
  <2> DEFINE new == [card EXCEPT !.file = cmd.ref]
  <2>2. r.card \in {card, new} /\ r.sw \in {"9000", "6A88"} /\ r.data = Nothing
    BY <1>3 DEF CardResponse, Becomes, Done, Refused, Response
  <2>3. new \in Cards /\ new.tries = card.tries /\ new.verified = card.verified
    BY <2>1 DEF Cards
  <2> HIDE DEF r, new
  <2> QED
    BY <1>1, <1>3, <2>2, <2>3, NothingType, QuietGood DEF r
<1>4. CASE cmd.ins \in {"read", "changed flag"}
  <2>1. /\ r.card = card /\ r.sw \in {"9000", "6A88"}
        /\ r.data \in {Nothing, Number("data", 0), Number("flag", 0), Number("flag", 1)}
    BY <1>4 DEF CardResponse, Returns, Refused, Response
  <2>2. r.data \in Answers
    <3>1. 0 \in 0 .. MaxTries /\ 1 \in 0 .. MaxTries
      OBVIOUS
    <3>2. Number("data", 0) \in Answers /\ Number("flag", 0) \in Answers
          /\ Number("flag", 1) \in Answers
      BY <3>1, AnswerTypes
    <3> QED
      BY <2>1, <3>2, NothingType
  <2> HIDE DEF r
  <2> QED
    BY <1>1, <1>4, <2>1, <2>2, QuietGood DEF r
<1>5. CASE cmd.ins = "counter"
  <2>1. cmd.ref \in CodeTypes
    BY <1>5 DEF CommandsOf
  <2>2. /\ r.card = card /\ r.sw \in {"9000", "6A88"}
        /\ r.data = IF r.sw = "9000" THEN Number("counter", card.tries[cmd.ref]) ELSE Nothing
    BY <1>5 DEF CardResponse, Returns, Refused, Response
  <2>3. r.data \in Answers
    BY <2>1, <2>2, NothingType, AnswerTypes, TriesType
  <2> HIDE DEF r
  <2> QED
    BY <1>1, <1>5, <2>2, <2>3, QuietGood DEF r
<1>6. CASE cmd.ins = "verify"
  <2>1. /\ cmd.ref \in Passed(c) /\ cmd.arg = c.code /\ cmd.blame = cmd.ref /\ cmd.ref # "PUK"
        /\ cmd.ref \in CodeTypes
    BY <1>6 DEF CommandsOf
  <2> DEFINE right == [card EXCEPT !.verified = card.verified \cup {cmd.ref}]
  <2>2. r = Checks(card, cmd.ref, c.code, right)
    BY <1>6, <2>1 DEF CardResponse
  <2>3. /\ right \in Cards /\ right.tries = card.tries
        /\ right.verified = card.verified \cup {cmd.ref}
    BY <2>1 DEF Cards
  <2> HIDE DEF right
  <2>4. \A t \in CodeTypes : card.tries[t] <= right.tries[t]
    BY <2>3, SameTries
  <2>5. \A t \in Passed(c) : cmd \in Asks(t) => t = cmd.ref
    BY <1>6 DEF Asks
  <2>6. "PUK" \notin right.verified
    BY <1>1, <2>1, <2>3
  <2> QED
    <3>1. "PUK" \notin card.verified /\ right \in Cards /\ cmd.ins # "counter"
      BY <1>1, <1>6, <2>3
    <3> QED
      BY <2>1, <2>2, <2>4, <2>5, <2>6, <3>1, ChecksGood
<1>7. CASE cmd.ins = "change"
  <2>1. /\ cmd.ref \in Passed(c) /\ cmd.arg = c.code /\ cmd.blame = cmd.ref
        /\ cmd.ref \in CodeTypes
    BY <1>7 DEF CommandsOf
  <2> DEFINE right == [card EXCEPT !.changed = card.changed \/ cmd.ref = "PIN2"]
  <2>2. r = Checks(card, cmd.ref, c.code, right)
    BY <1>7, <2>1 DEF CardResponse
  <2>3. right \in Cards /\ right.tries = card.tries /\ right.verified = card.verified
    BY <2>1 DEF Cards
  <2> HIDE DEF right
  <2>4. \A t \in CodeTypes : card.tries[t] <= right.tries[t]
    BY <2>3, SameTries
  <2>5. \A t \in Passed(c) : cmd \in Asks(t) => t = cmd.ref
    BY <1>7 DEF Asks
  <2> QED
    BY <1>1, <1>7, <2>1, <2>2, <2>3, <2>4, <2>5, ChecksGood
<1>8. CASE cmd.ins = "unblock"
  <2>1. r.card = card /\ r.sw = "6982" /\ r.data = Nothing
    BY <1>1, <1>8 DEF CardResponse, Unblocks, Refused, Response
  <2> HIDE DEF r
  <2> QED
    BY <1>1, <1>8, <2>1, NothingType, QuietGood DEF r
<1>9. CASE cmd.ins = "unblock with PUK"
  <2>1. "PUK" \in Passed(c) /\ cmd.arg = c.code /\ cmd.blame = "PUK" /\ cmd.ref \in CodeTypes
    BY <1>9 DEF CommandsOf
  <2> DEFINE changed == card.changed \/ cmd.ref = "PIN2"
             right == [card EXCEPT !.tries[cmd.ref] = MaxTries, !.changed = changed]
  <2>2. r = Checks(card, "PUK", c.code, right)
    BY <1>9, <2>1 DEF CardResponse
  <2>3. /\ right \in Cards /\ right.verified = card.verified
        /\ \A t \in CodeTypes : right.tries[t] = IF t = cmd.ref THEN MaxTries ELSE card.tries[t]
    <3>1. MaxTries \in 0 .. MaxTries /\ changed \in BOOLEAN
      OBVIOUS
    <3> HIDE DEF changed
    <3> QED
      BY <2>1, <3>1 DEF Cards
  <2> HIDE DEF right
  <2>4. \A t \in CodeTypes : card.tries[t] <= right.tries[t]
    <3> SUFFICES ASSUME NEW t \in CodeTypes PROVE card.tries[t] <= right.tries[t]
      OBVIOUS
    <3>1. card.tries[t] \in 0 .. MaxTries
      BY TriesType
    <3>2. right.tries[t] = IF t = cmd.ref THEN MaxTries ELSE card.tries[t]
      BY <2>3
    <3> QED
      BY <3>1, <3>2
  <2>5. "PUK" \in CodeTypes /\ \A t \in Passed(c) : cmd \in Asks(t) => t = "PUK"
    BY <1>9 DEF Asks, CodeTypes
  <2> QED
    BY <1>1, <1>9, <2>1, <2>2, <2>3, <2>4, <2>5, ChecksGood
<1>10. CASE cmd.ins = "set environment"
  <2>1. cmd.ref \in {"B6", "A4", "B8"} /\ cmd.arg \in Keys
    BY <1>10 DEF CommandsOf
  <2> DEFINE new == [card EXCEPT !.env[cmd.ref] = cmd.arg]
  <2>2. r.card \in {card, new} /\ r.sw \in {"9000", "6A88"} /\ r.data = Nothing
    BY <1>10 DEF CardResponse, Becomes, Done, Refused, Response
  <2>3. new \in Cards /\ new.tries = card.tries /\ new.verified = card.verified
    BY <2>1 DEF Cards
  <2> HIDE DEF r, new
  <2> QED
    BY <1>1, <1>10, <2>2, <2>3, NothingType, QuietGood DEF r
<1>11. CASE cmd.ins = "hash"
  <2>1. cmd.arg \in Hashes \cup {""}
    BY <1>11, CallTypes DEF CommandsOf
  <2> DEFINE new == [card EXCEPT !.hashed = cmd.arg]
  <2>2. r.card \in {card, new} /\ r.sw \in {"9000", "6A88"} /\ r.data = Nothing
    BY <1>11 DEF CardResponse, Becomes, Done, Refused, Response
  <2>3. new \in Cards /\ new.tries = card.tries /\ new.verified = card.verified
    BY <2>1 DEF Cards
  <2> HIDE DEF r, new
  <2> QED
    BY <1>1, <1>11, <2>2, <2>3, NothingType, QuietGood DEF r
<1>12. ASSUME NEW template \in {"B6", "A4", "B8"}, NEW data \in Answers,
              r = Uses(card, template, data),
              cmd.ins \in {"sign", "authenticate", "decipher"}
       PROVE  CardGood(c, cmd, r)
  <2> DEFINE still == card.verified \ (IF card.env[template] = "sign" THEN {"PIN2"} ELSE {})
             new == [card EXCEPT !.verified = still, !.hashed = ""]
  <2>1. r.card \in {card, new} /\ r.sw \in {"9000", "6982"} /\ r.data \in {data, Nothing}
    BY <1>12 DEF Uses, Refused, Response
  <2>2. still \in SUBSET CodeTypes /\ "PUK" \notin still
    BY <1>1 DEF Cards
  <2> HIDE DEF still
  <2>3. new \in Cards /\ new.tries = card.tries /\ new.verified = still
    BY <2>2 DEF Cards
  <2> HIDE DEF r, new
  <2> QED
    BY <1>1, <1>12, <2>1, <2>2, <2>3, NothingType, QuietGood DEF r
<1>13. CASE cmd.ins \in {"sign", "authenticate", "decipher"}
  <2>1. /\ card.env["B6"] \in Keys \cup {None} /\ card.env["A4"] \in Keys \cup {None}
        /\ card.hashed \in Hashes \cup {""} /\ 0 \in 0 .. MaxTries
    <3>1. card.env \in [{"B6", "A4", "B8"} -> Keys \cup {None}]
      BY DEF Cards
    <3>2. card.hashed \in Hashes \cup {""}
      BY DEF Cards
    <3>3. 0 \in 0 .. MaxTries
      OBVIOUS
    <3>4. card.env["B6"] \in Keys \cup {None} /\ card.env["A4"] \in Keys \cup {None}
      BY <3>1
    <3> QED
      BY <3>2, <3>3, <3>4
  <2>2. cmd.ins \in {"sign", "authenticate"} => cmd.arg \in Hashes \cup {""}
    BY CallTypes DEF CommandsOf
  <2>3. \E template \in {"B6", "A4", "B8"}, data \in Answers : r = Uses(card, template, data)
    <3>1. CASE cmd.ins = "sign"
      BY <2>1, <2>2, <3>1, AnswerTypes DEF CardResponse
    <3>2. CASE cmd.ins = "authenticate"
      BY <2>1, <2>2, <3>2, AnswerTypes DEF CardResponse
    <3>3. CASE cmd.ins = "decipher"
      BY <2>1, <3>3, AnswerTypes DEF CardResponse
    <3> QED
      BY <1>13, <3>1, <3>2, <3>3
  <2> QED
    BY <1>12, <1>13, <2>3
<1>14. cmd.ins \in {"select", "select file", "read", "counter", "changed flag", "verify",
                    "change", "unblock", "unblock with PUK", "set environment", "hash",
                    "sign", "authenticate", "decipher", "throw", "require"}
  BY <1>1 DEF Commands
<1> QED
  BY <1>2, <1>3, <1>4, <1>5, <1>6, <1>7, <1>8, <1>9, <1>10, <1>11, <1>13, <1>14

-----------------------------------------------------------------------------
(* The steps *)

Fails == {"CodeVerificationException", "ApduResponseException", "SmartCardReaderException",
          "RuntimeException", "NullPointerException"}

LEMMA WhenOpen ==
  ASSUME IInv, script # <<>>
  PROVE  /\ outcome = Open /\ call \in TokenCalls /\ kind \in {"ID1", "Thales"}
         /\ script \in Seq(CommandsOf(call)) /\ Head(script) \in CommandsOf(call)
         /\ card \in Cards /\ "PUK" \notin card.verified /\ answer \in Answers
         /\ \A t \in CodeTypes : before.tries[t] \in Nat /\ before.tries[t] <= card.tries[t]
         /\ Passed(call) \subseteq CodeTypes
<1>1. outcome = Open /\ call \in Calls /\ card \in Cards /\ answer \in Answers
      /\ kind \in {"ID1", "Thales"}
  BY DEF IInv, PlaceInv, TypeOK
<1>2. call \in TokenCalls
  BY <1>1 DEF Calls
<1>3. script \in Seq(CommandsOf(call)) /\ "PUK" \notin card.verified
  BY DEF IInv, ScriptInv, PukInv
<1>4. Head(script) \in CommandsOf(call)
  BY <1>3, TailAt
<1>5. \A t \in CodeTypes : before.tries[t] <= card.tries[t]
  BY <1>1 DEF IInv, TriesInv
<1>6. before.tries \in [CodeTypes -> 0 .. MaxTries]
  BY DEF IInv, TypeOK
<1>7. \A t \in CodeTypes : before.tries[t] \in Nat
  BY <1>6
<1> QED
  BY <1>1, <1>2, <1>3, <1>4, <1>5, <1>7, CallTypes

\* A call ends with an exception.
LEMMA EndGood ==
  ASSUME IInv, script # <<>>, UNCHANGED <<kind, call, before>>,
         answer' \in Answers, card' \in Cards, "PUK" \notin card'.verified,
         disturbed' \in BOOLEAN,
         NEW how \in Fails, NEW type \in CodeTypes \cup {None}, NEW left \in 0 .. 2,
         End(how, type, left),
         how = "CodeVerificationException" => left = card'.tries[type],
         OneAttemptPerCall'
  PROVE  IInv'
<1>1. script' = <<>> /\ outcome' = Ended(how, type, left)
  BY DEF End
<1>2. outcome'.how = how /\ outcome'.type = type /\ outcome'.left = left
  BY <1>1 DEF Ended
<1>3. outcome'.how \notin {"open", "ok"} /\ outcome' # Open
  BY <1>2 DEF Fails, Open, Ended
<1>4. TypeOK'
  <2>1. outcome' \in [how : {"open", "ok", "CodeVerificationException",
                             "ApduResponseException", "SmartCardReaderException",
                             "RuntimeException", "NullPointerException"},
                      type : CodeTypes \cup {None}, left : 0 .. 2]
    BY <1>1 DEF Ended, Fails
  <2>2. script' \in Seq(Commands)
    BY <1>1, EmptySeq
  <2>3. kind' \in {"ID1", "Thales"} /\ call' \in Calls' \cup {NoCall}
    BY DEF IInv, TypeOK, Calls
  <2>4. before' \in [app : {None, "main", "qscd", "oberthur"},
                     tries : [CodeTypes -> 0 .. MaxTries]]
    BY DEF IInv, TypeOK
  <2> QED
    BY <2>1, <2>2, <2>3, <2>4 DEF TypeOK
<1>5. PlaceInv'
  BY <1>1, <1>3 DEF PlaceInv
<1>6. ScriptInv'
  BY <1>1, EmptySeq DEF ScriptInv
<1>7. CodeInv' /\ PukInv' /\ TriesInv'
  BY <1>3 DEF CodeInv, PukInv, TriesInv
<1>8. CounterInv'
  BY <1>2, <1>3 DEF CounterInv, AttemptsReported
<1> QED
  BY <1>4, <1>5, <1>6, <1>7, <1>8 DEF IInv

\* A call goes on, or ends with its result.
LEMMA ProceedGood ==
  ASSUME IInv, script # <<>>, UNCHANGED <<kind, call, before, disturbed>>,
         NEW data \in Answers, Proceed(data),
         card' \in Cards, "PUK" \notin card'.verified,
         \A t \in CodeTypes : card.tries[t] <= card'.tries[t],
         \A t \in Passed(call) : Head(script) \in Asks(t) => call.code = t,
         Head(script).ins = "counter" =>
             data = Number("counter", card'.tries[Head(script).ref])
  PROVE  IInv'
<1> DEFINE S == CommandsOf(call)
<1>0. /\ outcome = Open /\ call \in TokenCalls /\ script \in Seq(S)
      /\ card \in Cards /\ Passed(call) \subseteq CodeTypes
      /\ \A t \in CodeTypes : before.tries[t] \in Nat /\ before.tries[t] <= card.tries[t]
  BY WhenOpen
<1>1. /\ answer' = data /\ script' = Tail(script)
      /\ outcome' = IF script' = <<>> THEN Ended("ok", None, 0) ELSE Open
  BY <1>0 DEF Proceed, End
<1>2. Tail(script) \in Seq(S)
  BY <1>0, TailAt
<1>3. /\ outcome'.how \in {"open", "ok"} /\ (outcome'.how = "open" => outcome' = Open)
      /\ outcome' = Open <=> script' # <<>>
      /\ outcome'.how = "ok" <=> script' = <<>>
  BY <1>1 DEF Open, Ended
<1>4. TypeOK'
  <2>1. outcome' \in [how : {"open", "ok", "CodeVerificationException",
                             "ApduResponseException", "SmartCardReaderException",
                             "RuntimeException", "NullPointerException"},
                      type : CodeTypes \cup {None}, left : 0 .. 2]
    BY <1>1 DEF Ended, Open
  <2>2. script' \in Seq(Commands)
    <3>1. S \subseteq Commands
      BY DEF CommandsOf
    <3> QED
      BY <1>1, <1>2, <3>1, SeqMonotonic
  <2>3. kind' \in {"ID1", "Thales"} /\ call' \in Calls' \cup {NoCall}
    BY DEF IInv, TypeOK, Calls
  <2>4. before' \in [app : {None, "main", "qscd", "oberthur"},
                     tries : [CodeTypes -> 0 .. MaxTries]]
    BY DEF IInv, TypeOK
  <2>5. disturbed' \in BOOLEAN
    BY DEF IInv, TypeOK
  <2> QED
    BY <1>1, <2>1, <2>2, <2>3, <2>4, <2>5 DEF TypeOK
<1>5. PlaceInv'
  <2>1. call # NoCall
    BY <1>0 DEF IInv, PlaceInv
  <2> QED
    BY <1>3, <2>1 DEF PlaceInv
<1>6. ScriptInv'
  BY <1>1, <1>2 DEF ScriptInv
<1>7. CodeInv'
  <2> SUFFICES ASSUME NEW t \in Passed(call), call.code # t
               PROVE  \E i \in 1 .. Len(Tail(script)) : Tail(script)[i] \in Asks(t)
    BY <1>1 DEF CodeInv
  <2>1. outcome.how = "open"
    BY <1>0 DEF Open, Ended
  <2>2. \E i \in 1 .. Len(script) : script[i] \in Asks(t)
    BY <2>1 DEF IInv, CodeInv
  <2>3. Head(script) \notin Asks(t)
    OBVIOUS
  <2> QED
    BY <1>0, <2>2, <2>3, InTail
<1>8. \A t \in CodeTypes : before.tries[t] <= card'.tries[t] /\ card'.tries[t] \in Nat
  <2> SUFFICES ASSUME NEW t \in CodeTypes
               PROVE  before.tries[t] <= card'.tries[t] /\ card'.tries[t] \in Nat
    OBVIOUS
  <2>1. card.tries[t] \in Nat /\ card'.tries[t] \in Nat
    BY <1>0, TriesType
  <2>2. before.tries[t] <= card.tries[t] /\ before.tries[t] \in Nat
    BY <1>0
  <2>3. card.tries[t] <= card'.tries[t]
    OBVIOUS
  <2> QED
    BY <2>1, <2>2, <2>3
<1>9. TriesInv'
  <2>1. OneAttemptPerCall'
    <3> SUFFICES ASSUME NEW t \in CodeTypes
                 PROVE  before.tries[t] - card'.tries[t]
                            <= IF t \in Passed(call) /\ call.code # t THEN 1 ELSE 0
      BY DEF OneAttemptPerCall
    <3>1. /\ before.tries[t] \in Nat /\ card'.tries[t] \in Nat
          /\ before.tries[t] <= card'.tries[t]
      BY <1>0, <1>8
    <3> QED
      BY <3>1
  <2> QED
    BY <1>8, <2>1 DEF TriesInv
<1>10. PukInv'
  BY DEF PukInv
<1>11. CounterInv'
  <2>1. outcome' = Open /\ call.op = "codeRetryCounter" =>
            script'[Len(script')] = Plain("counter", call.type, "")
    <3> SUFFICES ASSUME Tail(script) # <<>>, call.op = "codeRetryCounter"
                 PROVE  Tail(script)[Len(Tail(script))] = Plain("counter", call.type, "")
      BY <1>1, <1>3
    <3>1. script[Len(script)] = Plain("counter", call.type, "")
      BY <1>0 DEF IInv, CounterInv
    <3>2. /\ Len(Tail(script)) = Len(script) - 1 /\ Len(script) \in Nat
          /\ \A i \in 1 .. Len(script) - 1 : Tail(script)[i] = script[i + 1]
      BY <1>0, TailAt
    <3>3. Len(Tail(script)) \in Nat \ {0}
      BY <1>2, EmptySeq
    <3>4. Len(script) - 1 \in 1 .. Len(script) - 1 /\ (Len(script) - 1) + 1 = Len(script)
      BY <3>2, <3>3
    <3> QED
      BY <3>1, <3>2, <3>4
  <2>2. outcome'.how = "ok" /\ call.op = "codeRetryCounter" =>
            answer' = Number("counter", card'.tries[call.type])
    <3> SUFFICES ASSUME Tail(script) = <<>>, call.op = "codeRetryCounter"
                 PROVE  data = Number("counter", card'.tries[call.type])
      BY <1>1, <1>3
    <3>1. script[Len(script)] = Plain("counter", call.type, "")
      BY <1>0 DEF IInv, CounterInv
    <3>2. Len(Tail(script)) = Len(script) - 1 /\ Head(script) = script[1] /\ Len(script) \in Nat
      BY <1>0, TailAt
    <3>3. Len(script) = 1
      <4>1. Len(<<>>) = 0
        BY EmptySeq
      <4>2. Len(Tail(script)) = 0
        BY <4>1, Zenon
      <4>3. Len(script) \in Nat /\ Len(script) - 1 = 0
        BY <3>2, <4>2
      <4> QED
        BY <4>3
    <3>4. Head(script).ins = "counter" /\ Head(script).ref = call.type
      <4>1. Head(script) = Plain("counter", call.type, "")
        BY <3>1, <3>2, <3>3
      <4>2. /\ Plain("counter", call.type, "").ins = "counter"
            /\ Plain("counter", call.type, "").ref = call.type
        BY DEF Plain, Command
      <4> QED
        BY <4>1, <4>2
    <3> QED
      BY <3>4
  <2> QED
    BY <1>3, <2>1, <2>2 DEF CounterInv, AttemptsReported
<1> QED
  BY <1>4, <1>5, <1>6, <1>7, <1>9, <1>10, <1>11 DEF IInv

LEMMA InitInv == Init => IInv
<1> SUFFICES ASSUME Init PROVE IInv
  OBVIOUS
<1>1. kind \in {"ID1", "Thales"} /\ call = NoCall /\ script = <<>> /\ answer = Nothing
      /\ outcome = Ended("ok", None, 0) /\ before = Standing(card) /\ disturbed = FALSE
  BY DEF Init
<1>2. PICK changed \in BOOLEAN, app \in {None, "main"} :
         card = [app |-> app, file |-> None, verified |-> {}, env |-> NoEnv, hashed |-> "",
                 changed |-> changed, tries |-> [t \in CodeTypes |-> MaxTries]]
  BY DEF Init
<1>3. card \in Cards /\ "PUK" \notin card.verified
      /\ card.tries = [t \in CodeTypes |-> MaxTries]
  <2>1. NoEnv \in [{"B6", "A4", "B8"} -> Keys \cup {None}]
    BY DEF NoEnv
  <2>2. [t \in CodeTypes |-> MaxTries] \in [CodeTypes -> 0 .. MaxTries]
    OBVIOUS
  <2> QED
    BY <1>2, <2>1, <2>2 DEF Cards
<1>4. before.tries = card.tries /\ before \in [app : {None, "main", "qscd", "oberthur"},
                                              tries : [CodeTypes -> 0 .. MaxTries]]
  BY <1>1, <1>3 DEF Standing, Cards
<1>5. outcome.how = "ok" /\ outcome # Open
  BY <1>1 DEF Ended, Open
<1>6. call.op = None /\ Passed(call) = {}
  BY <1>1 DEF NoCall, Call, Passed, None, PinOps
<1>7. TypeOK
  <2>1. outcome \in [how : {"open", "ok", "CodeVerificationException",
                            "ApduResponseException", "SmartCardReaderException",
                            "RuntimeException", "NullPointerException"},
                     type : CodeTypes \cup {None}, left : 0 .. 2]
    BY <1>1 DEF Ended
  <2>2. script \in Seq(Commands)
    BY <1>1, EmptySeq
  <2> QED
    BY <1>1, <1>3, <1>4, <2>1, <2>2, NothingType DEF TypeOK
<1>8. PlaceInv /\ PukInv
  BY <1>1, <1>3, <1>5 DEF PlaceInv, PukInv
<1>9. ScriptInv
  BY <1>1, EmptySeq DEF ScriptInv
<1>10. CodeInv
  BY <1>6 DEF CodeInv
<1>11. TriesInv
  <2>1. ASSUME NEW t \in CodeTypes PROVE before.tries[t] - card.tries[t] <= 0
    BY <1>3, <1>4, TriesType
  <2>2. OneAttemptPerCall
    BY <1>6, <2>1 DEF OneAttemptPerCall
  <2> QED
    BY <1>5, <2>2 DEF TriesInv
<1>12. CounterInv
  BY <1>5, <1>6 DEF CounterInv, AttemptsReported, None
<1> QED
  BY <1>7, <1>8, <1>9, <1>10, <1>11, <1>12 DEF IInv

LEMMA BeginStep ==
  ASSUME IInv, NEW c \in Calls, Begin(c)
  PROVE  IInv'
<1>1. /\ call' = c /\ script' = Script(c) /\ answer' = Nothing /\ outcome' = Open
      /\ before' = Standing(card) /\ disturbed' = FALSE /\ kind' = kind /\ card' = card
  BY DEF Begin
<1>2. /\ c \in TokenCalls /\ (c.op = "pinChangedFlag" => kind = "Thales")
      /\ kind \in {"ID1", "Thales"} /\ card \in Cards /\ "PUK" \notin card.verified
  BY DEF Calls, IInv, TypeOK, PukInv
<1>3. ScriptOf(c, script')
  <2>1. CASE kind = "ID1"
    BY <1>1, <1>2, <2>1, IdemiaScript DEF Script
  <2>2. CASE kind = "Thales"
    BY <1>1, <1>2, <2>2, GemaltoScript DEF Script
  <2> QED
    BY <1>2, <2>1, <2>2
<1>4. before'.tries = card'.tries /\ before' \in [app : {None, "main", "qscd", "oberthur"},
                                                 tries : [CodeTypes -> 0 .. MaxTries]]
  BY <1>1, <1>2 DEF Standing, Cards
<1>5. outcome'.how = "open"
  BY <1>1 DEF Ended, Open
<1>6. TypeOK'
  <2>1. outcome' \in [how : {"open", "ok", "CodeVerificationException",
                             "ApduResponseException", "SmartCardReaderException",
                             "RuntimeException", "NullPointerException"},
                      type : CodeTypes \cup {None}, left : 0 .. 2]
    BY <1>1 DEF Ended, Open
  <2>2. script' \in Seq(Commands)
    <3>1. CommandsOf(c) \subseteq Commands
      BY DEF CommandsOf
    <3> QED
      BY <1>3, <3>1, SeqMonotonic DEF ScriptOf
  <2>3. call' \in Calls'
    BY <1>1 DEF Calls
  <2> QED
    BY <1>1, <1>2, <1>4, <2>1, <2>2, <2>3, NothingType DEF TypeOK
<1>7. PlaceInv'
  <2>1. c.op \in Ops
    BY <1>2, CallTypes
  <2>2. c # NoCall
    <3>1. NoCall.op = None
      BY DEF NoCall, Call
    <3>2. c.op # None
      BY <2>1 DEF Ops, PinOps, None
    <3> QED
      BY <3>1, <3>2
  <2> QED
    BY <1>1, <1>3, <2>2 DEF PlaceInv, ScriptOf
<1>8. ScriptInv' /\ CodeInv' /\ PukInv'
  BY <1>1, <1>2, <1>3 DEF ScriptOf, ScriptInv, CodeInv, PukInv
<1>9. TriesInv'
  <2>1. ASSUME NEW t \in CodeTypes
        PROVE  before'.tries[t] <= card'.tries[t] /\ before'.tries[t] - card'.tries[t] = 0
    BY <1>1, <1>2, <1>4, TriesType
  <2>2. OneAttemptPerCall'
    <3> SUFFICES ASSUME NEW t \in CodeTypes
                 PROVE  before'.tries[t] - card'.tries[t]
                            <= IF t \in Passed(call') /\ call'.code # t THEN 1 ELSE 0
      BY DEF OneAttemptPerCall
    <3>1. before'.tries[t] - card'.tries[t] = 0
      BY <2>1
    <3> QED
      BY <3>1
  <2> QED
    BY <2>1, <2>2 DEF TriesInv
<1>10. CounterInv'
  BY <1>1, <1>3, <1>5 DEF ScriptOf, CounterInv, AttemptsReported
<1> QED
  BY <1>6, <1>7, <1>8, <1>9, <1>10 DEF IInv

\* A call that is open has lost no attempt yet, and may lose one now.
LEMMA OneAttempt ==
  ASSUME IInv, script # <<>>, UNCHANGED <<call, before>>, card' \in Cards,
         \A t \in CodeTypes :
            \/ card.tries[t] <= card'.tries[t]
            \/ /\ card.tries[t] = card'.tries[t] + 1
               /\ t \in Passed(call) /\ call.code # t
  PROVE  OneAttemptPerCall'
<1> SUFFICES ASSUME NEW t \in CodeTypes
             PROVE  before.tries[t] - card'.tries[t]
                        <= IF t \in Passed(call) /\ call.code # t THEN 1 ELSE 0
  BY DEF OneAttemptPerCall
<1>1. /\ before.tries[t] \in Nat /\ before.tries[t] <= card.tries[t] /\ card.tries[t] \in Nat
      /\ card'.tries[t] \in Nat
  BY WhenOpen, TriesType
<1>2. CASE card.tries[t] <= card'.tries[t]
  BY <1>1, <1>2
<1>3. CASE card.tries[t] = card'.tries[t] + 1 /\ t \in Passed(call) /\ call.code # t
  BY <1>1, <1>3
<1> QED
  BY <1>2, <1>3

\* An error of no code ends the call, wrapped or not.
LEMMA ErrorEnds ==
  ASSUME NEW cmd, NEW sw, ApduError(cmd, sw), ~(cmd.blame \in CodeTypes /\ sw \in CodeFailures)
  PROVE  \E how \in {"SmartCardReaderException", "ApduResponseException"} : End(how, None, 0)
BY Zenon DEF ApduError

LEMMA ErrorCloses ==
  ASSUME NEW cmd, NEW sw, ApduError(cmd, sw)
  PROVE  outcome'.how \in Fails
<1>1. CASE cmd.blame \in CodeTypes /\ sw \in CodeFailures
  <2> DEFINE left == CASE sw = "63C2" -> 2 [] sw = "63C1" -> 1 [] OTHER -> 0
  <2>1. End("CodeVerificationException", cmd.blame, left)
    BY <1>1, Zenon DEF ApduError
  <2> HIDE DEF left
  <2> QED
    BY <2>1 DEF End, Ended, Fails
<1>2. CASE ~(cmd.blame \in CodeTypes /\ sw \in CodeFailures)
  <2>1. PICK how \in {"SmartCardReaderException", "ApduResponseException"} : End(how, None, 0)
    BY <1>2, ErrorEnds
  <2> QED
    BY <2>1 DEF End, Ended, Fails
<1> QED
  BY <1>1, <1>2

LEMMA FaultCloses ==
  ASSUME TransmitFails \/ Unreadable \/ CardFails
  PROVE  outcome'.how \in Fails
<1>1. CASE CardFails
  BY <1>1, ErrorCloses DEF CardFails
<1>2. CASE TransmitFails \/ Unreadable
  BY <1>2 DEF TransmitFails, Unreadable, End, Ended, Fails
<1> QED
  BY <1>1, <1>2

LEMMA ExchangeStep == IInv /\ Exchange => IInv'
<1> SUFFICES ASSUME IInv, Exchange PROVE IInv'
  OBVIOUS
<1> DEFINE cmd == Head(script)
           got == CardResponse(card, cmd)
<1>1. /\ script # <<>> /\ cmd.ins \notin {"throw", "require"} /\ card' = got.card
      /\ UNCHANGED <<kind, call, before, disturbed>>
      /\ IF got.sw = "9000" THEN Proceed(got.data) ELSE ApduError(cmd, got.sw) /\ UNCHANGED answer
  BY DEF Exchange, AtCommand
<1>2. /\ call \in TokenCalls /\ cmd \in CommandsOf(call) /\ card \in Cards /\ answer \in Answers
      /\ PukInv
  BY <1>1, WhenOpen DEF IInv
<1>3. CardGood(call, cmd, got)
  BY <1>1, <1>2, ResponseGood
<1> HIDE DEF got
<1>4. card' \in Cards /\ "PUK" \notin card'.verified /\ got.data \in Answers
      /\ got.sw \in StatusWords
  BY <1>1, <1>3 DEF CardGood
<1>5. CASE got.sw = "9000"
  <2>1. \A t \in CodeTypes : card.tries[t] <= card'.tries[t]
    BY <1>1, <1>3, <1>5 DEF CardGood
  <2>2. \A t \in Passed(call) : cmd \in Asks(t) => call.code = t
    BY <1>1, <1>3, <1>5 DEF CardGood
  <2>3. cmd.ins = "counter" => got.data = Number("counter", card'.tries[cmd.ref])
    BY <1>1, <1>3, <1>5 DEF CardGood
  <2>4. Proceed(got.data)
    BY <1>1, <1>5
  <2> HIDE DEF cmd
  <2> QED
    BY <1>1, <1>4, <2>1, <2>2, <2>3, <2>4, ProceedGood DEF cmd
<1>6. CASE got.sw # "9000"
  <2>1. OneAttemptPerCall'
    <3>1. \A t \in CodeTypes :
             \/ card.tries[t] <= card'.tries[t]
             \/ /\ card.tries[t] = card'.tries[t] + 1
                /\ t \in Passed(call) /\ call.code # t
      BY <1>1, <1>3 DEF CardGood
    <3> QED
      BY <1>1, <1>4, <3>1, OneAttempt
  <2>2. ApduError(cmd, got.sw) /\ answer' = answer
    BY <1>1, <1>6
  <2>3. disturbed' \in BOOLEAN
    BY <1>1 DEF IInv, TypeOK
  <2>4. CASE cmd.blame \in CodeTypes /\ got.sw \in CodeFailures
    <3> DEFINE left == CASE got.sw = "63C2" -> 2 [] got.sw = "63C1" -> 1 [] OTHER -> 0
    <3>1. End("CodeVerificationException", cmd.blame, left)
      BY <2>2, <2>4 DEF ApduError
    <3>2. got.sw \in {"6983", "63C0", "63C1", "63C2"}
      BY <1>4, <2>4 DEF StatusWords, CodeFailures, Idemia!CodeFailures, Gemalto!CodeFailures
    <3>3. left \in 0 .. 2
      OBVIOUS
    <3>4. cmd.blame \in CodeTypes /\ left = card'.tries[cmd.blame]
      BY <1>1, <1>3, <3>2 DEF CardGood
    <3> HIDE DEF left, cmd
    <3> QED
      BY <1>1, <1>2, <1>4, <2>1, <2>2, <2>3, <3>1, <3>3, <3>4, EndGood DEF Fails
  <2>5. CASE ~(cmd.blame \in CodeTypes /\ got.sw \in CodeFailures)
    <3>1. PICK how \in {"SmartCardReaderException", "ApduResponseException"} :
              End(how, None, 0)
      BY <2>2, <2>5, ErrorEnds
    <3> HIDE DEF cmd
    <3> QED
      BY <1>1, <1>2, <1>4, <2>1, <2>2, <2>3, <3>1, EndGood DEF Fails
  <2> QED
    BY <2>4, <2>5
<1> QED
  BY <1>5, <1>6

\* A call ends with an exception of the library while the card stays as it is.
LEMMA QuietEnd ==
  ASSUME IInv, script # <<>>, UNCHANGED <<kind, call, answer, card, before>>,
         disturbed' \in BOOLEAN, NEW how \in Fails \ {"CodeVerificationException"},
         End(how, None, 0)
  PROVE  IInv'
<1>1. card \in Cards /\ "PUK" \notin card.verified /\ answer \in Answers
  BY WhenOpen
<1>2. \A t \in CodeTypes : card.tries[t] <= card'.tries[t]
  BY <1>1, SameTries
<1>3. OneAttemptPerCall'
  BY <1>1, <1>2, OneAttempt
<1> QED
  BY <1>1, <1>3, EndGood

LEMMA RequireStep == IInv /\ Require => IInv'
<1> SUFFICES ASSUME IInv, Require PROVE IInv'
  OBVIOUS
<1>1. /\ script # <<>> /\ Head(script).ins = "require"
      /\ UNCHANGED <<kind, call, card, before, disturbed>>
  BY DEF Require
<1>2. card \in Cards /\ "PUK" \notin card.verified /\ answer \in Answers /\ disturbed \in BOOLEAN
  BY <1>1, WhenOpen DEF IInv, TypeOK
<1>3. CASE answer.value = 0
  <2>1. End("SmartCardReaderException", None, 0) /\ answer' = answer
    BY <1>3 DEF Require
  <2> QED
    BY <1>1, <1>2, <2>1, QuietEnd DEF Fails
<1>4. CASE answer.value # 0
  <2>1. Proceed(answer)
    BY <1>4 DEF Require
  <2>2. \A t \in CodeTypes : card.tries[t] <= card'.tries[t]
    BY <1>1, <1>2, SameTries
  <2>3. \A t \in Passed(call) : Head(script) \notin Asks(t)
    BY <1>1 DEF Asks
  <2> QED
    BY <1>1, <1>2, <2>1, <2>2, <2>3, ProceedGood
<1> QED
  BY <1>3, <1>4

LEMMA ThrowStep == IInv /\ ThrowItself => IInv'
<1> SUFFICES ASSUME IInv, ThrowItself PROVE IInv'
  OBVIOUS
<1>1. /\ script # <<>> /\ Head(script).ins = "throw" /\ End(Head(script).ref, None, 0)
      /\ UNCHANGED <<kind, call, answer, card, before, disturbed>>
  BY DEF ThrowItself
<1>2. Head(script) \in CommandsOf(call)
  BY <1>1, WhenOpen
<1>3. Head(script).ref \in Fails \ {"CodeVerificationException"}
  BY <1>1, <1>2 DEF CommandsOf, Exceptions, Fails
<1>4. disturbed' \in BOOLEAN
  BY <1>1 DEF IInv, TypeOK
<1> QED
  BY <1>1, <1>3, <1>4, QuietEnd

LEMMA FaultSteps == IInv /\ (TransmitFails \/ Unreadable \/ CardFails) => IInv'
<1>1. ASSUME IInv, TransmitFails PROVE IInv'
  <2>0. PICK how \in {"SmartCardReaderException", "RuntimeException"} : End(how, None, 0)
    BY <1>1 DEF TransmitFails
  <2>1. /\ script # <<>> /\ Head(script).ins \notin {"throw", "require"}
        /\ card' \in {card, CardResponse(card, Head(script)).card}
        /\ End(how, None, 0) /\ disturbed' = TRUE
        /\ UNCHANGED <<kind, call, answer, before>>
    BY <1>1, <2>0 DEF TransmitFails, AtCommand
  <2>2. /\ call \in TokenCalls /\ Head(script) \in CommandsOf(call) /\ card \in Cards
        /\ answer \in Answers /\ "PUK" \notin card.verified /\ PukInv
    BY <1>1, <2>1, WhenOpen DEF IInv
  <2>3. CASE card' = card
    BY <1>1, <2>1, <2>3, QuietEnd DEF Fails
  <2>4. CASE card' = CardResponse(card, Head(script)).card
    <3>1. CardGood(call, Head(script), CardResponse(card, Head(script)))
      BY <2>1, <2>2, ResponseGood
    <3>2. /\ card' \in Cards /\ "PUK" \notin card'.verified
          /\ \A t \in CodeTypes :
                \/ card.tries[t] <= card'.tries[t]
                \/ /\ card.tries[t] = card'.tries[t] + 1
                   /\ t \in Passed(call) /\ call.code # t
      BY <2>4, <3>1 DEF CardGood
    <3>3. OneAttemptPerCall'
      BY <1>1, <2>1, <3>2, OneAttempt
    <3> QED
      BY <1>1, <2>1, <2>2, <3>2, <3>3, EndGood DEF Fails
  <2> QED
    BY <2>1, <2>3, <2>4
<1>2. ASSUME IInv, CardFails PROVE IInv'
  <2>1. /\ script # <<>> /\ ApduError(Head(script), "6F00") /\ disturbed' = TRUE
        /\ UNCHANGED <<kind, call, answer, card, before>>
    BY <1>2 DEF CardFails, AtCommand
  <2>2. "6F00" \notin CodeFailures
    BY DEF CodeFailures, Idemia!CodeFailures, Gemalto!CodeFailures
  <2>3. PICK how \in {"SmartCardReaderException", "ApduResponseException"} :
            End(how, None, 0)
    BY <2>1, <2>2, ErrorEnds
  <2> QED
    BY <1>2, <2>1, <2>3, QuietEnd DEF Fails
<1>3. ASSUME IInv, Unreadable PROVE IInv'
  <2>1. /\ script # <<>> /\ End("RuntimeException", None, 0) /\ disturbed' = TRUE
        /\ UNCHANGED <<kind, call, answer, card, before>>
    BY <1>3 DEF Unreadable, AtCommand
  <2> QED
    BY <1>3, <2>1, QuietEnd DEF Fails
<1> QED
  BY <1>1, <1>2, <1>3

\* A reset leaves the counters.
LEMMA ResetStep == IInv /\ CardReset => IInv'
<1> SUFFICES ASSUME IInv, CardReset PROVE IInv'
  OBVIOUS
<1>1. /\ card' = Reset(card) /\ disturbed' \in BOOLEAN
      /\ UNCHANGED <<kind, call, script, answer, outcome, before>>
  BY DEF CardReset, IInv, TypeOK
<1>2. card' \in Cards /\ card'.tries = card.tries /\ "PUK" \notin card'.verified
  BY <1>1, ResetCard DEF IInv, TypeOK
<1>3. TypeOK'
  BY <1>1, <1>2 DEF IInv, TypeOK, Calls
<1>4. PlaceInv' /\ ScriptInv' /\ CodeInv'
  BY <1>1 DEF IInv, PlaceInv, ScriptInv, CodeInv
<1>5. PukInv' /\ TriesInv'
  BY <1>1, <1>2 DEF IInv, PukInv, TriesInv, OneAttemptPerCall
<1>6. CounterInv'
  BY <1>1, <1>2 DEF IInv, CounterInv, AttemptsReported
<1> QED
  BY <1>3, <1>4, <1>5, <1>6 DEF IInv

LEMMA NextInv == IInv /\ [Next]_vars => IInv'
<1>1. ASSUME IInv, UNCHANGED vars PROVE IInv'
  BY <1>1 DEF vars, IInv, TypeOK, Calls, PlaceInv, ScriptInv, CodeInv, PukInv, TriesInv,
              OneAttemptPerCall, CounterInv, AttemptsReported
<1> QED
  BY <1>1, BeginStep, ExchangeStep, RequireStep, ThrowStep, FaultSteps, ResetStep
     DEF Next, Token

LEMMA Invariance == Spec => []IInv
BY InitInv, NextInv, PTL DEF Spec

-----------------------------------------------------------------------------
(* Signatures *)

Signs(c)    == c.op \in {"calculateSignature", "authenticate"}
Key(c)      == IF c.op = "calculateSignature" THEN "sign" ELSE "auth"
Template(c) == IF kind = "ID1" /\ c.op = "authenticate" THEN "A4" ELSE "B6"
FromEnd(s, i) == s[Len(s) + 1 - i]

\* How a script that signs ends: it sets the key, gives a Thales card the hash, and signs.
Last(c) == IF kind = "ID1"
           THEN Plain(IF c.op = "authenticate" THEN "authenticate" ELSE "sign", "", c.hash)
           ELSE Plain("sign", "", "")
Closing == IF kind = "ID1" THEN 2 ELSE 3
Ending(c, s) ==
    /\ FromEnd(s, 1) = Last(c)
    /\ Len(s) >= Closing => FromEnd(s, Closing) = SetEnv(Template(c), Key(c))
    /\ Len(s) >= 2 /\ kind = "Thales" => FromEnd(s, 2) = Plain("hash", "", c.hash)

\* Once the key has been set, the card has that key or, after a reset, none.
SignInv ==
    /\ outcome = Open /\ Signs(call) =>
          /\ Ending(call, script)
          /\ Len(script) < Closing => card.env[Template(call)] \in {None, Key(call)}
          /\ Len(script) = 1 /\ kind = "Thales" =>
                card.env["B6"] = None \/ card.hashed = call.hash
    /\ TheSignature

\* In what follows a sequence the last places stay the last.
LEMMA EndOfTail ==
  ASSUME NEW S, NEW q \in Seq(S), NEW n \in Nat \ {0}, n <= Len(q) - 1
  PROVE  FromEnd(Tail(q), n) = FromEnd(q, n) /\ Len(Tail(q)) = Len(q) - 1
<1>1. Len(q) \in Nat
  BY LenProperties
<1>2. q # <<>>
  BY <1>1, EmptySeq
<1>3. /\ Len(Tail(q)) = Len(q) - 1
      /\ \A i \in 1 .. Len(q) - 1 : Tail(q)[i] = q[i + 1]
  BY <1>2, TailAt
<1>4. (Len(q) - 1) + 1 - n \in 1 .. Len(q) - 1 /\ ((Len(q) - 1) + 1 - n) + 1 = Len(q) + 1 - n
  BY <1>1
<1> QED
  BY <1>3, <1>4 DEF FromEnd

LEMMA EndOfConcat ==
  ASSUME NEW S, NEW p \in Seq(S), NEW q \in Seq(S), NEW n \in 1 .. Len(q)
  PROVE  FromEnd(p \o q, n) = FromEnd(q, n)
<1>1. Len(p) \in Nat /\ Len(q) \in Nat
  BY LenProperties
<1>2. Len(q) + 1 - n \in 1 .. Len(q)
  BY <1>1
<1>3. (p \o q)[Len(p) + (Len(q) + 1 - n)] = q[Len(q) + 1 - n] /\ Len(p \o q) = Len(p) + Len(q)
  BY <1>2, ConcatSeq
<1>4. (Len(p) + Len(q)) + 1 - n = Len(p) + (Len(q) + 1 - n)
  BY <1>1
<1> QED
  BY <1>3, <1>4 DEF FromEnd

LEMMA SigningScript ==
  ASSUME NEW c \in TokenCalls, Signs(c), kind \in {"ID1", "Thales"}
  PROVE  Ending(c, Script(c)) /\ Len(Script(c)) >= Closing
<1> DEFINE S == CommandsOf(c)
<1>0. /\ \A app \in {"main", "qscd", "oberthur"} : SelectApp(app) \in S
      /\ \A t \in {"B6", "A4", "B8"}, key \in Keys : SetEnv(t, key) \in S
      /\ \A ins \in {"hash", "sign", "authenticate"}, hash \in {c.hash, ""} :
             Plain(ins, "", hash) \in S
      /\ Plain("changed flag", "PIN2", "") \in S /\ RequireNonZero \in S
      /\ \A type \in Passed(c) \ {"PUK"} : Verify(type, c.code) \in S
  BY Builders, AskingBuilders
<1>1. c.op \in {"calculateSignature", "authenticate"} /\ Key(c) \in Keys
      /\ Passed(c) = {PIN(c.op)} /\ PIN(c.op) # "PUK" /\ Template(c) \in {"B6", "A4"}
  BY PassedIs DEF Signs, Key, Keys, PIN, Template
<1> DEFINE verify == Verify(PIN(c.op), c.code)
           set == SetEnv(Template(c), Key(c))
<1>2. verify \in S /\ set \in S
  BY <1>0, <1>1
<1>3. CASE kind = "ID1"
  <2> DEFINE app == SelectApp(IF c.op = "authenticate" THEN "oberthur" ELSE "qscd")
             last == Last(c)
             s == <<app, verify, set, last>>
  <2>1. Script(c) = s
    BY <1>1, <1>3, SameIdemia DEF Script, Idemia!Script, Idemia!CalculateSignature,
            Idemia!Authenticate, PIN, Template, Key, Last
  <2>2. app \in S /\ last \in S
    BY <1>0, <1>1, <1>3 DEF Last
  <2> HIDE DEF app, verify, set, last
  <2>3. Len(s) = 4 /\ s[4] = last /\ s[3] = set
    BY <1>2, <2>2, Tuple4
  <2>4. FromEnd(s, 1) = last /\ FromEnd(s, 2) = set
    BY <2>3 DEF FromEnd
  <2> HIDE DEF s
  <2> QED
    BY <1>3, <2>1, <2>3, <2>4 DEF Ending, Closing, last, set
<1>4. CASE kind = "Thales"
  <2> DEFINE main == SelectApp("main")
             flag == Plain("changed flag", "PIN2", "")
             hash == Plain("hash", "", c.hash)
             last == Last(c)
             p == <<main, flag>> \o <<RequireNonZero>>
             q == <<verify, set, hash, last>>
  <2>1. Script(c) = q \/ Script(c) = p \o q
    BY <1>1, <1>4, SameGemalto DEF Script, Gemalto!Script, Gemalto!CalculateSignature,
            Gemalto!Authenticate, Gemalto!Sign, Gemalto!PinChangedFlag, Gemalto!Main,
            PIN, Template, Key, Last
  <2>2. main \in S /\ flag \in S /\ hash \in S /\ last \in S
    BY <1>0, <1>4 DEF Last
  <2> HIDE DEF main, flag, verify, set, hash, last
  <2>3. Len(q) = 4 /\ q[4] = last /\ q[3] = hash /\ q[2] = set /\ q \in Seq(S)
    BY <1>2, <2>2, Tuple4
  <2>4. FromEnd(q, 1) = last /\ FromEnd(q, 2) = hash /\ FromEnd(q, 3) = set
    BY <2>3 DEF FromEnd
  <2>5. p \in Seq(S)
    <3>1. <<main, flag>> \in Seq(S) /\ <<RequireNonZero>> \in Seq(S)
      BY <1>0, <2>2, Tuple1, Tuple2
    <3> QED
      BY <3>1, ConcatSeq
  <2> HIDE DEF p, q
  <2>6. /\ FromEnd(p \o q, 1) = last /\ FromEnd(p \o q, 2) = hash /\ FromEnd(p \o q, 3) = set
        /\ Len(p \o q) \in Nat /\ Len(p \o q) >= 4
    <3>1. 1 \in 1 .. Len(q) /\ 2 \in 1 .. Len(q) /\ 3 \in 1 .. Len(q)
      BY <2>3
    <3>2. Len(p \o q) = Len(p) + Len(q)
      BY <2>3, <2>5, ConcatSeq
    <3>3. Len(p) \in Nat
      BY <2>5, LenProperties
    <3>4. Len(p \o q) \in Nat /\ Len(p \o q) >= 4
      BY <2>3, <3>2, <3>3
    <3>5. FromEnd(p \o q, 1) = FromEnd(q, 1)
      BY <2>3, <2>5, <3>1, EndOfConcat
    <3>6. FromEnd(p \o q, 2) = FromEnd(q, 2)
      BY <2>3, <2>5, <3>1, EndOfConcat
    <3>7. FromEnd(p \o q, 3) = FromEnd(q, 3)
      BY <2>3, <2>5, <3>1, EndOfConcat
    <3> QED
      BY <2>4, <3>4, <3>5, <3>6, <3>7
  <2>7. /\ FromEnd(Script(c), 1) = last /\ FromEnd(Script(c), 2) = hash
        /\ FromEnd(Script(c), 3) = set
        /\ Len(Script(c)) \in Nat /\ Len(Script(c)) >= 4
    <3>1. CASE Script(c) = q
      BY <2>3, <2>4, <3>1
    <3>2. CASE Script(c) = p \o q
      BY <2>6, <3>2
    <3> QED
      BY <2>1, <3>1, <3>2
  <2>8. Closing = 3
    BY <1>4 DEF Closing
  <2>9. Len(Script(c)) >= Closing
    BY <2>7, <2>8
  <2> QED
    BY <1>4, <2>7, <2>8, <2>9 DEF Ending, last, hash, set
<1> QED
  BY <1>3, <1>4

\* What the card answers to the commands of a signature.
LEMMA KeySet ==
  ASSUME card \in Cards, NEW t \in {"B6", "A4", "B8"}, NEW key \in Keys,
         CardResponse(card, SetEnv(t, key)).sw = "9000"
  PROVE  CardResponse(card, SetEnv(t, key)).card.env[t] = key
<1> DEFINE cmd == SetEnv(t, key)
           new == [card EXCEPT !.env[cmd.ref] = cmd.arg]
<1>1. cmd.ins = "set environment" /\ cmd.ref = t /\ cmd.arg = key
  BY DEF SetEnv, Plain, Command
<1>2. new.env[t] = key
  BY <1>1 DEF Cards
<1> HIDE DEF cmd, new
<1>3. CardResponse(card, cmd) = Becomes(KeyHere(card, cmd.arg), card, new)
  BY <1>1 DEF CardResponse, new
<1>4. CardResponse(card, cmd).sw = "9000" => CardResponse(card, cmd).card = new
  BY <1>3 DEF Becomes, Done, Refused, Response
<1> QED
  BY <1>2, <1>4 DEF cmd

LEMMA HashGiven ==
  ASSUME card \in Cards, NEW hash, CardResponse(card, Plain("hash", "", hash)).sw = "9000"
  PROVE  /\ CardResponse(card, Plain("hash", "", hash)).card.hashed = hash
         /\ CardResponse(card, Plain("hash", "", hash)).card.env = card.env
<1> DEFINE cmd == Plain("hash", "", hash)
           new == [card EXCEPT !.hashed = cmd.arg]
<1>1. cmd.ins = "hash" /\ cmd.arg = hash
  BY DEF Plain, Command
<1>2. new.hashed = hash /\ new.env = card.env
  BY <1>1 DEF Cards
<1> HIDE DEF cmd, new
<1> DEFINE r == CardResponse(card, cmd)
           selected == card.app # None
<1>3. r = Becomes(selected, card, new)
  BY <1>1 DEF CardResponse, new
<1> HIDE DEF r, selected
<1>4. r.sw = "9000" => r.card = new
  <2>1. CASE selected
    BY <1>3, <2>1 DEF Becomes, Done, Response
  <2>2. CASE ~selected
    BY <1>3, <2>2 DEF Becomes, Refused, Response
  <2> QED
    BY <2>1, <2>2
<1> QED
  BY <1>2, <1>4 DEF cmd, r

LEMMA Signed ==
  ASSUME NEW c \in TokenCalls, Signs(c), kind \in {"ID1", "Thales"},
         CardResponse(card, Last(c)).sw = "9000",
         card.env[Template(c)] \in {None, Key(c)},
         kind = "Thales" => card.env["B6"] = None \/ card.hashed = c.hash
  PROVE  CardResponse(card, Last(c)).data = Signature(Key(c), c.hash)
<1> DEFINE r == CardResponse(card, Last(c))
           hash == IF Last(c).arg = "" THEN card.hashed ELSE Last(c).arg
<1>1. c.hash # "" /\ c.op \in {"calculateSignature", "authenticate"}
  BY CallTypes DEF Signs
<1>2. /\ Last(c).ins = IF Template(c) = "A4" THEN "authenticate" ELSE "sign"
      /\ Last(c).arg = IF kind = "ID1" THEN c.hash ELSE ""
      /\ Template(c) \in {"B6", "A4"} /\ (kind # "ID1" => Template(c) = "B6")
  BY <1>1 DEF Last, Plain, Command, Template
<1>3. r = Uses(card, Template(c), Signature(card.env[Template(c)], hash))
  <2>1. CASE Template(c) = "A4"
    <3>1. hash = Last(c).arg /\ Last(c).ins = "authenticate"
      BY <1>1, <1>2, <2>1
    <3> HIDE DEF hash
    <3> QED
      BY <2>1, <3>1 DEF CardResponse
  <2>2. CASE Template(c) = "B6"
    BY <1>2, <2>2 DEF CardResponse
  <2> QED
    BY <1>2, <2>1, <2>2
<1> HIDE DEF r, hash
<1>4. /\ r.sw = "9000" => /\ card.env[Template(c)] # None
                          /\ r.data = Signature(card.env[Template(c)], hash)
  BY <1>3 DEF Uses, Refused, Response
<1>5. card.env[Template(c)] = Key(c) /\ r.data = Signature(Key(c), hash) /\ Key(c) # None
  BY <1>4 DEF r
<1>6. hash = c.hash
  BY <1>1, <1>2, <1>5 DEF hash
<1> QED
  BY <1>5, <1>6 DEF r

\* A call that is open goes on.
LEMMA EndingOfTail ==
  ASSUME NEW c \in TokenCalls, NEW S, NEW q \in Seq(S), q # <<>>, Tail(q) # <<>>,
         kind \in {"ID1", "Thales"}, Ending(c, q)
  PROVE  Ending(c, Tail(q)) /\ Len(Tail(q)) = Len(q) - 1 /\ Len(q) \in Nat /\ Len(q) >= 2
<1>1. /\ Tail(q) \in Seq(S) /\ Len(Tail(q)) = Len(q) - 1 /\ Len(q) \in Nat
  BY TailAt
<1>2. Len(Tail(q)) \in Nat \ {0}
  BY <1>1, EmptySeq
<1>3. Len(q) >= 2
  BY <1>1, <1>2
<1>4. Closing \in {2, 3}
  BY DEF Closing
<1>5. \A n \in {1, 2, 3} : n <= Len(q) - 1 => FromEnd(Tail(q), n) = FromEnd(q, n)
  BY EndOfTail
<1>6. FromEnd(Tail(q), 1) = Last(c)
  <2>1. 1 <= Len(q) - 1
    BY <1>1, <1>3
  <2>2. FromEnd(Tail(q), 1) = FromEnd(q, 1)
    BY <1>5, <2>1
  <2> QED
    BY <2>2 DEF Ending
<1>7. Len(Tail(q)) >= Closing => FromEnd(Tail(q), Closing) = SetEnv(Template(c), Key(c))
  <2>1. ASSUME Len(Tail(q)) >= Closing PROVE Closing <= Len(q) - 1 /\ Len(q) >= Closing
    BY <1>1, <1>4, <2>1
  <2> QED
    BY <1>4, <1>5, <2>1 DEF Ending
<1>8. Len(Tail(q)) >= 2 /\ kind = "Thales" => FromEnd(Tail(q), 2) = Plain("hash", "", c.hash)
  BY <1>1, <1>3, <1>5 DEF Ending
<1> QED
  BY <1>1, <1>3, <1>6, <1>7, <1>8 DEF Ending

LEMMA SignBegins ==
  ASSUME IInv, NEW c \in Calls, Begin(c)
  PROVE  SignInv'
<1>1. call' = c /\ script' = Script(c) /\ outcome' = Open /\ kind' = kind
  BY DEF Begin
<1>2. c \in TokenCalls /\ kind \in {"ID1", "Thales"}
  BY DEF Calls, IInv, TypeOK
<1>3. outcome'.how = "open"
  BY <1>1 DEF Open, Ended
<1>4. ASSUME Signs(c) PROVE Ending(c, Script(c)) /\ ~(Len(Script(c)) < Closing) /\ Len(Script(c)) # 1
  <2>1. Ending(c, Script(c)) /\ Len(Script(c)) >= Closing /\ Closing \in {2, 3}
    BY <1>2, <1>4, SigningScript DEF Closing
  <2>2. Script(c) \in Seq(Commands)
    BY <1>1, BeginStep DEF IInv, TypeOK
  <2>3. Len(Script(c)) \in Nat
    BY <2>2, LenProperties
  <2>4. ~(Len(Script(c)) < Closing) /\ Len(Script(c)) # 1
    <3> DEFINE n == Len(Script(c))
    <3>1. n \in Nat /\ Closing \in {2, 3} /\ n >= Closing
      BY <2>1, <2>3
    <3> HIDE DEF n
    <3>2. ~(n < Closing) /\ n # 1
      BY <3>1
    <3> QED
      BY <3>2 DEF n
  <2> QED
    BY <2>1, <2>4
<1>5. TheSignature'
  BY <1>3 DEF TheSignature
<1>6. Signs(c) => Ending(c, script)'
  BY <1>1, <1>4 DEF Ending, Closing, Last, Template
<1> QED
  BY <1>1, <1>4, <1>5, <1>6 DEF SignInv, Ending, Closing, Last, Template

LEMMA SignEnds ==
  ASSUME outcome'.how \notin {"open", "ok"}
  PROVE  SignInv'
<1>1. outcome' # Open
  BY DEF Open, Ended
<1> QED
  BY <1>1 DEF SignInv, TheSignature

LEMMA SignExchange ==
  ASSUME IInv, SignInv, script # <<>>, UNCHANGED <<kind, call>>,
         NEW r, card' = r.card, Proceed(r.data),
         \/ r = CardResponse(card, Head(script)) /\ r.sw = "9000"
         \/ r.card = card /\ Head(script).ins = "require"
  PROVE  SignInv'
<1> DEFINE S == CommandsOf(call)
           n == Len(script)
<1>1. /\ outcome = Open /\ call \in TokenCalls /\ script \in Seq(S) /\ card \in Cards
      /\ kind \in {"ID1", "Thales"}
  BY WhenOpen
<1>2. /\ answer' = r.data /\ script' = Tail(script)
      /\ outcome' = IF Tail(script) = <<>> THEN Ended("ok", None, 0) ELSE Open
  BY <1>1 DEF Proceed, End
<1>3. n \in Nat /\ n >= 1 /\ Head(script) = FromEnd(script, n)
  <2>1. n \in Nat \ {0} /\ Head(script) = script[1]
    BY <1>1, TailAt
  <2>2. n + 1 - n = 1
    BY <2>1
  <2> QED
    BY <2>1, <2>2 DEF FromEnd
<1>4. CASE ~Signs(call)
  BY <1>4 DEF SignInv, TheSignature, Signs
<1>5. CASE Signs(call) /\ Tail(script) # <<>>
  <2>1. /\ Ending(call, script)
        /\ n < Closing => card.env[Template(call)] \in {None, Key(call)}
    BY <1>1, <1>5 DEF SignInv
  <2>2. Ending(call, Tail(script)) /\ Len(Tail(script)) = n - 1 /\ n >= 2
    BY <1>1, <1>5, <2>1, EndingOfTail
  <2>3. /\ Closing \in {2, 3} /\ (Closing = 3 <=> kind = "Thales")
        /\ Template(call) \in {"B6", "A4"} /\ Key(call) \in Keys
        /\ kind = "Thales" => Template(call) = "B6"
    BY <1>1 DEF Closing, Template, Key, Keys
  <2>4. CASE n = Closing
    <3>0. n >= Closing
      BY <1>3, <2>4
    <3>1. Head(script) = SetEnv(Template(call), Key(call))
      BY <1>3, <2>1, <2>4, <3>0 DEF Ending
    <3>2. Head(script).ins # "require"
      <4>1. SetEnv(Template(call), Key(call)).ins = "set environment"
        BY DEF SetEnv, Plain, Command
      <4> QED
        BY <3>1, <4>1
    <3>3. card'.env[Template(call)] = Key(call)
      BY <1>1, <2>3, <3>1, <3>2, KeySet
    <3>4. kind = "Thales" => n - 1 # 1
      BY <2>3, <2>4
    <3> QED
      BY <1>2, <1>5, <2>2, <3>3, <3>4
         DEF SignInv, TheSignature, Ending, Closing, Last, Template, Open, Ended
  <2>5. CASE n < Closing
    <3>1. n = 2 /\ kind = "Thales"
      BY <1>3, <2>2, <2>3, <2>5
    <3>2. Head(script) = Plain("hash", "", call.hash)
      <4>1. FromEnd(script, 2) = Plain("hash", "", call.hash)
        BY <2>1, <2>2, <3>1 DEF Ending
      <4> QED
        BY <1>3, <3>1, <4>1
    <3>3. Head(script).ins = "hash"
      <4>1. Plain("hash", "", call.hash).ins = "hash"
        BY DEF Plain, Command
      <4> QED
        BY <3>2, <4>1
    <3>4. card'.hashed = call.hash /\ card'.env = card.env
      <4>1. r = CardResponse(card, Plain("hash", "", call.hash)) /\ r.sw = "9000"
        BY <3>2, <3>3
      <4> QED
        BY <1>1, <4>1, HashGiven
    <3>5. card'.env[Template(call)] \in {None, Key(call)}
      BY <2>1, <2>5, <3>4
    <3> QED
      BY <1>2, <1>5, <2>2, <3>4, <3>5
         DEF SignInv, TheSignature, Ending, Closing, Last, Template, Open, Ended
  <2>6. CASE n > Closing
    <3>1. ~(n - 1 < Closing) /\ n - 1 # 1
      <4>1. Closing \in Nat /\ Closing >= 2 /\ n \in Nat
        BY <1>3, <2>3
      <4> HIDE DEF n
      <4> QED
        BY <2>6, <4>1
    <3> QED
      BY <1>2, <1>5, <2>2, <3>1
         DEF SignInv, TheSignature, Ending, Closing, Last, Template, Open, Ended
  <2> QED
    BY <1>3, <2>3, <2>4, <2>5, <2>6
<1>6. CASE Signs(call) /\ Tail(script) = <<>>
  <2>1. n = 1
    <3>1. Len(Tail(script)) = n - 1
      BY <1>1, TailAt
    <3>2. Len(<<>>) = 0
      BY EmptySeq
    <3>3. n - 1 = 0
      BY <1>6, <3>1, <3>2
    <3> QED
      BY <1>3, <3>3
  <2>2. Head(script) = Last(call)
    BY <1>1, <1>3, <1>6, <2>1 DEF SignInv, Ending
  <2>3. Head(script).ins # "require"
    <3>1. Head(script).ins \in {"sign", "authenticate"}
      <4>1. Last(call).ins \in {"sign", "authenticate"}
        BY DEF Last, Plain, Command
      <4> QED
        BY <2>2, <4>1
    <3> QED
      BY <3>1
  <2>4. n < Closing
    BY <2>1 DEF Closing
  <2>5. /\ card.env[Template(call)] \in {None, Key(call)}
        /\ kind = "Thales" => card.env["B6"] = None \/ card.hashed = call.hash
    BY <1>1, <1>6, <2>1, <2>4 DEF SignInv
  <2>6. r.data = Signature(Key(call), call.hash)
    BY <1>1, <1>6, <2>2, <2>3, <2>5, Signed
  <2>7. outcome' # Open
    BY <1>2, <1>6 DEF Open, Ended
  <2> QED
    BY <1>2, <2>6, <2>7 DEF SignInv, TheSignature, Key
<1> QED
  BY <1>4, <1>5, <1>6

LEMMA SignStep == IInv /\ SignInv /\ [Next]_vars => SignInv'
<1> SUFFICES ASSUME IInv, SignInv, [Next]_vars PROVE SignInv'
  OBVIOUS
<1>1. CASE \E c \in Calls : Begin(c)
  BY <1>1, SignBegins
<1>2. CASE Exchange
  <2> DEFINE r == CardResponse(card, Head(script))
  <2>1. /\ script # <<>> /\ UNCHANGED <<kind, call>> /\ card' = r.card
        /\ IF r.sw = "9000" THEN Proceed(r.data) ELSE ApduError(Head(script), r.sw)
    BY <1>2 DEF Exchange, AtCommand
  <2> HIDE DEF r
  <2>2. CASE r.sw = "9000"
    BY <2>1, <2>2, SignExchange DEF r
  <2>3. CASE r.sw # "9000"
    <3>1. outcome'.how \in Fails
      BY <2>1, <2>3, ErrorCloses
    <3> QED
      BY <3>1, SignEnds DEF Fails
  <2> QED
    BY <2>2, <2>3
<1>3. CASE Require
  <2>1. /\ script # <<>> /\ Head(script).ins = "require" /\ UNCHANGED <<kind, call, card>>
    BY <1>3 DEF Require
  <2>2. CASE answer.value = 0
    <3>1. outcome'.how = "SmartCardReaderException"
      BY <1>3, <2>2 DEF Require, End, Ended
    <3> QED
      BY <3>1, SignEnds
  <2>3. CASE answer.value # 0
    <3> DEFINE r == [card |-> card, data |-> answer]
    <3>1. r.card = card /\ r.data = answer
      OBVIOUS
    <3> HIDE DEF r
    <3>2. Proceed(r.data)
      BY <1>3, <2>3, <3>1 DEF Require
    <3> QED
      BY <2>1, <3>1, <3>2, SignExchange
  <2> QED
    BY <2>2, <2>3
<1>4. CASE ThrowItself
  <2>1. script # <<>> /\ Head(script).ins = "throw" /\ End(Head(script).ref, None, 0)
    BY <1>4 DEF ThrowItself
  <2>2. Head(script).ref \in Exceptions
    BY <2>1, WhenOpen DEF CommandsOf
  <2>3. outcome'.how \in Exceptions
    BY <2>1, <2>2 DEF End, Ended
  <2> QED
    BY <2>3, SignEnds DEF Exceptions
<1>5. CASE TransmitFails \/ Unreadable \/ CardFails
  <2>1. outcome'.how \in Fails
    BY <1>5, FaultCloses
  <2> QED
    BY <2>1, SignEnds DEF Fails
<1>6. CASE CardReset
  <2>1. card' = Reset(card) /\ UNCHANGED <<kind, call, script, answer, outcome>>
    BY <1>6 DEF CardReset
  <2>2. card'.env = NoEnv
    BY <2>1 DEF Reset, IInv, TypeOK, Cards
  <2>3. card'.env[Template(call)] = None /\ card'.env["B6"] = None
    BY <2>2 DEF NoEnv, Template
  <2> QED
    BY <2>1, <2>3 DEF SignInv, TheSignature, Ending, Closing, Last, Template
<1>7. CASE UNCHANGED vars
  BY <1>7 DEF vars, SignInv, TheSignature, Ending, Closing, Last, Template
<1> QED
  BY <1>1, <1>2, <1>3, <1>4, <1>5, <1>6, <1>7 DEF Next, Token

-----------------------------------------------------------------------------
(* The right code works *)

\* Entitled, but for the changed PIN2, which the script of a Thales token asks the card
\* about: "from" is the card as it was when the call began.
Due(c, from) ==
    /\ \A t \in Passed(c) : c.code = t /\ from.tries[t] > 0
    /\ kind = "Thales" /\ c.op = "changeCode" => c.type # "PUK"
    /\ kind = "Thales" /\ c.op \in {"authenticate", "decrypt"} => from.app = "main"
    /\ kind = "ID1" => c.op # "unblockAndChangeCode"

\* The application that a script works in: the one it begins by selecting, or else the
\* one that is selected.
Kept(s)      == s[1].ins # "select"
Target(s, k) == IF Kept(s) THEN k.app ELSE s[1].ref

Reaches(token, app, type) ==
    IF token = "ID1" THEN type # "PIN2" \/ app = "qscd" ELSE app = "main"
KeyIn(token, app, key) ==
    IF token = "ID1" THEN app = IF key = "sign" THEN "qscd" ELSE "oberthur" ELSE app = "main"
Checked(cmd) == IF cmd.ins = "unblock with PUK" THEN "PUK" ELSE cmd.ref
UsesKey      == {"sign", "authenticate", "decipher"}
Checking     == {"verify", "change", "unblock with PUK"}

\* A command of the call c that a card does with this application selected and these
\* attempts left, once what the command needs is there.
Allowed(token, c, cmd, app, tries) ==
    /\ cmd.ins \notin {"throw", "unblock"}
    /\ cmd.ins \in {"select file", "hash"} => app # None
    /\ cmd.ins = "changed flag" => app = "main"
    /\ cmd.ins = "counter" => Reaches(token, app, cmd.ref)
    /\ cmd.ins \in Checking =>
           /\ Reaches(token, app, Checked(cmd)) /\ tries[Checked(cmd)] > 0
           /\ cmd.arg = Checked(cmd)
    /\ cmd.ins = "set environment" => KeyIn(token, app, cmd.arg) /\ cmd.arg = Key(c)
    /\ cmd.ins \in {"change", "unblock with PUK"} => c.op # "calculateSignature"
    /\ cmd.ins = "require" => c.op = "calculateSignature"

\* Only the first command selects an application, only the last uses a key, and the flag
\* is required where the card has just been asked for it.
Ordered(s) ==
    \A i \in 1 .. Len(s) :
        /\ s[i].ins = "select" => i = 1
        /\ s[i].ins \in UsesKey => i = Len(s)
        /\ s[i].ins = "require" => i = 1 \/ s[i - 1].ins = "changed flag"

\* What a command needs: a file, a verified code, a key in its template.
Templates == {"B6", "A4", "B8"}
Needs(c, cmd) ==
    CASE cmd.ins = "read"         -> {"file"}
      [] cmd.ins = "sign"         -> {"B6", KeyCode(Key(c))}
      [] cmd.ins = "authenticate" -> {"A4", KeyCode(Key(c))}
      [] cmd.ins = "decipher"     -> {"B8", KeyCode(Key(c))}
      [] OTHER                    -> {}
Provides(cmd, x) ==
    \/ x = "file" /\ cmd.ins = "select file"
    \/ x \in CodeTypes /\ cmd.ins = "verify" /\ cmd.ref = x
    \/ x \in Templates /\ cmd.ins = "set environment" /\ cmd.ref = x
InCard(c, x, k) ==
    \/ x = "file" /\ k.file # None
    \/ x \in CodeTypes /\ x \in k.verified
    \/ x \in Templates /\ k.env[x] = Key(c)

\* It is in the card, or an earlier command of the script brings it there.
Supplied(c, s, k) ==
    \A i \in 1 .. Len(s) : \A x \in Needs(c, s[i]) :
        \/ Kept(s) /\ InCard(c, x, k)
        \/ \E j \in 1 .. i - 1 : Provides(s[j], x)

\* The card k answers all of s, after the answer a.
Ready(token, c, s, k, a) ==
    /\ Ordered(s)
    /\ \A i \in 1 .. Len(s) : Allowed(token, c, s[i], Target(s, k), k.tries)
    /\ Supplied(c, s, k)
    /\ s[1].ins = "require" /\ k.changed => a.value # 0

\* As long as nothing disturbs it, a call with the right code has all that is left of its
\* script answered.
WorksInv ==
    /\ outcome = Open /\ ~disturbed /\ Due(call, before) => Ready(kind, call, script, card, answer)
    /\ RightCodeWorks

LEMMA KeyIs ==
  ASSUME NEW c
  PROVE  Key(c) \in Keys /\ Key(c) # None /\ KeyCode(Key(c)) \in {"PIN1", "PIN2"}
BY DEF Key, Keys, None, KeyCode

\* What a command does to a card that answers it as expected.
Serves(c, cmd, k, r) ==
    /\ r.sw = "9000"
    /\ r.card.app = IF cmd.ins = "select" THEN cmd.ref ELSE k.app
    /\ \A t \in CodeTypes : k.tries[t] > 0 => r.card.tries[t] > 0
    /\ \A x : Provides(cmd, x) => InCard(c, x, r.card)
    /\ cmd.ins \notin UsesKey \cup {"select"} => \A x : InCard(c, x, k) => InCard(c, x, r.card)
    /\ cmd.ins \in {"change", "unblock with PUK"} \/ r.card.changed = k.changed
    /\ cmd.ins = "changed flag" /\ k.changed => r.data.value = 1

\* A card that stays as it is serves a command that brings nothing.
LEMMA QuietServes ==
  ASSUME NEW c, NEW cmd, NEW k, NEW r, r.card = k, r.sw = "9000",
         cmd.ins \in {"read", "counter", "changed flag"},
         cmd.ins = "changed flag" /\ k.changed => r.data.value = 1
  PROVE  Serves(c, cmd, k, r)
BY DEF Serves, Provides, UsesKey

LEMMA ChecksServes ==
  ASSUME NEW c, NEW cmd, card \in Cards, cmd.ins \in Checking, NEW right,
         right \in Cards, \A t \in CodeTypes : card.tries[t] > 0 => right.tries[t] > 0,
         Checked(cmd) \in CodeTypes, Reaches(kind, card.app, Checked(cmd)),
         card.tries[Checked(cmd)] > 0, cmd.arg = Checked(cmd), NEW r,
         r = Checks(card, Checked(cmd), cmd.arg, right),
         right.app = card.app, right.file = card.file, right.env = card.env,
         card.verified \subseteq right.verified,
         cmd.ins = "verify" => cmd.ref \in right.verified /\ right.changed = card.changed
  PROVE  Serves(c, cmd, card, r)
<1> DEFINE type == Checked(cmd)
           new == [right EXCEPT !.tries[type] = MaxTries]
<1>1. Reachable(card, type) /\ card.tries[type] # 0
  <2>1. card.tries[type] \in Nat
    BY TriesType
  <2> QED
    BY <2>1 DEF Reachable, Reaches
<1>2. r = Done(new)
  BY <1>1 DEF Checks
<1>3. /\ new.app = card.app /\ new.file = card.file /\ new.env = card.env
      /\ card.verified \subseteq new.verified
      /\ cmd.ins = "verify" => cmd.ref \in new.verified /\ new.changed = card.changed
  BY DEF Cards
<1>4. \A t \in CodeTypes : new.tries[t] = IF t = type THEN MaxTries ELSE right.tries[t]
  BY DEF Cards
<1> HIDE DEF new
<1>5. r.card = new /\ r.sw = "9000"
  BY <1>2 DEF Done, Response
<1>6. \A t \in CodeTypes : card.tries[t] > 0 => new.tries[t] > 0
  BY <1>4
<1>7. \A x : Provides(cmd, x) => InCard(c, x, new)
  BY <1>3 DEF Provides, InCard, Checking
<1>8. \A x : InCard(c, x, card) => InCard(c, x, new)
  BY <1>3 DEF InCard
<1> QED
  BY <1>3, <1>5, <1>6, <1>7, <1>8 DEF Serves, Checking

LEMMA ResponseServes ==
  ASSUME NEW c \in TokenCalls, NEW cmd \in CommandsOf(c), card \in Cards,
         kind \in {"ID1", "Thales"}, cmd.ins \notin {"throw", "require"},
         Allowed(kind, c, cmd, IF cmd.ins = "select" THEN cmd.ref ELSE card.app, card.tries),
         \A x \in Needs(c, cmd) : InCard(c, x, card)
  PROVE  Serves(c, cmd, card, CardResponse(card, cmd))
<1> DEFINE r == CardResponse(card, cmd)
<1>1. cmd \in Commands /\ Key(c) \in Keys /\ Key(c) # None /\ KeyCode(Key(c)) \in {"PIN1", "PIN2"}
  BY KeyIs DEF CommandsOf
<1>2. CASE cmd.ins = "select"
  <2>1. cmd.ref \in {"main", "qscd", "oberthur"}
    BY <1>2 DEF CommandsOf
  <2>2. r = Selects(card, cmd.ref)
    BY <1>2 DEF CardResponse
  <2> DEFINE new == IF cmd.ref = card.app THEN [card EXCEPT !.file = None]
                    ELSE [Reset(card) EXCEPT !.app = cmd.ref, !.verified = card.verified \ {"PIN2"}]
  <2>3. r.card = new /\ r.sw = "9000"
    BY <2>2 DEF Selects, Done, Response
  <2>4. new.app = cmd.ref /\ new.tries = card.tries /\ new.changed = card.changed
    BY <2>1 DEF Cards, Reset
  <2> HIDE DEF r, new
  <2> QED
    BY <1>2, <2>3, <2>4 DEF Serves, Provides, UsesKey, r
<1>3. CASE cmd.ins = "select file"
  <2>1. cmd.ref \in {"personal", "record", "certificate"} /\ card.app # None
    BY <1>3 DEF CommandsOf, Allowed
  <2> DEFINE new == [card EXCEPT !.file = cmd.ref]
  <2>2. r.card = new /\ r.sw = "9000"
    BY <1>3, <2>1 DEF CardResponse, Becomes, Done, Response
  <2>3. /\ new.app = card.app /\ new.tries = card.tries /\ new.verified = card.verified
        /\ new.file = cmd.ref /\ new.env = card.env /\ new.changed = card.changed
    BY DEF Cards
  <2>4. cmd.ref # None
    BY <2>1 DEF None
  <2> HIDE DEF r, new
  <2>5. \A x : Provides(cmd, x) => InCard(c, x, new)
    BY <1>3, <2>3, <2>4 DEF Provides, InCard
  <2>6. \A x : InCard(c, x, card) => InCard(c, x, new)
    BY <2>3, <2>4 DEF InCard
  <2> QED
    BY <1>3, <2>2, <2>3, <2>5, <2>6 DEF Serves, r
<1>4. CASE cmd.ins = "read"
  <2>1. card.file # None
    BY <1>4 DEF Needs, InCard, CodeTypes, Templates
  <2>2. r.card = card /\ r.sw = "9000"
    BY <1>4, <2>1 DEF CardResponse, Returns, Response
  <2> QED
    BY <1>4, <2>2, QuietServes
<1>5. CASE cmd.ins = "counter"
  <2>1. Reachable(card, cmd.ref)
    BY <1>5 DEF Allowed, Reachable, Reaches
  <2>2. r.card = card /\ r.sw = "9000"
    BY <1>5, <2>1 DEF CardResponse, Returns, Response
  <2> QED
    BY <1>5, <2>2, QuietServes
<1>6. CASE cmd.ins = "changed flag"
  <2>1. card.app = "main"
    BY <1>6 DEF Allowed
  <2>2. /\ r.card = card /\ r.sw = "9000"
        /\ r.data = Number("flag", IF card.changed THEN 1 ELSE 0)
    BY <1>6, <2>1 DEF CardResponse, Returns, Response
  <2>3. card.changed => r.data.value = 1
    <3>1. Number("flag", IF card.changed THEN 1 ELSE 0).value = IF card.changed THEN 1 ELSE 0
      BY DEF Number
    <3> HIDE DEF r
    <3> QED
      BY <2>2, <3>1
  <2> QED
    BY <1>6, <2>2, <2>3, QuietServes
<1>7. CASE cmd.ins = "verify"
  <2>1. cmd.ref \in CodeTypes /\ Checked(cmd) = cmd.ref /\ cmd.ins \in Checking
    BY <1>7 DEF CommandsOf, Checked, Checking
  <2>2. Reaches(kind, card.app, cmd.ref) /\ card.tries[cmd.ref] > 0 /\ cmd.arg = cmd.ref
    BY <1>7, <2>1 DEF Allowed
  <2> DEFINE right == [card EXCEPT !.verified = card.verified \cup {cmd.ref}]
  <2>3. r = Checks(card, cmd.ref, cmd.arg, right)
    BY <1>7 DEF CardResponse
  <2>4. /\ right \in Cards /\ right.tries = card.tries
        /\ right.verified = card.verified \cup {cmd.ref} /\ right.app = card.app
        /\ right.file = card.file /\ right.env = card.env /\ right.changed = card.changed
    BY <2>1 DEF Cards
  <2> HIDE DEF right, r
  <2> QED
    BY <2>1, <2>2, <2>3, <2>4, ChecksServes DEF r
<1>8. CASE cmd.ins = "change"
  <2>1. cmd.ref \in CodeTypes /\ Checked(cmd) = cmd.ref /\ cmd.ins \in Checking
    BY <1>8 DEF CommandsOf, Checked, Checking
  <2>2. Reaches(kind, card.app, cmd.ref) /\ card.tries[cmd.ref] > 0 /\ cmd.arg = cmd.ref
    BY <1>8, <2>1 DEF Allowed
  <2> DEFINE changed == card.changed \/ cmd.ref = "PIN2"
             right == [card EXCEPT !.changed = changed]
  <2>3. r = Checks(card, cmd.ref, cmd.arg, right)
    BY <1>8 DEF CardResponse
  <2>4. changed \in BOOLEAN
    OBVIOUS
  <2> HIDE DEF changed
  <2>5. /\ right \in Cards /\ right.tries = card.tries
        /\ right.verified = card.verified /\ right.app = card.app
        /\ right.file = card.file /\ right.env = card.env
    BY <2>4 DEF Cards
  <2> HIDE DEF right, r
  <2> QED
    BY <1>8, <2>1, <2>2, <2>3, <2>5, ChecksServes DEF r
<1>9. CASE cmd.ins = "unblock with PUK"
  <2>1. /\ cmd.ref \in CodeTypes /\ Checked(cmd) = "PUK" /\ cmd.ins \in Checking
        /\ "PUK" \in CodeTypes
    BY <1>9 DEF CommandsOf, Checked, Checking, CodeTypes
  <2>2. Reaches(kind, card.app, "PUK") /\ card.tries["PUK"] > 0 /\ cmd.arg = "PUK"
    BY <1>9, <2>1 DEF Allowed
  <2> DEFINE changed == card.changed \/ cmd.ref = "PIN2"
             right == [card EXCEPT !.tries[cmd.ref] = MaxTries, !.changed = changed]
  <2>3. r = Checks(card, "PUK", cmd.arg, right)
    BY <1>9 DEF CardResponse
  <2>4. changed \in BOOLEAN /\ MaxTries \in 0 .. MaxTries /\ MaxTries > 0
    OBVIOUS
  <2> HIDE DEF changed
  <2>5. /\ right \in Cards
        /\ right.verified = card.verified /\ right.app = card.app
        /\ right.file = card.file /\ right.env = card.env
    BY <2>1, <2>4 DEF Cards
  <2>6. \A t \in CodeTypes : right.tries[t] = IF t = cmd.ref THEN MaxTries ELSE card.tries[t]
    BY <2>1 DEF Cards
  <2> HIDE DEF right, r
  <2>7. \A t \in CodeTypes : card.tries[t] > 0 => right.tries[t] > 0
    BY <2>4, <2>6
  <2> QED
    BY <1>9, <2>1, <2>2, <2>3, <2>5, <2>7, ChecksServes DEF r
<1>10. CASE cmd.ins = "set environment"
  <2>1. cmd.ref \in Templates /\ cmd.arg = Key(c) /\ KeyHere(card, cmd.arg)
    BY <1>10 DEF CommandsOf, Allowed, Templates, KeyIn, KeyHere
  <2> DEFINE new == [card EXCEPT !.env[cmd.ref] = cmd.arg]
  <2>2. r.card = new /\ r.sw = "9000"
    BY <1>10, <2>1 DEF CardResponse, Becomes, Done, Response
  <2>3. /\ new.app = card.app /\ new.tries = card.tries /\ new.verified = card.verified
        /\ new.file = card.file /\ new.changed = card.changed
        /\ \A x \in Templates : new.env[x] = IF x = cmd.ref THEN cmd.arg ELSE card.env[x]
    BY <2>1 DEF Cards, Templates
  <2> HIDE DEF r, new
  <2>4. \A x : Provides(cmd, x) => InCard(c, x, new)
    BY <1>10, <2>1, <2>3 DEF Provides, InCard
  <2>5. \A x : InCard(c, x, card) => InCard(c, x, new)
    BY <2>1, <2>3 DEF InCard
  <2> QED
    BY <1>10, <2>2, <2>3, <2>4, <2>5 DEF Serves, r
<1>11. CASE cmd.ins = "hash"
  <2>1. card.app # None
    BY <1>11 DEF Allowed
  <2> DEFINE new == [card EXCEPT !.hashed = cmd.arg]
  <2>2. r.card = new /\ r.sw = "9000"
    BY <1>11, <2>1 DEF CardResponse, Becomes, Done, Response
  <2>3. /\ new.app = card.app /\ new.tries = card.tries /\ new.verified = card.verified
        /\ new.file = card.file /\ new.env = card.env /\ new.changed = card.changed
    BY DEF Cards
  <2> HIDE DEF r, new
  <2>4. \A x : InCard(c, x, card) => InCard(c, x, new)
    BY <2>3 DEF InCard
  <2>5. \A x : ~Provides(cmd, x)
    BY <1>11 DEF Provides
  <2> QED
    BY <1>11, <2>2, <2>3, <2>4, <2>5 DEF Serves, r
<1>12. ASSUME NEW template \in Templates, NEW data, r = Uses(card, template, data),
              InCard(c, template, card), InCard(c, KeyCode(Key(c)), card),
              cmd.ins \in UsesKey
       PROVE  Serves(c, cmd, card, r)
  <2> DEFINE still == card.verified \ (IF card.env[template] = "sign" THEN {"PIN2"} ELSE {})
             new == [card EXCEPT !.verified = still, !.hashed = ""]
  <2>1. card.env[template] = Key(c)
    BY <1>12 DEF InCard, Templates, CodeTypes
  <2>2. KeyCode(Key(c)) \in card.verified
    BY <1>1, <1>12 DEF InCard, Templates, CodeTypes
  <2>3. r.card = new /\ r.sw = "9000"
    BY <1>1, <1>12, <2>1, <2>2 DEF Uses, Response
  <2> HIDE DEF still
  <2>4. new.app = card.app /\ new.tries = card.tries /\ new.changed = card.changed
    BY DEF Cards
  <2>5. \A x : ~Provides(cmd, x)
    BY <1>12 DEF Provides, UsesKey
  <2> HIDE DEF r, new
  <2> QED
    BY <1>12, <2>3, <2>4, <2>5 DEF Serves, UsesKey
<1>13. CASE cmd.ins \in UsesKey
  <2>1. CASE cmd.ins = "sign"
    <3>1. r = Uses(card, "B6", Signature(card.env["B6"],
                                         IF cmd.arg = "" THEN card.hashed ELSE cmd.arg))
      BY <2>1 DEF CardResponse
    <3>2. InCard(c, "B6", card) /\ InCard(c, KeyCode(Key(c)), card)
      BY <2>1 DEF Needs
    <3> QED
      BY <1>12, <1>13, <3>1, <3>2 DEF Templates
  <2>2. CASE cmd.ins = "authenticate"
    <3>1. r = Uses(card, "A4", Signature(card.env["A4"], cmd.arg))
      BY <2>2 DEF CardResponse
    <3>2. InCard(c, "A4", card) /\ InCard(c, KeyCode(Key(c)), card)
      BY <2>2 DEF Needs
    <3> QED
      BY <1>12, <1>13, <3>1, <3>2 DEF Templates
  <2>3. CASE cmd.ins = "decipher"
    <3>1. r = Uses(card, "B8", Number("data", 0))
      BY <2>3 DEF CardResponse
    <3>2. InCard(c, "B8", card) /\ InCard(c, KeyCode(Key(c)), card)
      BY <2>3 DEF Needs
    <3> QED
      BY <1>12, <1>13, <3>1, <3>2 DEF Templates
  <2> QED
    BY <1>13, <2>1, <2>2, <2>3 DEF UsesKey
<1>14. cmd.ins \in {"select", "select file", "read", "counter", "changed flag", "verify",
                    "change", "unblock", "unblock with PUK", "set environment", "hash",
                    "sign", "authenticate", "decipher", "throw", "require"}
  BY <1>1 DEF Commands
<1>15. cmd.ins # "unblock"
  BY DEF Allowed
<1> QED
  BY <1>2, <1>3, <1>4, <1>5, <1>6, <1>7, <1>8, <1>9, <1>10, <1>11, <1>13, <1>14, <1>15
     DEF UsesKey

\* The first command of a script that is ready is served.
LEMMA HeadServed ==
  ASSUME NEW c \in TokenCalls, NEW s \in Seq(CommandsOf(c)), s # <<>>, card \in Cards,
         kind \in {"ID1", "Thales"}, NEW a, Ready(kind, c, s, card, a),
         Head(s).ins \notin {"throw", "require"}
  PROVE  Serves(c, Head(s), card, CardResponse(card, Head(s)))
<1>1. Head(s) = s[1] /\ Head(s) \in CommandsOf(c) /\ Len(s) \in Nat \ {0}
  BY TailAt
<1>2. 1 \in 1 .. Len(s)
  BY <1>1
<1>3. Allowed(kind, c, Head(s), IF Head(s).ins = "select" THEN Head(s).ref ELSE card.app,
              card.tries)
  BY <1>1, <1>2 DEF Ready, Target, Kept
<1>4. ASSUME NEW x \in Needs(c, Head(s)) PROVE InCard(c, x, card)
  <2>1. \/ Kept(s) /\ InCard(c, x, card)
        \/ \E j \in 1 .. 1 - 1 : Provides(s[j], x)
    BY <1>1, <1>2, <1>4 DEF Ready, Supplied
  <2> QED
    BY <2>1
<1> QED
  BY <1>1, <1>3, <1>4, ResponseServes

\* What is left of a script that is ready stays so when its first command is served.
LEMMA TailReady ==
  ASSUME NEW c \in TokenCalls, NEW s \in Seq(CommandsOf(c)), s # <<>>, Tail(s) # <<>>,
         card \in Cards, NEW a, Ready(kind, c, s, card, a),
         NEW r, Serves(c, Head(s), card, r)
  PROVE  Ready(kind, c, Tail(s), r.card, r.data)
<1> DEFINE n == Len(s)
           q == Tail(s)
           cmd == Head(s)
<1>1. /\ n \in Nat \ {0} /\ cmd = s[1] /\ cmd \in CommandsOf(c)
      /\ q \in Seq(CommandsOf(c)) /\ Len(q) = n - 1 /\ \A i \in 1 .. n - 1 : q[i] = s[i + 1]
  BY TailAt
<1>2. n >= 2
  <2>1. Len(q) # 0 /\ Len(q) \in Nat
    BY <1>1, EmptySeq
  <2> QED
    BY <1>1, <2>1
<1> HIDE DEF n, q, cmd
<1>3. ASSUME NEW i \in 1 .. Len(q)
      PROVE  /\ i \in Nat /\ i >= 1 /\ i + 1 \in 1 .. n /\ i + 1 # 1 /\ q[i] = s[i + 1]
             /\ (i + 1) - 1 = i /\ (i + 1 = n => i = Len(q)) /\ i \in 1 .. n
  BY <1>1, <1>2
<1>4. Ordered(s) /\ Supplied(c, s, card)
  BY DEF Ready
<1>5. cmd.ins \notin UsesKey
  <2>1. 1 \in 1 .. n /\ n # 1
    BY <1>1, <1>2
  <2> QED
    BY <1>1, <1>4, <2>1 DEF Ordered, n
<1>6. ASSUME NEW i \in 1 .. Len(q)
      PROVE  /\ q[i].ins # "select" /\ (q[i].ins \in UsesKey => i = Len(q))
             /\ q[i].ins = "require" => s[i].ins = "changed flag"
  <2> DEFINE m == i + 1
  <2>1. m \in 1 .. n /\ m # 1 /\ m - 1 = i /\ (m = n => i = Len(q)) /\ q[i] = s[m]
    BY <1>3
  <2> HIDE DEF m
  <2>2. /\ s[m].ins # "select" /\ (s[m].ins \in UsesKey => m = n)
        /\ s[m].ins = "require" => s[m - 1].ins = "changed flag"
    BY <1>4, <2>1 DEF Ordered, n
  <2> QED
    BY <2>1, <2>2
<1>7. 1 \in 1 .. Len(q)
  BY <1>1, <1>2
<1>8. Kept(q)
  BY <1>6, <1>7 DEF Kept
<1>9. ASSUME NEW i \in 1 .. Len(q), q[i].ins = "require"
      PROVE  i = 1 \/ q[i - 1].ins = "changed flag"
  <2>1. s[i].ins = "changed flag"
    BY <1>6, <1>9
  <2>2. i # 1 => i - 1 \in 1 .. Len(q) /\ (i - 1) + 1 = i
    BY <1>3, <1>9, <1>1
  <2>3. i # 1 => q[i - 1] = s[i]
    BY <1>3, <2>2
  <2> QED
    BY <2>1, <2>3
<1>10. Ordered(q)
  BY <1>6, <1>9 DEF Ordered
<1>11. Target(q, r.card) = Target(s, card)
  <2>1. r.card.app = IF cmd.ins = "select" THEN cmd.ref ELSE card.app
    BY DEF Serves, cmd
  <2> QED
    BY <1>1, <1>8, <2>1 DEF Target, Kept
<1>12. ASSUME NEW i \in 1 .. Len(q)
       PROVE  Allowed(kind, c, q[i], Target(q, r.card), r.card.tries)
  <2>1. Allowed(kind, c, q[i], Target(s, card), card.tries)
    BY <1>3 DEF Ready, n
  <2>2. \A t \in CodeTypes : card.tries[t] > 0 => r.card.tries[t] > 0
    BY DEF Serves
  <2>3. q[i] \in CommandsOf(c)
    BY <1>1, ElementOfSeq
  <2>4. q[i].ins \in Checking => Checked(q[i]) \in CodeTypes
    BY <2>3 DEF CommandsOf, Checked, Checking, CodeTypes
  <2> QED
    BY <1>11, <2>1, <2>2, <2>4 DEF Allowed
<1>13. ASSUME NEW i \in 1 .. Len(q), NEW x \in Needs(c, q[i])
       PROVE  InCard(c, x, r.card) \/ \E j \in 1 .. i - 1 : Provides(q[j], x)
  <2>1. \/ Kept(s) /\ InCard(c, x, card)
        \/ \E j \in 1 .. (i + 1) - 1 : Provides(s[j], x)
    <3>1. x \in Needs(c, s[i + 1]) /\ i + 1 \in 1 .. n
      BY <1>3, <1>13
    <3> QED
      BY <1>4, <3>1 DEF Supplied, n
  <2>2. CASE Kept(s) /\ InCard(c, x, card)
    BY <1>1, <1>5, <2>2 DEF Serves, Kept, cmd
  <2>3. ASSUME NEW j \in 1 .. i, Provides(s[j], x)
        PROVE  InCard(c, x, r.card) \/ \E m \in 1 .. i - 1 : Provides(q[m], x)
    <3>1. CASE j = 1
      BY <1>1, <2>3, <3>1 DEF Serves, cmd
    <3>2. CASE j # 1
      <4>1. j - 1 \in 1 .. i - 1 /\ j - 1 \in 1 .. Len(q) /\ (j - 1) + 1 = j
        BY <1>1, <1>3, <3>2
      <4>2. q[j - 1] = s[j]
        BY <1>3, <4>1
      <4> QED
        BY <2>3, <4>1, <4>2
    <3> QED
      BY <3>1, <3>2
  <2>4. (i + 1) - 1 = i
    BY <1>3
  <2> QED
    BY <2>1, <2>2, <2>3, <2>4
<1>14. Supplied(c, q, r.card)
  BY <1>8, <1>13 DEF Supplied
<1>15. q[1].ins = "require" /\ r.card.changed => r.data.value # 0
  <2> SUFFICES ASSUME q[1].ins = "require", r.card.changed PROVE r.data.value # 0
    OBVIOUS
  <2>1. s[1].ins = "changed flag"
    BY <1>6, <1>7
  <2>2. r.card.changed = card.changed
    BY <1>1, <2>1 DEF Serves, cmd
  <2>3. r.data.value = 1
    BY <1>1, <2>1, <2>2 DEF Serves, cmd
  <2> QED
    BY <2>3
<1> QED
  BY <1>10, <1>12, <1>14, <1>15 DEF Ready, q

Readings == {ReadFile, ReadWrapped}

\* The commands of the scripts.
LEMMA AllowedBuilders ==
  ASSUME NEW c, NEW app, NEW tries
  PROVE  /\ \A x : Allowed(kind, c, SelectApp(x), app, tries)
         /\ app # None => \A x : /\ Allowed(kind, c, SelectFile(x), app, tries)
                                 /\ Allowed(kind, c, Plain("hash", "", x), app, tries)
         /\ \A read \in Readings : Allowed(kind, c, read, app, tries)
         /\ \A t : Reaches(kind, app, t) => Allowed(kind, c, Plain("counter", t, ""), app, tries)
         /\ app = "main" => Allowed(kind, c, Plain("changed flag", "PIN2", ""), app, tries)
         /\ \A t : Reaches(kind, app, t) /\ tries[t] > 0 =>
                Allowed(kind, c, Verify(t, t), app, tries)
         /\ \A x : KeyIn(kind, app, Key(c)) => Allowed(kind, c, SetEnv(x, Key(c)), app, tries)
         /\ \A ins \in UsesKey : \A x : Allowed(kind, c, Plain(ins, "", x), app, tries)
         /\ c.op = "calculateSignature" => Allowed(kind, c, RequireNonZero, app, tries)
         /\ c.op # "calculateSignature" =>
               /\ \A t : Reaches(kind, app, t) /\ tries[t] > 0 =>
                     Allowed(kind, c, Command("change", t, t, t), app, tries)
               /\ \A t : Reaches(kind, app, "PUK") /\ tries["PUK"] > 0 =>
                     Allowed(kind, c, Command("unblock with PUK", t, "PUK", "PUK"), app, tries)
<1> USE DEF Allowed, Checking, Checked, UsesKey, Plain, Command
<1>1. \A x : Allowed(kind, c, SelectApp(x), app, tries)
  BY DEF SelectApp
<1>2. app # None => \A x : /\ Allowed(kind, c, SelectFile(x), app, tries)
                           /\ Allowed(kind, c, Plain("hash", "", x), app, tries)
  BY DEF SelectFile
<1>3. \A read \in Readings : Allowed(kind, c, read, app, tries)
  <2>1. ReadFile.ins = "read" /\ ReadWrapped.ins = "read"
    BY DEF ReadFile, ReadWrapped
  <2>2. ASSUME NEW read, read.ins = "read" PROVE Allowed(kind, c, read, app, tries)
    BY <2>2
  <2> QED
    BY <2>1, <2>2 DEF Readings
<1>4. \A t : Reaches(kind, app, t) => Allowed(kind, c, Plain("counter", t, ""), app, tries)
  OBVIOUS
<1>5. app = "main" => Allowed(kind, c, Plain("changed flag", "PIN2", ""), app, tries)
  OBVIOUS
<1>6. \A t : Reaches(kind, app, t) /\ tries[t] > 0 => Allowed(kind, c, Verify(t, t), app, tries)
  BY DEF Verify
<1>7. \A x : KeyIn(kind, app, Key(c)) => Allowed(kind, c, SetEnv(x, Key(c)), app, tries)
  BY DEF SetEnv
<1>8. \A ins \in UsesKey : \A x : Allowed(kind, c, Plain(ins, "", x), app, tries)
  OBVIOUS
<1>9. c.op = "calculateSignature" => Allowed(kind, c, RequireNonZero, app, tries)
  BY DEF RequireNonZero
<1>10. c.op # "calculateSignature" =>
          /\ \A t : Reaches(kind, app, t) /\ tries[t] > 0 =>
                Allowed(kind, c, Command("change", t, t, t), app, tries)
          /\ \A t : Reaches(kind, app, "PUK") /\ tries["PUK"] > 0 =>
                Allowed(kind, c, Command("unblock with PUK", t, "PUK", "PUK"), app, tries)
  OBVIOUS
<1> QED
  BY <1>1, <1>2, <1>3, <1>4, <1>5, <1>6, <1>7, <1>8, <1>9, <1>10

\* What the commands need and provide.
LEMMA NeedsBuilders ==
  ASSUME NEW c
  PROVE  /\ \A x : Needs(c, SelectApp(x)) = {}
         /\ \A x : Needs(c, SelectFile(x)) = {} /\ Provides(SelectFile(x), "file")
         /\ \A read \in Readings : Needs(c, read) = {"file"}
         /\ \A x, y : Needs(c, Verify(x, y)) = {}
         /\ \A x \in CodeTypes : \A y : Provides(Verify(x, y), x)
         /\ \A x, y : Needs(c, SetEnv(x, y)) = {}
         /\ \A x \in Templates : \A y : Provides(SetEnv(x, y), x)
         /\ \A x : Needs(c, Plain("hash", "", x)) = {}
         /\ \A x : Needs(c, Plain("sign", "", x)) = {"B6", KeyCode(Key(c))}
         /\ \A x : Needs(c, Plain("authenticate", "", x)) = {"A4", KeyCode(Key(c))}
         /\ \A x : Needs(c, Plain("decipher", "", x)) = {"B8", KeyCode(Key(c))}
         /\ Needs(c, Plain("changed flag", "PIN2", "")) = {}
         /\ Needs(c, RequireNonZero) = {}
         /\ \A x : Needs(c, Plain("counter", x, "")) = {}
         /\ \A x, y, z : Needs(c, Command("change", x, y, z)) = {}
         /\ \A x, y, z : Needs(c, Command("unblock with PUK", x, y, z)) = {}
BY DEF Needs, Provides, SelectApp, SelectFile, ReadFile, Verify, SetEnv, RequireNonZero,
       Plain, Command, Readings, ReadWrapped

LEMMA InsOf ==
  /\ \A x : SelectApp(x).ins = "select" /\ SelectApp(x).ref = x
  /\ \A x : SelectFile(x).ins = "select file"
  /\ \A read \in Readings : read.ins = "read"
  /\ RequireNonZero.ins = "require"
  /\ \A x, y : Verify(x, y).ins = "verify" /\ SetEnv(x, y).ins = "set environment"
  /\ \A x, y, z : Plain(x, y, z).ins = x
  /\ \A x, y, z, u : Command(x, y, z, u).ins = x
BY DEF SelectApp, SelectFile, ReadFile, Verify, SetEnv, RequireNonZero, Plain, Command,
       Readings, ReadWrapped

\* Places of short scripts.
LEMMA Places ==
  /\ \A i \in 1 .. 2 : i = 1 \/ i = 2
  /\ \A i \in 1 .. 3 : i = 1 \/ i = 2 \/ i = 3
  /\ \A i \in 1 .. 4 : i = 1 \/ i = 2 \/ i = 3 \/ i = 4
  /\ \A i \in 1 .. 6 : i = 1 \/ i = 2 \/ i = 3 \/ i = 4 \/ i = 5 \/ i = 6
  /\ \A i \in 1 .. 7 : i = 1 \/ i = 2 \/ i = 3 \/ i = 4 \/ i = 5 \/ i = 6 \/ i = 7
  /\ 3 - 1 = 2 /\ 4 - 1 = 3 /\ 7 - 1 = 6
  /\ 1 \in Nat /\ 1 >= 1 /\ 1 + 1 = 2 /\ 2 < 3 /\ 2 < 4
  /\ 2 \in Nat /\ 2 >= 1 /\ 2 + 1 = 3 /\ 3 < 4
  /\ 4 \in Nat /\ 4 >= 1 /\ 4 + 1 = 5 /\ 5 < 7
OBVIOUS

\* A command that needs nothing, after an application has been selected.
LEMMA TwoReady ==
  ASSUME NEW c, NEW k, NEW app, NEW cmd, NEW a, Allowed(kind, c, cmd, app, k.tries),
         cmd.ins \in {"counter", "changed flag", "change", "unblock with PUK"}
  PROVE  Ready(kind, c, <<SelectApp(app), cmd>>, k, a)
<1> DEFINE first == SelectApp(app)
           s == <<first, cmd>>
<1>1. first.ins = "select" /\ first.ref = app /\ Needs(c, first) = {}
      /\ Allowed(kind, c, first, app, k.tries)
  BY InsOf, NeedsBuilders, AllowedBuilders
<1>2. Needs(c, cmd) = {}
  BY DEF Needs
<1>3. Len(s) = 2 /\ s[1] = first /\ s[2] = cmd
  OBVIOUS
<1> HIDE DEF first, s
<1>4. \A i \in 1 .. Len(s) : i = 1 \/ i = 2
  BY <1>3, Places, Zenon
<1>5. Target(s, k) = app
  BY <1>1, <1>3 DEF Target, Kept
<1>6. Ordered(s)
  BY <1>1, <1>3, <1>4 DEF Ordered, UsesKey
<1>7. \A i \in 1 .. Len(s) : Allowed(kind, c, s[i], Target(s, k), k.tries)
  BY <1>1, <1>3, <1>4, <1>5
<1>8. Supplied(c, s, k)
  BY <1>1, <1>2, <1>3, <1>4 DEF Supplied
<1> QED
  BY <1>1, <1>3, <1>6, <1>7, <1>8 DEF Ready, s, first

\* Files are selected before they are read.
LEMMA FilesReady ==
  ASSUME NEW c, NEW S, NEW s \in Seq(S), NEW k, NEW a, NEW file,
         NEW read \in Readings, Len(s) >= 3, s[1] = SelectApp("main"), s[2] = SelectFile(file),
         \A i \in 3 .. Len(s) : s[i] \in {SelectFile("record"), read}
  PROVE  Ready(kind, c, s, k, a)
<1> DEFINE app == "main"
<1>1. /\ SelectApp(app).ins = "select" /\ SelectApp(app).ref = app /\ read.ins = "read"
      /\ \A x : SelectFile(x).ins = "select file"
  BY InsOf
<1>2. /\ Needs(c, SelectApp(app)) = {} /\ Needs(c, read) = {"file"}
      /\ \A x : Needs(c, SelectFile(x)) = {} /\ Provides(SelectFile(x), "file")
  BY NeedsBuilders
<1>3. /\ Allowed(kind, c, SelectApp(app), app, k.tries) /\ Allowed(kind, c, read, app, k.tries)
      /\ \A x : Allowed(kind, c, SelectFile(x), app, k.tries)
  BY AllowedBuilders DEF None
<1>4. Len(s) \in Nat
  BY LenProperties
<1>5. \A i \in 1 .. Len(s) : i = 1 \/ i = 2 \/ i \in 3 .. Len(s)
  BY <1>4
<1>6. Target(s, k) = app
  BY <1>1 DEF Target, Kept
<1>7. Ordered(s)
  BY <1>1, <1>5 DEF Ordered, UsesKey
<1>8. \A i \in 1 .. Len(s) : Allowed(kind, c, s[i], Target(s, k), k.tries)
  BY <1>3, <1>5, <1>6
<1>9. ASSUME NEW i \in 1 .. Len(s), NEW x \in Needs(c, s[i])
      PROVE  \E j \in 1 .. i - 1 : Provides(s[j], x)
  <2>1. i \in 3 .. Len(s) /\ x = "file"
    BY <1>2, <1>5, <1>9
  <2>2. 2 \in 1 .. i - 1
    BY <1>4, <2>1
  <2> QED
    BY <1>2, <2>1, <2>2
<1>10. Supplied(c, s, k)
  BY <1>9 DEF Supplied
<1> QED
  BY <1>1, <1>7, <1>8, <1>10 DEF Ready

LEMMA RecordsReady ==
  ASSUME NEW c \in TokenCalls, NEW k, NEW a, NEW read \in Readings
  PROVE  Ready(kind, c, <<SelectApp("main"), SelectFile("personal")>>
                     \o Repeated(8, <<SelectFile("record"), read>>), k, a)
<1> DEFINE p == <<SelectApp("main"), SelectFile("personal")>>
           e == <<SelectFile("record"), read>>
           E == {SelectFile("record"), read}
           S == E \cup {SelectApp("main"), SelectFile("personal")}
           q == Repeated(8, e)
           s == p \o q
<1>1. e \in Seq(E) /\ e # <<>> /\ Len(e) = 2
  BY Tuple2
<1>2. p \in Seq(S) /\ Len(p) = 2 /\ p[1] = SelectApp("main") /\ p[2] = SelectFile("personal")
  BY Tuple2
<1> HIDE DEF e, p
<1>3. q \in Seq(E)
  BY <1>1, RepeatedType
<1>4. q \in Seq(S) /\ Len(q) = 16
  <2>1. E \subseteq S
    OBVIOUS
  <2>2. q \in Seq(S)
    BY <1>3, <2>1, SeqMonotonic
  <2>3. DOMAIN q = 1 .. 8 * Len(e)
    BY DEF Repeated
  <2>4. DOMAIN q = 1 .. 16
    BY <1>1, <2>3
  <2>5. DOMAIN q = 1 .. Len(q) /\ Len(q) \in Nat
    BY <1>3, LenProperties
  <2>6. Len(q) = 16
    BY <2>4, <2>5
  <2> QED
    BY <2>2, <2>6
<1>5. \A i \in 1 .. 16 : q[i] \in E
  BY <1>3, <1>4, ElementOfSeq
<1> HIDE DEF q, E, S
<1>6. /\ s \in Seq(S) /\ Len(s) = 2 + 16
      /\ \A i \in 1 .. 2 + 16 : s[i] = IF i <= 2 THEN p[i] ELSE q[i - 2]
  <2>1. /\ s \in Seq(S) /\ Len(s) = Len(p) + Len(q)
        /\ \A i \in 1 .. Len(p) + Len(q) :
               s[i] = IF i <= Len(p) THEN p[i] ELSE q[i - Len(p)]
    BY <1>2, <1>4, ConcatProperties
  <2> HIDE DEF s
  <2>2. Len(p) = 2 /\ Len(q) = 16
    BY <1>2, <1>4
  <2> QED
    BY <2>1, <2>2, Zenon
<1> HIDE DEF s
<1>7. s[1] = SelectApp("main") /\ s[2] = SelectFile("personal") /\ Len(s) = 18
  BY <1>2, <1>6
<1>8. ASSUME NEW i \in 3 .. 18 PROVE s[i] \in {SelectFile("record"), read}
  <2>1. i \in 1 .. 2 + 16 /\ ~(i <= 2) /\ i - 2 \in 1 .. 16
    OBVIOUS
  <2>2. s[i] = q[i - 2]
    BY <1>6, <2>1
  <2> QED
    BY <1>5, <2>1, <2>2 DEF E
<1>9. Len(s) >= 3
  BY <1>7
<1>10. \A i \in 3 .. Len(s) : s[i] \in {SelectFile("record"), read}
  BY <1>7, <1>8
<1> QED
  BY <1>6, <1>7, <1>9, <1>10, FilesReady DEF s, p, q, e

LEMMA OneFileReady ==
  ASSUME NEW c, NEW k, NEW a, NEW file, NEW read \in Readings
  PROVE  Ready(kind, c, <<SelectApp("main"), SelectFile(file), read>>, k, a)
<1> DEFINE b1 == SelectApp("main")
           b2 == SelectFile(file)
           S == {b1, b2, read}
           s == <<b1, b2, read>>
<1>1. s \in Seq(S) /\ Len(s) = 3 /\ s[1] = b1 /\ s[2] = b2 /\ s[3] = read
  BY Tuple3
<1> HIDE DEF s, S
<1>2. \A i \in 3 .. Len(s) : s[i] \in {SelectFile("record"), read}
  <2> SUFFICES ASSUME NEW i \in 3 .. Len(s) PROVE s[i] = read
    OBVIOUS
  <2>1. i \in 3 .. 3
    BY <1>1
  <2>2. i = 3
    BY <2>1
  <2> QED
    BY <1>1, <2>2
<1>3. Len(s) >= 3
  BY <1>1
<1> QED
  BY <1>1, <1>2, <1>3, FilesReady DEF s

\* Before a key is used its code is verified and the key set: the v-th command and the
\* next.
LEMMA KeyReady ==
  ASSUME NEW c, NEW S, NEW s \in Seq(S), NEW k, NEW a, NEW app, NEW v \in Nat, NEW x \in Templates,
         v >= 1, v + 1 < Len(s), Ordered(s), Target(s, k) = app, s[1].ins # "require",
         \A i \in 1 .. Len(s) : Allowed(kind, c, s[i], app, k.tries),
         \A i \in 1 .. Len(s) - 1 : Needs(c, s[i]) = {},
         Needs(c, s[Len(s)]) = {x, KeyCode(Key(c))},
         s[v] = Verify(KeyCode(Key(c)), KeyCode(Key(c))), s[v + 1] = SetEnv(x, Key(c))
  PROVE  Ready(kind, c, s, k, a)
<1>1. Len(s) \in Nat
  BY LenProperties
<1>2. KeyCode(Key(c)) \in CodeTypes
  BY KeyIs DEF CodeTypes
<1>3. Provides(s[v], KeyCode(Key(c))) /\ Provides(s[v + 1], x)
  <2>1. /\ Provides(Verify(KeyCode(Key(c)), KeyCode(Key(c))), KeyCode(Key(c)))
        /\ Provides(SetEnv(x, Key(c)), x)
    BY <1>2 DEF Provides, Verify, SetEnv, Plain, Command
  <2> QED
    BY <2>1, Zenon
<1>4. ASSUME NEW i \in 1 .. Len(s), NEW y \in Needs(c, s[i])
      PROVE  \E j \in 1 .. i - 1 : Provides(s[j], y)
  <2>1. i = Len(s)
    <3>1. i \notin 1 .. Len(s) - 1
      BY <1>4
    <3> QED
      BY <1>1, <3>1
  <2>2. y = x \/ y = KeyCode(Key(c))
    BY <1>4, <2>1
  <2>3. v \in 1 .. i - 1 /\ v + 1 \in 1 .. i - 1
    BY <1>1, <2>1
  <2> QED
    BY <1>3, <2>2, <2>3
<1>5. Supplied(c, s, k)
  BY <1>4 DEF Supplied
<1> QED
  BY <1>5 DEF Ready


\* After an application: the code, the key and its use.
LEMMA FourReady ==
  ASSUME NEW c, NEW k, NEW a, NEW app, NEW b1, NEW b2, NEW b3, NEW b4, NEW x \in Templates,
         Allowed(kind, c, b1, app, k.tries), Allowed(kind, c, b2, app, k.tries),
         Allowed(kind, c, b3, app, k.tries), Allowed(kind, c, b4, app, k.tries),
         Needs(c, b1) = {}, Needs(c, b2) = {}, Needs(c, b3) = {},
         Needs(c, b4) = {x, KeyCode(Key(c))},
         b1.ins = "select", b1.ref = app, b2.ins = "verify", b3.ins = "set environment",
         b4.ins \in UsesKey,
         b2 = Verify(KeyCode(Key(c)), KeyCode(Key(c))), b3 = SetEnv(x, Key(c))
  PROVE  Ready(kind, c, <<b1, b2, b3, b4>>, k, a)
<1> DEFINE S == {b1, b2, b3, b4}
           s == <<b1, b2, b3, b4>>
<1>1. s \in Seq(S) /\ Len(s) = 4 /\ s[1] = b1 /\ s[2] = b2 /\ s[3] = b3 /\ s[4] = b4
  BY Tuple4
<1> HIDE DEF s, S
<1>2. \A i \in 1 .. Len(s) : i = 1 \/ i = 2 \/ i = 3 \/ i = 4
  BY <1>1, Places, Zenon
<1>3. Ordered(s)
  BY <1>1, <1>2 DEF Ordered, UsesKey
<1>4. Target(s, k) = app
  BY <1>1 DEF Target, Kept
<1>5. \A i \in 1 .. Len(s) : Allowed(kind, c, s[i], app, k.tries)
  BY <1>1, <1>2
<1>6. \A i \in 1 .. Len(s) - 1 : Needs(c, s[i]) = {}
  <2>1. Len(s) - 1 = 3
    BY <1>1, Places, Zenon
  <2>2. \A i \in 1 .. Len(s) - 1 : i = 1 \/ i = 2 \/ i = 3
    BY <2>1, Places, Zenon
  <2> QED
    BY <1>1, <2>2, Zenon
<1>7. s[Len(s)] = b4 /\ s[2] = b2 /\ s[2 + 1] = b3 /\ 2 + 1 < Len(s) /\ 2 \in Nat /\ 2 >= 1
  BY <1>1, Places, Zenon
<1>8. s[1].ins # "require"
  BY <1>1
<1>9. Ready(kind, c, s, k, a)
  BY <1>1, <1>3, <1>4, <1>5, <1>6, <1>7, <1>8, KeyReady
<1> QED
  BY <1>9 DEF s
\* The script of every call, when it begins.
LEMMA IdemiaReady ==
  ASSUME NEW c \in TokenCalls, c.op # "pinChangedFlag", kind = "ID1", card \in Cards, NEW a,
         Due(c, card)
  PROVE  Ready(kind, c, Idemia!Script(c), card, a)
<1> DEFINE s == Idemia!Script(c)
<1>1. CASE c.op = "personalData"
  <2> DEFINE p == <<SelectApp("main"), SelectFile("personal")>>
             e == <<SelectFile("record"), ReadFile>>
             S == CommandsOf(c)
  <2>1. s = p \o Repeated(8, e)
    BY <1>1, SameIdemia DEF Idemia!Script, Idemia!PersonalData
  <2>2. Ready(kind, c, p \o Repeated(8, e), card, a)
    BY RecordsReady DEF Readings
  <2> QED
    BY <2>1, <2>2
<1>2. CASE c.op = "certificate"
  <2>1. s = <<SelectApp("main"), SelectFile("certificate"), ReadWrapped>>
    BY <1>2, SameIdemia DEF Idemia!Script, Idemia!Certificate
  <2>2. Ready(kind, c, <<SelectApp("main"), SelectFile("certificate"), ReadWrapped>>, card, a)
    BY OneFileReady DEF Readings
  <2> QED
    BY <2>1, <2>2
<1>3. CASE c.op = "codeRetryCounter"
  <2> DEFINE app == IF c.type = "PIN2" THEN "qscd" ELSE "main"
             cmd == Plain("counter", c.type, "")
  <2>1. s = <<SelectApp(app), cmd>>
    BY <1>3, SameIdemia DEF Idemia!Script, Idemia!CodeRetryCounter, Idemia!SelectFor
  <2>2. Reaches(kind, app, c.type)
    BY DEF Reaches
  <2>3. cmd.ins = "counter" /\ cmd.ref = c.type
    BY DEF Plain, Command
  <2> HIDE DEF s, app, cmd
  <2>4. Allowed(kind, c, cmd, app, card.tries)
    BY <2>2, <2>3 DEF Allowed, Checking
  <2>5. Ready(kind, c, <<SelectApp(app), cmd>>, card, a)
    BY <2>3, <2>4, TwoReady
  <2> QED
    BY <2>1, <2>5 DEF s
<1>4. CASE c.op = "changeCode"
  <2> DEFINE app == IF c.type = "PIN2" THEN "qscd" ELSE "main"
             cmd == Command("change", c.type, c.type, c.type)
  <2>1. c.code = c.type /\ card.tries[c.type] > 0
    BY <1>4, PassedIs DEF Due
  <2>2. s = <<SelectApp(app), cmd>>
    BY <1>4, <2>1, SameIdemia DEF Idemia!Script, Idemia!ChangeCode, Idemia!SelectFor
  <2>3. Reaches(kind, app, c.type)
    BY DEF Reaches
  <2>4. cmd.ins = "change" /\ cmd.ref = c.type /\ cmd.arg = c.type
    BY DEF Command
  <2> HIDE DEF s, app, cmd
  <2>5. Allowed(kind, c, cmd, app, card.tries)
    BY <1>4, <2>1, <2>3, <2>4 DEF Allowed, Checking, Checked
  <2>6. Ready(kind, c, <<SelectApp(app), cmd>>, card, a)
    BY <2>4, <2>5, TwoReady
  <2> QED
    BY <2>2, <2>6 DEF s
<1>5. CASE c.op \in PinOps
  <2> DEFINE t == PIN(c.op)
             key == Key(c)
             app == IF key = "sign" THEN "qscd" ELSE "oberthur"
             x == IF c.op = "calculateSignature" THEN "B6"
                  ELSE IF c.op = "authenticate" THEN "A4" ELSE "B8"
             ins == IF c.op = "calculateSignature" THEN "sign"
                    ELSE IF c.op = "authenticate" THEN "authenticate" ELSE "decipher"
             hash == IF c.op = "decrypt" THEN "" ELSE c.hash
             b1 == SelectApp(app)
             b2 == Verify(t, t)
             b3 == SetEnv(x, key)
             b4 == Plain(ins, "", hash)
  <2>1. Passed(c) = {t} /\ t = KeyCode(key) /\ t \in CodeTypes
    BY <1>5 DEF Passed, PIN, PinOps, Key, KeyCode, CodeTypes
  <2>2. c.code = t /\ card.tries[t] > 0
    BY <2>1 DEF Due
  <2>3. s = <<b1, b2, b3, b4>>
    <3>1. CASE c.op = "calculateSignature"
      BY <2>2, <3>1, SameIdemia DEF PIN, Key, Idemia!Script, Idemia!CalculateSignature
    <3>2. CASE c.op = "authenticate"
      BY <2>2, <3>2, SameIdemia DEF PIN, Key, Idemia!Script, Idemia!Authenticate
    <3>3. CASE c.op = "decrypt"
      BY <2>2, <3>3, SameIdemia DEF PIN, Key, Idemia!Script, Idemia!Decrypt
    <3> QED
      BY <1>5, <3>1, <3>2, <3>3 DEF PinOps
  <2>4. x \in Templates /\ ins \in UsesKey
    BY DEF Templates, UsesKey
  <2>5. Reaches(kind, app, t) /\ KeyIn(kind, app, key)
    BY <1>5 DEF Reaches, KeyIn, PIN, Key, PinOps
  <2>6. Needs(c, b4) = {x, KeyCode(key)}
    BY <1>5, NeedsBuilders DEF PinOps
  <2> HIDE DEF s, t, key, app, x, ins, hash
  <2>7. /\ Allowed(kind, c, b1, app, card.tries) /\ Allowed(kind, c, b2, app, card.tries)
        /\ Allowed(kind, c, b3, app, card.tries) /\ Allowed(kind, c, b4, app, card.tries)
    BY <2>2, <2>4, <2>5, AllowedBuilders DEF key
  <2>8. Needs(c, b1) = {} /\ Needs(c, b2) = {} /\ Needs(c, b3) = {}
    BY NeedsBuilders
  <2>9. /\ b1.ins = "select" /\ b1.ref = app /\ b2.ins = "verify" /\ b3.ins = "set environment"
        /\ b4.ins = ins
    BY DEF SelectApp, Verify, SetEnv, Plain, Command
  <2>10. b2 = Verify(KeyCode(key), KeyCode(key)) /\ b3 = SetEnv(x, key)
    BY <2>1
  <2> HIDE DEF b1, b2, b3, b4
  <2>11. Ready(kind, c, <<b1, b2, b3, b4>>, card, a)
    BY <2>4, <2>6, <2>7, <2>8, <2>9, <2>10, FourReady DEF key
  <2> QED
    BY <2>3, <2>11 DEF s
<1>6. c.op \in Ops /\ c.op # "unblockAndChangeCode"
  BY CallTypes DEF Due
<1> QED
  BY <1>1, <1>2, <1>3, <1>4, <1>5, <1>6 DEF Ops

\* Without one: the code, the key, perhaps the hash, and the key's use.
LEMMA KeptReady ==
  ASSUME NEW c, NEW k, NEW a, NEW b2, NEW b3, NEW h, NEW b4, NEW x \in Templates,
         Allowed(kind, c, b2, k.app, k.tries), Allowed(kind, c, b3, k.app, k.tries),
         Allowed(kind, c, h, k.app, k.tries), Allowed(kind, c, b4, k.app, k.tries),
         Needs(c, b2) = {}, Needs(c, b3) = {}, Needs(c, h) = {},
         Needs(c, b4) = {x, KeyCode(Key(c))},
         b2.ins = "verify", b3.ins = "set environment", h.ins = "hash", b4.ins \in UsesKey,
         b2 = Verify(KeyCode(Key(c)), KeyCode(Key(c))), b3 = SetEnv(x, Key(c))
  PROVE  Ready(kind, c, <<b2, b3, b4>>, k, a) /\ Ready(kind, c, <<b2, b3, h, b4>>, k, a)
<1>1. Ready(kind, c, <<b2, b3, b4>>, k, a)
  <2> DEFINE S == {b2, b3, b4}
             s == <<b2, b3, b4>>
  <2>1. s \in Seq(S) /\ Len(s) = 3 /\ s[1] = b2 /\ s[2] = b3 /\ s[3] = b4
    BY Tuple3
  <2> HIDE DEF s, S
  <2>2. \A i \in 1 .. Len(s) : i = 1 \/ i = 2 \/ i = 3
    BY <2>1, Places, Zenon
  <2>3. Ordered(s)
    BY <2>1, <2>2 DEF Ordered, UsesKey
  <2>4. Target(s, k) = k.app
    BY <2>1 DEF Target, Kept
  <2>5. \A i \in 1 .. Len(s) : Allowed(kind, c, s[i], k.app, k.tries)
    BY <2>1, <2>2
  <2>6. \A i \in 1 .. Len(s) - 1 : Needs(c, s[i]) = {}
    <3>1. Len(s) - 1 = 2
      BY <2>1, Places, Zenon
    <3>2. \A i \in 1 .. Len(s) - 1 : i = 1 \/ i = 2
      BY <3>1, Places, Zenon
    <3> QED
      BY <2>1, <3>2, Zenon
  <2>7. s[Len(s)] = b4 /\ s[1] = b2 /\ s[1 + 1] = b3 /\ 1 + 1 < Len(s) /\ 1 \in Nat /\ 1 >= 1
    BY <2>1, Places, Zenon
  <2>8. s[1].ins # "require"
    BY <2>1
  <2>9. Ready(kind, c, s, k, a)
    BY <2>1, <2>3, <2>4, <2>5, <2>6, <2>7, <2>8, KeyReady
  <2> QED
    BY <2>9 DEF s
<1>2. Ready(kind, c, <<b2, b3, h, b4>>, k, a)
  <2> DEFINE S == {b2, b3, h, b4}
             s == <<b2, b3, h, b4>>
  <2>1. s \in Seq(S) /\ Len(s) = 4 /\ s[1] = b2 /\ s[2] = b3 /\ s[3] = h /\ s[4] = b4
    BY Tuple4
  <2> HIDE DEF s, S
  <2>2. \A i \in 1 .. Len(s) : i = 1 \/ i = 2 \/ i = 3 \/ i = 4
    BY <2>1, Places, Zenon
  <2>3. Ordered(s)
    BY <2>1, <2>2 DEF Ordered, UsesKey
  <2>4. Target(s, k) = k.app
    BY <2>1 DEF Target, Kept
  <2>5. \A i \in 1 .. Len(s) : Allowed(kind, c, s[i], k.app, k.tries)
    BY <2>1, <2>2
  <2>6. \A i \in 1 .. Len(s) - 1 : Needs(c, s[i]) = {}
    <3>1. Len(s) - 1 = 3
      BY <2>1, Places, Zenon
    <3>2. \A i \in 1 .. Len(s) - 1 : i = 1 \/ i = 2 \/ i = 3
      BY <3>1, Places, Zenon
    <3> QED
      BY <2>1, <3>2, Zenon
  <2>7. s[Len(s)] = b4 /\ s[1] = b2 /\ s[1 + 1] = b3 /\ 1 + 1 < Len(s) /\ 1 \in Nat /\ 1 >= 1
    BY <2>1, Places, Zenon
  <2>8. s[1].ins # "require"
    BY <2>1
  <2>9. Ready(kind, c, s, k, a)
    BY <2>1, <2>3, <2>4, <2>5, <2>6, <2>7, <2>8, KeyReady
  <2> QED
    BY <2>9 DEF s
<1> QED
  BY <1>1, <1>2

LEMMA Tuple7 ==
  ASSUME NEW S, NEW b1 \in S, NEW f \in S, NEW r \in S, NEW b2 \in S, NEW b3 \in S, NEW h \in S,
         NEW b4 \in S, NEW s, s = <<b1, f, r, b2, b3, h, b4>>
  PROVE  /\ s \in Seq(S) /\ Len(s) = 7 /\ s[1] = b1 /\ s[2] = f /\ s[3] = r /\ s[4] = b2
         /\ s[5] = b3 /\ s[6] = h /\ s[7] = b4
OBVIOUS

LEMMA JoinedAt ==
  ASSUME NEW S, NEW p \in Seq(S), NEW q \in Seq(S), NEW s \in Seq(S), Len(s) = Len(p) + Len(q),
         \A i \in 1 .. Len(p) : s[i] = p[i], \A i \in 1 .. Len(q) : s[Len(p) + i] = q[i]
  PROVE  p \o q = s
<1> DEFINE r == p \o q
<1>1. /\ r \in Seq(S) /\ Len(r) = Len(p) + Len(q)
      /\ \A i \in 1 .. Len(p) + Len(q) : r[i] = IF i <= Len(p) THEN p[i] ELSE q[i - Len(p)]
  BY ConcatProperties
<1>2. Len(p) \in Nat /\ Len(q) \in Nat
  BY LenProperties
<1> HIDE DEF r
<1>3. ASSUME NEW i \in 1 .. Len(r) PROVE r[i] = s[i]
  <2>1. i \in 1 .. Len(p) + Len(q)
    BY <1>1
  <2>2. CASE i <= Len(p)
    <3>1. i \in 1 .. Len(p)
      BY <1>2, <2>1, <2>2
    <3> QED
      BY <1>1, <2>1, <2>2, <3>1
  <2>3. CASE ~(i <= Len(p))
    <3>1. i - Len(p) \in 1 .. Len(q) /\ Len(p) + (i - Len(p)) = i
      BY <1>2, <2>1, <2>3
    <3> QED
      BY <1>1, <2>1, <2>3, <3>1
  <2> QED
    BY <2>2, <2>3
<1>4. r = s
  BY <1>1, <1>3, SeqEqual
<1> QED
  BY <1>4 DEF r

LEMMA Joined2 ==
  ASSUME NEW b1, NEW b2
  PROVE  <<b1>> \o <<b2>> = <<b1, b2>>
<1> DEFINE S == {b1, b2}
           p == <<b1>>
           q == <<b2>>
           s == <<b1, b2>>
<1>1. /\ p \in Seq(S) /\ Len(p) = 1 /\ p[1] = b1
      /\ q \in Seq(S) /\ Len(q) = 1 /\ q[1] = b2
      /\ s \in Seq(S) /\ Len(s) = 2 /\ s[1] = b1 /\ s[2] = b2
  BY Tuple1, Tuple2
<1> HIDE DEF p, q, s, S
<1>2. /\ Len(s) = Len(p) + Len(q) /\ \A i \in 1 .. Len(p) : s[i] = p[i]
      /\ \A i \in 1 .. Len(q) : s[Len(p) + i] = q[i]
  BY <1>1
<1>3. p \o q = s
  BY <1>1, <1>2, JoinedAt
<1> QED
  BY <1>3 DEF p, q, s

LEMMA Joined3 ==
  ASSUME NEW b1, NEW b2, NEW b3
  PROVE  <<b1>> \o <<b2, b3>> = <<b1, b2, b3>> /\ <<b1, b2>> \o <<b3>> = <<b1, b2, b3>>
<1> DEFINE S == {b1, b2, b3}
           s == <<b1, b2, b3>>
<1>1. s \in Seq(S) /\ Len(s) = 3 /\ s[1] = b1 /\ s[2] = b2 /\ s[3] = b3
  BY Tuple3
<1>2. <<b1>> \o <<b2, b3>> = s
  <2> DEFINE p == <<b1>>
             q == <<b2, b3>>
  <2>1. /\ p \in Seq(S) /\ Len(p) = 1 /\ p[1] = b1
        /\ q \in Seq(S) /\ Len(q) = 2 /\ q[1] = b2 /\ q[2] = b3
    BY Tuple1, Tuple2
  <2> HIDE DEF p, q, s, S
  <2>2. /\ Len(s) = Len(p) + Len(q) /\ \A i \in 1 .. Len(p) : s[i] = p[i]
        /\ \A i \in 1 .. Len(q) : s[Len(p) + i] = q[i]
    BY <1>1, <2>1
  <2>3. p \o q = s
    BY <1>1, <2>1, <2>2, JoinedAt
  <2> QED
    BY <2>3 DEF p, q
<1>3. <<b1, b2>> \o <<b3>> = s
  <2> DEFINE p == <<b1, b2>>
             q == <<b3>>
  <2>1. /\ p \in Seq(S) /\ Len(p) = 2 /\ p[1] = b1 /\ p[2] = b2
        /\ q \in Seq(S) /\ Len(q) = 1 /\ q[1] = b3
    BY Tuple1, Tuple2
  <2> HIDE DEF p, q, s, S
  <2>2. /\ Len(s) = Len(p) + Len(q) /\ \A i \in 1 .. Len(p) : s[i] = p[i]
        /\ \A i \in 1 .. Len(q) : s[Len(p) + i] = q[i]
    BY <1>1, <2>1
  <2>3. p \o q = s
    BY <1>1, <2>1, <2>2, JoinedAt
  <2> QED
    BY <2>3 DEF p, q
<1> QED
  BY <1>2, <1>3 DEF s

LEMMA Joined7 ==
  ASSUME NEW b1, NEW b2, NEW b3, NEW b4, NEW b5, NEW b6, NEW b7
  PROVE  <<b1, b2, b3>> \o <<b4, b5, b6, b7>> = <<b1, b2, b3, b4, b5, b6, b7>>
<1> DEFINE S == {b1, b2, b3, b4, b5, b6, b7}
           s == <<b1, b2, b3, b4, b5, b6, b7>>
           p == <<b1, b2, b3>>
           q == <<b4, b5, b6, b7>>
<1>1. /\ s \in Seq(S) /\ Len(s) = 7 /\ s[1] = b1 /\ s[2] = b2 /\ s[3] = b3 /\ s[4] = b4
      /\ s[5] = b5 /\ s[6] = b6 /\ s[7] = b7
  BY Tuple7
<1>2. p \in Seq(S) /\ Len(p) = 3 /\ p[1] = b1 /\ p[2] = b2 /\ p[3] = b3
  BY Tuple3
<1>3. q \in Seq(S) /\ Len(q) = 4 /\ q[1] = b4 /\ q[2] = b5 /\ q[3] = b6 /\ q[4] = b7
  BY Tuple4
<1> HIDE DEF p, q, s, S
<1>4. /\ Len(s) = Len(p) + Len(q) /\ \A i \in 1 .. Len(p) : s[i] = p[i]
      /\ \A i \in 1 .. Len(q) : s[Len(p) + i] = q[i]
  BY <1>1, <1>2, <1>3
<1>5. p \o q = s
  BY <1>1, <1>2, <1>3, <1>4, JoinedAt
<1> QED
  BY <1>5 DEF p, q, s

\* After an application and the flag.
LEMMA SevenReady ==
  ASSUME NEW c, NEW k, NEW a, NEW app, NEW b1, NEW f, NEW r, NEW b2, NEW b3, NEW h, NEW b4,
         NEW x \in Templates, NEW s, s = <<b1, f, r, b2, b3, h, b4>>,
         Allowed(kind, c, b1, app, k.tries), Allowed(kind, c, f, app, k.tries),
         Allowed(kind, c, r, app, k.tries),
         Allowed(kind, c, b2, app, k.tries), Allowed(kind, c, b3, app, k.tries),
         Allowed(kind, c, h, app, k.tries), Allowed(kind, c, b4, app, k.tries),
         Needs(c, b1) = {}, Needs(c, f) = {}, Needs(c, r) = {},
         Needs(c, b2) = {}, Needs(c, b3) = {}, Needs(c, h) = {},
         Needs(c, b4) = {x, KeyCode(Key(c))},
         b1.ins = "select", b1.ref = app, f.ins = "changed flag", r.ins = "require",
         b2.ins = "verify", b3.ins = "set environment", h.ins = "hash", b4.ins \in UsesKey,
         b2 = Verify(KeyCode(Key(c)), KeyCode(Key(c))), b3 = SetEnv(x, Key(c))
  PROVE  Ready(kind, c, s, k, a)
<1> DEFINE S == {b1, f, r, b2, b3, h, b4}
<1>0. b1 \in S /\ f \in S /\ r \in S /\ b2 \in S /\ b3 \in S /\ h \in S /\ b4 \in S
  BY Zenon
<1> HIDE DEF S
<1>1. /\ s \in Seq(S) /\ Len(s) = 7 /\ s[1] = b1 /\ s[2] = f /\ s[3] = r /\ s[4] = b2
      /\ s[5] = b3 /\ s[6] = h /\ s[7] = b4
  BY <1>0, Tuple7, Zenon
<1>2. \A i \in 1 .. Len(s) : i = 1 \/ i = 2 \/ i = 3 \/ i = 4 \/ i = 5 \/ i = 6 \/ i = 7
  BY <1>1, Places, Zenon
<1>3. Ordered(s)
  <2>1. s[3 - 1].ins = "changed flag"
    BY <1>1, Places, Zenon
  <2> QED
    BY <1>1, <1>2, <2>1 DEF Ordered, UsesKey
<1>4. Target(s, k) = app
  BY <1>1 DEF Target, Kept
<1>5. \A i \in 1 .. Len(s) : Allowed(kind, c, s[i], app, k.tries)
  BY <1>1, <1>2, Zenon
<1>6. \A i \in 1 .. Len(s) - 1 : Needs(c, s[i]) = {}
  <2>1. Len(s) - 1 = 6
    BY <1>1, Places, Zenon
  <2>2. \A i \in 1 .. Len(s) - 1 : i = 1 \/ i = 2 \/ i = 3 \/ i = 4 \/ i = 5 \/ i = 6
    BY <2>1, Places, Zenon
  <2> QED
    BY <1>1, <2>2, Zenon
<1>7. s[Len(s)] = b4 /\ s[4] = b2 /\ s[4 + 1] = b3 /\ 4 + 1 < Len(s) /\ 4 \in Nat /\ 4 >= 1
  BY <1>1, Places, Zenon
<1>8. s[1].ins # "require"
  BY <1>1
<1> QED
  BY <1>1, <1>3, <1>4, <1>5, <1>6, <1>7, <1>8, KeyReady

LEMMA GemaltoReady ==
  ASSUME NEW c \in TokenCalls, kind = "Thales", card \in Cards, NEW a, Due(c, card)
  PROVE  Ready(kind, c, Gemalto!Script(c), card, a)
<1> DEFINE s == Gemalto!Script(c)
           main == SelectApp("main")
<1>1. CASE c.op = "personalData"
  <2> DEFINE p == <<main, SelectFile("personal")>>
             e == <<SelectFile("record"), ReadWrapped>>
  <2>1. s = p \o Repeated(8, e)
    BY <1>1, SameGemalto DEF Gemalto!Script, Gemalto!PersonalData, Gemalto!File, Gemalto!Main
  <2>2. Ready(kind, c, p \o Repeated(8, e), card, a)
    BY RecordsReady DEF Readings
  <2> QED
    BY <2>1, <2>2
<1>2. CASE c.op = "certificate"
  <2> DEFINE file == <<SelectFile("certificate"), ReadWrapped>>
  <2>1. s = <<main>> \o file
    BY <1>2, SameGemalto DEF Gemalto!Script, Gemalto!Certificate, Gemalto!File, Gemalto!Main
  <2>2. <<main>> \o file = <<main, SelectFile("certificate"), ReadWrapped>>
    BY Joined3
  <2>3. Ready(kind, c, <<main, SelectFile("certificate"), ReadWrapped>>, card, a)
    BY OneFileReady DEF Readings
  <2> QED
    BY <2>1, <2>2, <2>3
<1>3. CASE c.op = "codeRetryCounter"
  <2> DEFINE cmd == Plain("counter", c.type, "")
  <2>1. s = <<main, cmd>>
    BY <1>3, SameGemalto DEF Gemalto!Script, Gemalto!CodeRetryCounter, Gemalto!Main
  <2>2. Reaches(kind, "main", c.type)
    BY DEF Reaches
  <2>3. cmd.ins = "counter" /\ cmd.ref = c.type
    BY DEF Plain, Command
  <2> HIDE DEF s, cmd
  <2>4. Allowed(kind, c, cmd, "main", card.tries)
    BY <2>2, <2>3 DEF Allowed, Checking
  <2>5. Ready(kind, c, <<main, cmd>>, card, a)
    BY <2>3, <2>4, TwoReady
  <2> QED
    BY <2>1, <2>5 DEF s
<1>4. CASE c.op = "pinChangedFlag"
  <2> DEFINE cmd == Plain("changed flag", "PIN2", "")
  <2>1. s = <<main, cmd>>
    BY <1>4, SameGemalto DEF Gemalto!Script, Gemalto!PinChangedFlag, Gemalto!Main
  <2>2. cmd.ins = "changed flag"
    BY DEF Plain, Command
  <2> HIDE DEF s, cmd
  <2>3. Allowed(kind, c, cmd, "main", card.tries)
    BY <2>2 DEF Allowed, Checking
  <2>4. Ready(kind, c, <<main, cmd>>, card, a)
    BY <2>2, <2>3, TwoReady
  <2> QED
    BY <2>1, <2>4 DEF s
<1>5. CASE c.op = "changeCode"
  <2> DEFINE cmd == Command("change", c.type, c.type, c.type)
  <2>1. c.code = c.type /\ card.tries[c.type] > 0 /\ c.type # "PUK"
    BY <1>5, PassedIs DEF Due
  <2>2. s = <<main, cmd>>
    <3>1. s = <<main>> \o <<cmd>>
      BY <1>5, <2>1, SameGemalto DEF Gemalto!Script, Gemalto!ChangeCode, Gemalto!Main
    <3> QED
      BY <3>1, Joined2
  <2>3. Reaches(kind, "main", c.type)
    BY DEF Reaches
  <2>4. cmd.ins = "change" /\ cmd.ref = c.type /\ cmd.arg = c.type
    BY DEF Command
  <2> HIDE DEF s, cmd
  <2>5. Allowed(kind, c, cmd, "main", card.tries)
    BY <1>5, <2>1, <2>3, <2>4 DEF Allowed, Checking, Checked
  <2>6. Ready(kind, c, <<main, cmd>>, card, a)
    BY <2>4, <2>5, TwoReady
  <2> QED
    BY <2>2, <2>6 DEF s
<1>6. CASE c.op = "unblockAndChangeCode"
  <2> DEFINE cmd == Command("unblock with PUK", c.type, "PUK", "PUK")
  <2>1. c.code = "PUK" /\ card.tries["PUK"] > 0
    BY <1>6, PassedIs DEF Due
  <2>2. c.type # "PUK"
    BY <1>6 DEF TokenCalls
  <2>3. s = <<main, cmd>>
    <3>1. s = <<main>> \o <<cmd>>
      BY <1>6, <2>1, <2>2, SameGemalto
         DEF Gemalto!Script, Gemalto!UnblockAndChangeCode, Gemalto!Main
    <3> QED
      BY <3>1, Joined2
  <2>4. Reaches(kind, "main", "PUK")
    BY DEF Reaches
  <2>5. cmd.ins = "unblock with PUK" /\ cmd.arg = "PUK"
    BY DEF Command
  <2> HIDE DEF s, cmd
  <2>6. Allowed(kind, c, cmd, "main", card.tries)
    BY <1>6, <2>1, <2>4, <2>5 DEF Allowed, Checking, Checked
  <2>7. Ready(kind, c, <<main, cmd>>, card, a)
    BY <2>5, <2>6, TwoReady
  <2> QED
    BY <2>3, <2>7 DEF s
<1>7. CASE c.op \in PinOps
  <2> DEFINE t == PIN(c.op)
             key == Key(c)
             x == IF c.op = "decrypt" THEN "B8" ELSE "B6"
             ins == IF c.op = "decrypt" THEN "decipher" ELSE "sign"
             flag == Plain("changed flag", "PIN2", "")
             b2 == Verify(t, t)
             b3 == SetEnv(x, key)
             h == Plain("hash", "", c.hash)
             b4 == Plain(ins, "", "")
  <2>1. Passed(c) = {t} /\ t = KeyCode(key) /\ t \in CodeTypes
    BY <1>7 DEF Passed, PIN, PinOps, Key, KeyCode, CodeTypes
  <2>2. c.code = t /\ card.tries[t] > 0
    BY <2>1 DEF Due
  <2>3. /\ c.op = "calculateSignature" =>
               s = (<<main, flag>> \o <<RequireNonZero>>) \o <<b2, b3, h, b4>>
        /\ c.op = "authenticate" => s = <<b2, b3, h, b4>>
        /\ c.op = "decrypt" => s = <<b2, b3, b4>>
    <3>1. CASE c.op = "calculateSignature"
      BY <2>2, <3>1, SameGemalto DEF PIN, Key, Gemalto!Script, Gemalto!CalculateSignature,
              Gemalto!PinChangedFlag, Gemalto!Main, Gemalto!Sign
    <3>2. CASE c.op = "authenticate"
      BY <2>2, <3>2, SameGemalto DEF PIN, Key, Gemalto!Script, Gemalto!Authenticate, Gemalto!Sign
    <3>3. CASE c.op = "decrypt"
      BY <2>2, <3>3, SameGemalto DEF PIN, Key, Gemalto!Script, Gemalto!Decrypt
    <3> QED
      BY <1>7, <3>1, <3>2, <3>3 DEF PinOps
  <2>4. x \in Templates /\ ins \in UsesKey
    BY DEF Templates, UsesKey
  <2>5. Reaches(kind, "main", t) /\ KeyIn(kind, "main", key) /\ "main" # None
    BY DEF Reaches, KeyIn, None
  <2>6. Needs(c, b4) = {x, KeyCode(key)}
    BY <1>7, NeedsBuilders DEF PinOps
  <2> HIDE DEF s, t, key, x, ins
  <2>7. /\ Allowed(kind, c, main, "main", card.tries) /\ Allowed(kind, c, flag, "main", card.tries)
        /\ Allowed(kind, c, b2, "main", card.tries) /\ Allowed(kind, c, b3, "main", card.tries)
        /\ Allowed(kind, c, h, "main", card.tries) /\ Allowed(kind, c, b4, "main", card.tries)
    BY <2>2, <2>4, <2>5, AllowedBuilders DEF key
  <2>8. /\ Needs(c, main) = {} /\ Needs(c, flag) = {} /\ Needs(c, RequireNonZero) = {}
        /\ Needs(c, b2) = {} /\ Needs(c, b3) = {} /\ Needs(c, h) = {}
    BY NeedsBuilders
  <2>9. /\ main.ins = "select" /\ main.ref = "main" /\ flag.ins = "changed flag"
        /\ RequireNonZero.ins = "require" /\ b2.ins = "verify" /\ b3.ins = "set environment"
        /\ h.ins = "hash" /\ b4.ins = ins
    BY DEF SelectApp, Verify, SetEnv, RequireNonZero, Plain, Command
  <2>10. b2 = Verify(KeyCode(key), KeyCode(key)) /\ b3 = SetEnv(x, key)
    BY <2>1
  <2> HIDE DEF main, flag, b2, b3, h, b4
  <2>11. CASE c.op = "calculateSignature"
    <3>1. Allowed(kind, c, RequireNonZero, "main", card.tries)
      BY <2>11, AllowedBuilders
    <3>2. s = <<main, flag, RequireNonZero, b2, b3, h, b4>>
      BY <2>3, <2>11, Joined3, Joined7
    <3>3. Ready(kind, c, s, card, a)
      BY <2>4, <2>6, <2>7, <2>8, <2>9, <2>10, <3>1, <3>2, SevenReady DEF key
    <3> QED
      BY <3>3 DEF s
  <2>12. CASE c.op \in {"authenticate", "decrypt"}
    <3>1. card.app = "main"
      BY <2>12 DEF Due
    <3>2. Ready(kind, c, <<b2, b3, b4>>, card, a) /\ Ready(kind, c, <<b2, b3, h, b4>>, card, a)
      BY <2>4, <2>6, <2>7, <2>8, <2>9, <2>10, <3>1, KeptReady DEF key
    <3> QED
      BY <2>3, <2>12, <3>2 DEF s
  <2> QED
    BY <1>7, <2>11, <2>12 DEF PinOps
<1>8. c.op \in Ops
  BY CallTypes
<1> QED
  BY <1>1, <1>2, <1>3, <1>4, <1>5, <1>6, <1>7, <1>8 DEF Ops

-----------------------------------------------------------------------------
(* A call with the right code goes through *)

LEMMA WorksBegins ==
  ASSUME IInv, NEW c \in Calls, Begin(c)
  PROVE  WorksInv'
<1>1. /\ call' = c /\ script' = Script(c) /\ outcome' = Open /\ kind' = kind
      /\ card' = card /\ before' = Standing(card)
  BY DEF Begin
<1>2. /\ c \in TokenCalls /\ (c.op = "pinChangedFlag" => kind = "Thales")
      /\ kind \in {"ID1", "Thales"} /\ card \in Cards
  BY DEF Calls, IInv, TypeOK
<1>3. before'.tries = card.tries /\ before'.app = card.app
  BY <1>1 DEF Standing
<1>4. Due(c, before') => Due(c, card)
  BY <1>3 DEF Due
<1>5. Due(c, card) => Ready(kind, c, Script(c), card, answer')
  <2>1. CASE kind = "ID1"
    BY <1>2, <2>1, IdemiaReady DEF Script
  <2>2. CASE kind = "Thales"
    BY <1>2, <2>2, GemaltoReady DEF Script
  <2> QED
    BY <1>2, <2>1, <2>2
<1>6. Due(call, before)' => Due(c, before')
  BY <1>1 DEF Due
<1>7. Ready(kind, c, Script(c), card, answer') => Ready(kind, call, script, card, answer)'
  BY <1>1
<1>8. RightCodeWorks'
  BY <1>1 DEF RightCodeWorks
<1> QED
  BY <1>4, <1>5, <1>6, <1>7, <1>8 DEF WorksInv

\* Steps that end the call may do so only in a call that is not entitled, or disturbed.
LEMMA WorksEnds ==
  ASSUME script # <<>>, IInv, outcome' # Open, disturbed' \/ ~Entitled(call)'
  PROVE  WorksInv'
BY DEF WorksInv, RightCodeWorks

\* A step that goes on with the script.
LEMMA WorksOn ==
  ASSUME IInv, script # <<>>, UNCHANGED <<kind, call, before, disturbed>>, NEW data, Proceed(data),
         ~disturbed /\ Due(call, before) /\ Tail(script) # <<>> =>
             Ready(kind, call, Tail(script), card', data)
  PROVE  WorksInv'
<1>1. outcome = Open
  BY WhenOpen
<1>2. /\ answer' = data /\ script' = Tail(script)
      /\ outcome' = IF Tail(script) = <<>> THEN Ended("ok", None, 0) ELSE Open
  BY <1>1 DEF Proceed, End
<1>3. CASE Tail(script) = <<>>
  <2>1. outcome'.how = "ok" /\ outcome' # Open
    BY <1>2, <1>3 DEF Ended, Open
  <2> QED
    BY <2>1 DEF WorksInv, RightCodeWorks
<1>4. CASE Tail(script) # <<>>
  <2>1. outcome' = Open
    BY <1>2, <1>4
  <2>2. Due(call, before)' => Due(call, before)
    BY DEF Due
  <2>3. Ready(kind, call, Tail(script), card', data) => Ready(kind, call, script, card, answer)'
    BY <1>2
  <2> QED
    BY <1>4, <2>1, <2>2, <2>3 DEF WorksInv, RightCodeWorks
<1> QED
  BY <1>3, <1>4

LEMMA WorksExchange == IInv /\ WorksInv /\ Exchange => WorksInv'
<1> SUFFICES ASSUME IInv, WorksInv, Exchange PROVE WorksInv'
  OBVIOUS
<1> DEFINE cmd == Head(script)
           r == CardResponse(card, cmd)
<1>1. /\ script # <<>> /\ cmd.ins \notin {"throw", "require"} /\ card' = r.card
      /\ UNCHANGED <<kind, call, before, disturbed>>
      /\ IF r.sw = "9000" THEN Proceed(r.data) ELSE ApduError(cmd, r.sw) /\ UNCHANGED answer
  BY DEF Exchange, AtCommand
<1>2. /\ outcome = Open /\ call \in TokenCalls /\ script \in Seq(CommandsOf(call))
      /\ card \in Cards /\ kind \in {"ID1", "Thales"}
  BY <1>1, WhenOpen
<1>3. ASSUME ~disturbed, Due(call, before)
      PROVE  Ready(kind, call, script, card, answer) /\ Serves(call, cmd, card, r)
  <2>1. Ready(kind, call, script, card, answer)
    BY <1>2, <1>3 DEF WorksInv
  <2> QED
    BY <1>1, <1>2, <2>1, HeadServed
<1> HIDE DEF r
<1>4. CASE r.sw = "9000"
  <2>1. ~disturbed /\ Due(call, before) /\ Tail(script) # <<>> =>
            Ready(kind, call, Tail(script), card', r.data)
    BY <1>1, <1>2, <1>3, TailReady
  <2> QED
    BY <1>1, <1>4, <2>1, WorksOn
<1>5. CASE r.sw # "9000"
  <2>1. disturbed \/ ~Due(call, before)
    BY <1>3, <1>5 DEF Serves
  <2>2. outcome' # Open
    BY <1>1, <1>5, ErrorCloses DEF Fails, Open, Ended
  <2>3. disturbed' \/ ~Entitled(call)'
    BY <1>1, <2>1 DEF Entitled, Due
  <2> QED
    BY <1>1, <2>2, <2>3, WorksEnds
<1> QED
  BY <1>4, <1>5

\* After the flag has told that PIN2 has been changed, the call goes on.
LEMMA WorksRequire == IInv /\ WorksInv /\ Require => WorksInv'
<1> SUFFICES ASSUME IInv, WorksInv, Require PROVE WorksInv'
  OBVIOUS
<1>1. /\ script # <<>> /\ Head(script).ins = "require"
      /\ UNCHANGED <<kind, call, card, before, disturbed>>
  BY DEF Require
<1>2. /\ outcome = Open /\ call \in TokenCalls /\ script \in Seq(CommandsOf(call))
      /\ card \in Cards /\ kind \in {"ID1", "Thales"} /\ Head(script) = script[1]
      /\ 1 \in 1 .. Len(script)
  <2>1. /\ outcome = Open /\ call \in TokenCalls /\ script \in Seq(CommandsOf(call))
        /\ card \in Cards /\ kind \in {"ID1", "Thales"}
    BY <1>1, WhenOpen
  <2>2. Head(script) = script[1] /\ Len(script) \in Nat \ {0}
    BY <1>1, <2>1, TailAt
  <2>3. 1 \in 1 .. Len(script)
    BY <2>2
  <2> QED
    BY <2>1, <2>2, <2>3
<1>3. ASSUME ~disturbed, Due(call, before)
      PROVE  /\ Ready(kind, call, script, card, answer) /\ call.op = "calculateSignature"
             /\ card.changed => answer.value # 0
  <2>1. Ready(kind, call, script, card, answer)
    BY <1>2, <1>3 DEF WorksInv
  <2>2. Allowed(kind, call, script[1], Target(script, card), card.tries)
    BY <1>2, <2>1 DEF Ready
  <2> QED
    BY <1>1, <1>2, <2>1, <2>2 DEF Ready, Allowed
<1>4. CASE answer.value = 0
  <2>1. outcome' # Open
    BY <1>4 DEF Require, End, Ended, Open
  <2>2. disturbed' \/ ~Entitled(call)'
    BY <1>1, <1>3, <1>4 DEF Entitled, Due
  <2> QED
    BY <1>1, <2>1, <2>2, WorksEnds
<1>5. CASE answer.value # 0
  <2>1. Proceed(answer)
    BY <1>5 DEF Require
  <2> DEFINE r == [sw |-> "9000", card |-> card, data |-> answer]
  <2>2. Serves(call, Head(script), card, r)
    <3>1. \A x : ~Provides(Head(script), x)
      BY <1>1 DEF Provides
    <3> QED
      BY <1>1, <3>1 DEF Serves
  <2>3. r.card = card' /\ r.data = answer
    BY <1>1
  <2> HIDE DEF r
  <2>4. ~disturbed /\ Due(call, before) /\ Tail(script) # <<>> =>
            Ready(kind, call, Tail(script), card', answer)
    BY <1>1, <1>2, <1>3, <2>2, <2>3, TailReady
  <2> QED
    BY <1>1, <2>1, <2>4, WorksOn
<1> QED
  BY <1>4, <1>5

\* No script of an entitled call throws.
LEMMA WorksThrow == IInv /\ WorksInv /\ ThrowItself => WorksInv'
<1> SUFFICES ASSUME IInv, WorksInv, ThrowItself PROVE WorksInv'
  OBVIOUS
<1>1. /\ script # <<>> /\ Head(script).ins = "throw" /\ End(Head(script).ref, None, 0)
      /\ UNCHANGED <<kind, call, answer, card, before, disturbed>>
  BY DEF ThrowItself
<1>2. outcome = Open /\ script \in Seq(CommandsOf(call)) /\ Head(script) \in CommandsOf(call)
  BY <1>1, WhenOpen
<1>3. Head(script) = script[1] /\ 1 \in 1 .. Len(script)
  <2>1. Head(script) = script[1] /\ Len(script) \in Nat \ {0}
    BY <1>1, <1>2, TailAt
  <2> QED
    BY <2>1
<1>4. disturbed \/ ~Due(call, before)
  <2> SUFFICES ASSUME ~disturbed, Due(call, before) PROVE FALSE
    OBVIOUS
  <2>1. Ready(kind, call, script, card, answer)
    BY <1>2 DEF WorksInv
  <2>2. Allowed(kind, call, script[1], Target(script, card), card.tries)
    BY <1>3, <2>1 DEF Ready
  <2> QED
    BY <1>1, <1>3, <2>2 DEF Allowed
<1>5. outcome' # Open
  <2>1. Head(script).ref \in Exceptions
    BY <1>1, <1>2 DEF CommandsOf
  <2> QED
    BY <1>1, <2>1 DEF End, Ended, Open, Exceptions
<1>6. disturbed' \/ ~Entitled(call)'
  BY <1>1, <1>4 DEF Entitled, Due
<1> QED
  BY <1>1, <1>5, <1>6, WorksEnds

LEMMA WorksStep == IInv /\ WorksInv /\ [Next]_vars => WorksInv'
<1> SUFFICES ASSUME IInv, WorksInv, [Next]_vars PROVE WorksInv'
  OBVIOUS
<1>1. CASE \E c \in Calls : Begin(c)
  BY <1>1, WorksBegins
<1>2. CASE TransmitFails \/ Unreadable \/ CardFails
  <2>1. script # <<>> /\ outcome'.how \in Fails /\ disturbed'
    BY <1>2, FaultCloses DEF TransmitFails, Unreadable, CardFails, AtCommand
  <2>2. outcome' # Open
    BY <2>1 DEF Fails, Open, Ended
  <2> QED
    BY <2>1, <2>2, WorksEnds
<1>3. CASE CardReset
  <2>1. /\ card' = Reset(card) /\ disturbed' = (disturbed \/ outcome = Open)
        /\ UNCHANGED <<kind, call, script, answer, outcome, before>>
    BY <1>3 DEF CardReset
  <2>2. card'.changed = card.changed
    BY <2>1 DEF Reset, IInv, TypeOK, Cards
  <2>3. Entitled(call)' <=> Entitled(call)
    BY <2>1, <2>2 DEF Entitled
  <2>4. RightCodeWorks'
    BY <2>1, <2>3 DEF WorksInv, RightCodeWorks
  <2> QED
    BY <2>1, <2>4 DEF WorksInv
<1>4. CASE UNCHANGED vars
  <2>1. /\ kind' = kind /\ call' = call /\ script' = script /\ answer' = answer
        /\ outcome' = outcome /\ card' = card /\ before' = before /\ disturbed' = disturbed
    BY <1>4 DEF vars
  <2>2. Due(call, before)' => Due(call, before)
    BY <2>1 DEF Due
  <2>3. Ready(kind, call, script, card, answer) => Ready(kind, call, script, card, answer)'
    BY <2>1
  <2>4. RightCodeWorks'
    BY <2>1 DEF WorksInv, RightCodeWorks, Entitled
  <2> QED
    BY <2>1, <2>2, <2>3, <2>4 DEF WorksInv
<1> QED
  BY <1>1, <1>2, <1>3, <1>4, WorksExchange, WorksRequire, WorksThrow DEF Next, Token

-----------------------------------------------------------------------------
(* Theorems *)

\* Types: whatever a client calls, and whatever fails, the attempts that a
\* CodeVerificationException reports are two at the most, and the card's counters stay
\* within their bounds.
THEOREM TypeCorrect == Spec => []TypeOK
<1>1. IInv => TypeOK
  BY DEF IInv
<1> QED
  BY <1>1, Invariance, PTL

\* The attempts that a CodeVerificationException and codeRetryCounter tell of are those
\* that the card holds.
THEOREM AttemptsReportedHolds == Spec => []AttemptsReported
<1>1. IInv => AttemptsReported
  BY DEF IInv, CounterInv
<1> QED
  BY <1>1, Invariance, PTL

\* No call costs more than one attempt, and only of the code it passes, if that is
\* wrong, whatever fails on the way.
THEOREM OneAttemptPerCallHolds == Spec => []OneAttemptPerCall
<1>1. IInv => OneAttemptPerCall
  BY DEF IInv, TriesInv
<1> QED
  BY <1>1, Invariance, PTL

\* A call that passes a code succeeds only if it is the right one, whatever earlier
\* calls have left verified in the card.
THEOREM RightCodeRequiredHolds == Spec => []RightCodeRequired
<1>1. ASSUME IInv PROVE RightCodeRequired
  <2> SUFFICES ASSUME outcome.how = "ok", NEW t \in Passed(call), call.code # t
               PROVE  FALSE
    BY DEF RightCodeRequired
  <2>1. script = <<>>
    BY <1>1 DEF IInv, PlaceInv, Open, Ended
  <2>2. \E i \in 1 .. Len(script) : script[i] \in Asks(t)
    BY <1>1 DEF IInv, CodeInv
  <2>3. Len(<<>>) = 0
    BY EmptySeq
  <2> QED
    BY <2>1, <2>2, <2>3
<1> QED
  BY <1>1, Invariance, PTL

\* A signature is over this call's hash, and by the key of the operation, though the card
\* keeps the key and the hash of earlier calls.
THEOREM TheSignatureHolds == Spec => []TheSignature
<1>1. Init => SignInv
  <2> SUFFICES ASSUME Init PROVE SignInv
    OBVIOUS
  <2>1. outcome # Open /\ call.op = None
    BY DEF Init, Open, Ended, NoCall, Call
  <2> QED
    BY <2>1 DEF SignInv, TheSignature, None
<1>2. IInv /\ IInv' /\ SignInv /\ [Next]_vars => SignInv'
  BY SignStep
<1>3. SignInv => TheSignature
  BY DEF SignInv
<1> QED
  BY <1>1, <1>2, <1>3, Invariance, PTL DEF Spec

\* Whatever was called before and whatever of that failed: as long as nothing disturbs
\* the call itself, a user with the right code gets the result.  Each script brings the
\* card into the state that its commands need.
THEOREM RightCodeWorksHolds == Spec => []RightCodeWorks
<1>1. Init => WorksInv
  <2> SUFFICES ASSUME Init PROVE WorksInv
    OBVIOUS
  <2>1. outcome # Open /\ call = NoCall
    BY DEF Init, Open, Ended
  <2> QED
    BY <2>1 DEF WorksInv, RightCodeWorks
<1>2. IInv /\ WorksInv /\ [Next]_vars => WorksInv'
  BY WorksStep
<1>3. WorksInv => RightCodeWorks
  BY DEF WorksInv
<1> QED
  BY <1>1, <1>2, <1>3, Invariance, PTL DEF Spec
===============================================================================
