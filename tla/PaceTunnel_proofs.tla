-------------------------- MODULE PaceTunnel_proofs ---------------------------
(***************************************************************************)
(* Proofs about PaceTunnel for any set of CANs and any number of calls.     *)
(***************************************************************************)
EXTENDS PaceTunnel, TLAPS

USE CanAssumption, AttemptsAssumption

-----------------------------------------------------------------------------
(* The inductive invariant *)

\* What is in the air belongs to the exchange tunnel() is at.
AirInv ==
    /\ pc = "idle" => ~waiting
    /\ pc # "idle" => attempt > 0
    /\ ~waiting => toCard = Nothing /\ toHost = Nothing
    /\ toCard # Nothing => /\ toHost = Nothing
                           /\ toCard.step = pc /\ toCard.host = attempt
                           /\ toCard.token = agreed /\ toCard.sm = installed

Replied == toHost \in Reply /\ toHost.sw = "9000"

\* The keys that the card computes in this exchange of keys.
ThisRun == [nonce |-> [can |-> CardCan, run |-> run], host |-> attempt, card |-> run]

\* What the token has computed comes from this call, and from the card's last run.
RunInv ==
    /\ pc \in {"map", "agree", "auth"} => nonce.can \in {can, NoCan} /\ nonce.run = run
    /\ pc = "nonce" /\ Replied => toHost.card = run
    /\ pc = "agree" /\ Replied => toHost.card = run /\ cardAgreed = ThisRun
    /\ pc = "auth" => /\ cardAgreed = ThisRun
                      /\ agreed = [nonce |-> nonce, host |-> attempt, card |-> run]

\* A chip token is that of the session the card has just started; 63 00 says that
\* the keys differ.
TokenInv ==
    toHost \in Reply =>
        /\ toHost.token # NoKeys => /\ pc = "auth" /\ toHost.token = cardAgreed
                                    /\ session = toHost.token /\ cardSsc = 0
        /\ toHost.sw = "6300" => pc = "auth" /\ agreed # cardAgreed

ResultInv ==
    /\ OnlyTheRightCan
    /\ BlamesTheCan
    /\ pc # "idle" => result = "none"
    /\ pc = "idle" /\ attempt > 0 => result # "none"

\* The keys in use are older than the exchange that is under way.
KeysInv ==
    /\ keys.host <= attempt
    /\ pc # "idle" => keys.host < attempt
    /\ keys.card <= run
    /\ pc \in {"nonce", "map", "agree", "auth"} \/ (pc = "mse" /\ Replied) => keys.card < run

\* A client that stops when tunnel() has succeeded never sends through the tunnel.
OnceInv ==
    /\ installed /\ ~reused => result = "ok"
    /\ ~installed => ssc = 0
    /\ SessionUsable

\* Nor does it see a failure that is not the card's or the link's.
QuietInv ==
    ~reused /\ ~disturbed =>
        /\ toHost # IOException
        /\ toHost \in Reply => toHost.intact /\ toHost.sw # "other"
        /\ pc = "auth" /\ Replied => toHost.token = agreed
        /\ pc \in {"map", "agree", "auth"} => nonce.can = can
        /\ UndisturbedResult

IInv == /\ TypeOK /\ AirInv /\ RunInv /\ TokenInv /\ ResultInv /\ KeysInv
        /\ OnceInv /\ QuietInv

-----------------------------------------------------------------------------
(* Facts about the parts of the state *)

LEMMA Distinct ==
  /\ Nothing \notin Command /\ Nothing \notin Reply /\ IOException \notin Reply
  /\ Nothing # IOException
BY DEF Nothing, IOException, Command, Reply

LEMMA KeyTypes ==
  /\ NoKeys \in Keys
  /\ \A k \in Keys : k.nonce \in Nonces /\ k.host \in Nat /\ k.card \in Nat
  /\ \A n \in Nonces : n.can \in Cans \cup {NoCan} /\ n.run \in Nat
BY DEF NoKeys, Keys, Nonces

LEMMA StepTypes ==
  /\ StepNames = {"select", "mse", "nonce", "map", "agree", "auth"}
  /\ "idle" \notin StepNames
<1>1. DOMAIN Steps = 1 .. 6
  BY DEF Steps
<1>2. StepNames = {Steps[i] : i \in 1 .. 6}
  BY <1>1 DEF StepNames
<1>3. \A i \in 1 .. 6 : i = 1 \/ i = 2 \/ i = 3 \/ i = 4 \/ i = 5 \/ i = 6
  OBVIOUS
<1>4. /\ Steps[1] = "select" /\ Steps[2] = "mse" /\ Steps[3] = "nonce"
      /\ Steps[4] = "map" /\ Steps[5] = "agree" /\ Steps[6] = "auth"
  BY DEF Steps
<1> QED
  BY <1>2, <1>3, <1>4

\* A set of keys computed with the number of a run is not NoKeys if the run is not zero.
LEMMA FreshType ==
  ASSUME NEW n \in Nonces, NEW h \in Nat, NEW c \in Nat
  PROVE  /\ [nonce |-> n, host |-> h, card |-> c] \in Keys
         /\ [nonce |-> n, host |-> h, card |-> c].host = h
         /\ [nonce |-> n, host |-> h, card |-> c].card = c
         /\ [nonce |-> n, host |-> h, card |-> c].nonce = n
BY DEF Keys

\* While an APDU is in the air or has been answered, tunnel() is under way; a token that
\* has been used once only has no tunnel then.
LEMMA Busy ==
  ASSUME IInv, toCard # Nothing \/ toHost # Nothing
  PROVE  /\ waiting /\ pc # "idle" /\ result = "none" /\ attempt > 0
         /\ ~reused => (~installed /\ ssc = 0)
BY DEF IInv, TypeOK, AirInv, ResultInv, OnceInv

LEMMA InitInv == Init => IInv
<1> SUFFICES ASSUME Init PROVE IInv
  OBVIOUS
<1>1. TypeOK
  <2>1. NoKeys.nonce \in Nonces /\ NoKeys \in Keys
    BY KeyTypes
  <2>2. attempt \in 0 .. MaxAttempts
    BY DEF Init
  <2> QED
    BY <2>1, <2>2, StepTypes DEF Init, TypeOK
<1>2. AirInv /\ RunInv /\ TokenInv /\ ResultInv
  BY Distinct DEF Init, AirInv, RunInv, TokenInv, ResultInv, Replied, OnlyTheRightCan, BlamesTheCan
<1>3. KeysInv /\ OnceInv /\ QuietInv
  BY Distinct DEF Init, KeysInv, OnceInv, QuietInv, Replied, SessionUsable, UndisturbedResult,
                  NoKeys
<1> QED
  BY <1>1, <1>2, <1>3 DEF IInv

LEMMA TunnelInv == ASSUME IInv, NEW c \in Cans, Tunnel(c) PROVE IInv'
<1> USE DEF Tunnel, token, chip, IInv
<1>1. TypeOK'
  <2>1. attempt + 1 \in 0 .. MaxAttempts
    BY DEF TypeOK
  <2> QED
    BY <2>1, StepTypes DEF TypeOK
<1>2. AirInv'
  BY DEF TypeOK, AirInv
<1>3. RunInv'
  BY DEF RunInv
<1>4. TokenInv'
  BY DEF TokenInv
<1>5. ResultInv'
  BY DEF ResultInv, OnlyTheRightCan, BlamesTheCan
<1>6. KeysInv'
  BY KeyTypes DEF TypeOK, KeysInv
<1>7. OnceInv'
  BY DEF OnceInv, SessionUsable
<1>8. QuietInv'
  BY Distinct, Busy DEF QuietInv, UndisturbedResult
<1> QED
  BY <1>1, <1>2, <1>3, <1>4, <1>5, <1>6, <1>7, <1>8

LEMMA SendInv == ASSUME IInv, Send PROVE IInv'
<1> USE DEF Send, token, chip, IInv
<1>1. TypeOK'
  BY DEF TypeOK, Command
<1>2. AirInv'
  BY DEF AirInv
<1>3. RunInv'
  BY DEF RunInv, Replied, ThisRun
<1>4. TokenInv'
  BY DEF TokenInv
<1>5. ResultInv'
  BY DEF ResultInv, OnlyTheRightCan, BlamesTheCan
<1>6. KeysInv'
  BY DEF Replied, KeysInv
<1>7. OnceInv'
  BY DEF OnceInv, ResultInv, SessionUsable
<1>8. QuietInv'
  BY DEF Replied, QuietInv, UndisturbedResult
<1> QED
  BY <1>1, <1>2, <1>3, <1>4, <1>5, <1>6, <1>7, <1>8

LEMMA SelectedInv == ASSUME IInv, Selected PROVE IInv'
<1> USE DEF Selected, Returned, Proceed, chip, IInv
<1>1. TypeOK'
  BY StepTypes DEF TypeOK
<1>2. AirInv'
  BY Distinct DEF AirInv
<1>3. RunInv'
  BY Distinct DEF RunInv, Replied
<1>4. TokenInv'
  BY Distinct DEF TokenInv
<1>5. ResultInv'
  BY DEF ResultInv, OnlyTheRightCan, BlamesTheCan
<1>6. KeysInv'
  BY Distinct DEF Replied, KeysInv
<1>7. OnceInv'
  BY DEF OnceInv, SessionUsable
<1>8. QuietInv'
  BY Distinct DEF QuietInv, UndisturbedResult
<1> QED
  BY <1>1, <1>2, <1>3, <1>4, <1>5, <1>6, <1>7, <1>8

LEMMA GotNonceInv == ASSUME IInv, GotNonce PROVE IInv'
<1> USE DEF GotNonce, Returned, Proceed, chip, IInv
<1>1. TypeOK'
  <2>1. toHost.card \in Nat
    BY DEF Reply
  <2>2. nonce' \in Nonces
    BY <2>1 DEF TypeOK, Nonces
  <2> QED
    BY <2>2, StepTypes DEF TypeOK
<1>2. AirInv'
  BY Distinct DEF AirInv
<1>3. RunInv'
  BY DEF RunInv, Replied
<1>4. TokenInv'
  BY Distinct DEF TokenInv
<1>5. ResultInv'
  BY DEF ResultInv, OnlyTheRightCan, BlamesTheCan
<1>6. KeysInv'
  BY DEF KeysInv
<1>7. OnceInv'
  BY DEF OnceInv, SessionUsable
<1>8. QuietInv'
  BY Distinct DEF QuietInv, UndisturbedResult
<1> QED
  BY <1>1, <1>2, <1>3, <1>4, <1>5, <1>6, <1>7, <1>8

LEMMA MappedInv == ASSUME IInv, Mapped PROVE IInv'
<1> USE DEF Mapped, Returned, Proceed, chip, IInv
<1>1. TypeOK'
  BY StepTypes DEF TypeOK
<1>2. AirInv'
  BY Distinct DEF AirInv
<1>3. RunInv'
  BY Distinct DEF RunInv, Replied
<1>4. TokenInv'
  BY Distinct DEF TokenInv
<1>5. ResultInv'
  BY DEF ResultInv, OnlyTheRightCan, BlamesTheCan
<1>6. KeysInv'
  BY DEF KeysInv
<1>7. OnceInv'
  BY DEF OnceInv, SessionUsable
<1>8. QuietInv'
  BY Distinct DEF QuietInv, UndisturbedResult
<1> QED
  BY <1>1, <1>2, <1>3, <1>4, <1>5, <1>6, <1>7, <1>8

LEMMA AgreedInv == ASSUME IInv, Agreed PROVE IInv'
<1> USE DEF Agreed, Returned, Proceed, chip, IInv
<1>1. TypeOK'
  <2>1. toHost.card \in Nat
    BY DEF Reply
  <2>2. agreed' \in Keys
    BY <2>1, FreshType DEF TypeOK
  <2> QED
    BY <2>2, StepTypes DEF TypeOK
<1>2. AirInv'
  BY Distinct DEF AirInv
<1>3. RunInv'
  BY DEF RunInv, Replied, ThisRun
<1>4. TokenInv'
  BY Distinct DEF TokenInv
<1>5. ResultInv'
  BY DEF ResultInv, OnlyTheRightCan, BlamesTheCan
<1>6. KeysInv'
  BY DEF KeysInv
<1>7. OnceInv'
  BY DEF OnceInv, SessionUsable
<1>8. QuietInv'
  BY Distinct DEF Replied, QuietInv, UndisturbedResult
<1> QED
  BY <1>1, <1>2, <1>3, <1>4, <1>5, <1>6, <1>7, <1>8

LEMMA ChipVerifiedInv == ASSUME IInv, ChipVerified PROVE IInv'
<1> USE DEF ChipVerified, Returned, Proceed, chip, IInv
<1>a. /\ can = CardCan
      /\ session = agreed /\ cardSsc = 0
  <2>1. agreed = [nonce |-> nonce, host |-> attempt, card |-> run] /\ cardAgreed = ThisRun
    BY DEF RunInv
  <2>2. toHost # Nothing
    BY Distinct
  <2>3. attempt > 0
    BY <2>2, Busy
  <2>4. agreed # NoKeys
    BY <2>1, <2>3, FreshType DEF NoKeys
  <2>5. toHost.token = cardAgreed /\ session = agreed /\ cardSsc = 0
    BY <2>4 DEF TokenInv
  <2>6. nonce = [can |-> CardCan, run |-> run]
    BY <2>1, <2>5 DEF ThisRun
  <2>7. nonce.can \in {can, NoCan} /\ nonce.can = CardCan
    BY <2>6 DEF RunInv
  <2> QED
    BY <2>5, <2>7
<1>1. TypeOK'
  BY DEF TypeOK
<1>2. AirInv'
  BY Distinct DEF AirInv
<1>3. RunInv'
  BY DEF RunInv
<1>4. TokenInv'
  BY Distinct DEF TokenInv
<1>5. ResultInv'
  BY <1>a DEF ResultInv, OnlyTheRightCan, BlamesTheCan
<1>6. KeysInv'
  BY DEF TypeOK, RunInv, KeysInv
<1>7. OnceInv'
  BY <1>a DEF OnceInv, SessionUsable
<1>8. QuietInv'
  BY <1>a, Distinct DEF QuietInv, UndisturbedResult
<1> QED
  BY <1>1, <1>2, <1>3, <1>4, <1>5, <1>6, <1>7, <1>8

LEMMA WrongCanInv == ASSUME IInv, WrongCan PROVE IInv'
<1> USE DEF WrongCan, Throw, Proceed, chip, IInv
<1>a. pc = "auth" /\ nonce.can \in {can, NoCan} /\ nonce.can # CardCan
  <2>1. pc = "auth" /\ agreed # cardAgreed
    BY DEF TokenInv
  <2>2. /\ agreed = [nonce |-> nonce, host |-> attempt, card |-> run] /\ cardAgreed = ThisRun
        /\ nonce.can \in {can, NoCan} /\ nonce.run = run
    BY <2>1 DEF RunInv
  <2>3. nonce # [can |-> CardCan, run |-> run]
    BY <2>1, <2>2 DEF ThisRun
  <2>4. nonce = [can |-> nonce.can, run |-> nonce.run]
    BY DEF TypeOK, Nonces
  <2> QED
    BY <2>1, <2>2, <2>3, <2>4
<1>1. TypeOK'
  BY DEF TypeOK
<1>2. AirInv'
  BY Distinct DEF AirInv
<1>3. RunInv'
  BY DEF RunInv
<1>4. TokenInv'
  BY Distinct DEF TokenInv
<1>5. ResultInv'
  BY <1>a DEF ResultInv, OnlyTheRightCan, BlamesTheCan
<1>6. KeysInv'
  BY DEF KeysInv
<1>7. OnceInv'
  BY DEF AirInv, OnceInv, ResultInv, SessionUsable
<1>8. QuietInv'
  BY <1>a, Distinct DEF QuietInv, UndisturbedResult
<1> QED
  BY <1>1, <1>2, <1>3, <1>4, <1>5, <1>6, <1>7, <1>8

LEMMA OtherFailureInv == ASSUME IInv, OtherFailure PROVE IInv'
<1> USE DEF OtherFailure, ExchangeFailed, Returned, Throw, Proceed, chip, IInv
<1>1. TypeOK'
  BY DEF TypeOK
<1>2. AirInv'
  BY Distinct DEF AirInv
<1>3. RunInv'
  BY DEF RunInv
<1>4. TokenInv'
  BY Distinct DEF TokenInv
<1>5. ResultInv'
  BY DEF ResultInv, OnlyTheRightCan, BlamesTheCan
<1>6. KeysInv'
  BY DEF KeysInv
<1>7. OnceInv'
  BY DEF AirInv, OnceInv, ResultInv, SessionUsable
<1>8. QuietInv'
  BY DEF AirInv, Replied, QuietInv, UndisturbedResult, ResultInv, OnceInv
<1> QED
  BY <1>1, <1>2, <1>3, <1>4, <1>5, <1>6, <1>7, <1>8

LEMMA CardSelectsInv == ASSUME IInv, CardSelects PROVE IInv'
<1> USE DEF CardSelects, Readable, SessionAfter, AnswerWith, token, IInv
<1>1. TypeOK'
  BY KeyTypes DEF TypeOK, Command, Reply
<1>2. AirInv'
  BY DEF AirInv
<1>3. RunInv'
  BY DEF AirInv, RunInv
<1>4. TokenInv'
  BY DEF TokenInv
<1>5. ResultInv'
  BY DEF ResultInv, OnlyTheRightCan, BlamesTheCan
<1>6. KeysInv'
  BY KeyTypes DEF TypeOK, AirInv, KeysInv
<1>7. OnceInv'
  BY Busy DEF OnceInv, SessionUsable
<1>8. QuietInv'
  <2>1. toHost' \in Reply /\ toHost'.intact /\ toHost'.sw # "other" /\ toHost' # IOException
    BY <1>1 DEF TypeOK, Nothing, IOException
  <2> QED
    BY <2>1 DEF AirInv, QuietInv, UndisturbedResult
<1> QED
  BY <1>1, <1>2, <1>3, <1>4, <1>5, <1>6, <1>7, <1>8

LEMMA CardExchangesInv == ASSUME IInv, CardExchanges PROVE IInv'
<1> USE DEF CardExchanges, Readable, SessionAfter, AnswerWith, token, IInv
<1>1. TypeOK'
  <2>1. [nonce |-> [can |-> CardCan, run |-> run], host |-> toCard.host, card |-> run] \in Keys
    <3>1. toCard.host \in Nat /\ toCard.sm \in BOOLEAN
      BY DEF TypeOK, Command, IOException
    <3>2. [can |-> CardCan, run |-> run] \in Nonces
      BY DEF TypeOK, Nonces
    <3> QED
      BY <3>1, <3>2, FreshType DEF TypeOK
  <2>2. cardAgreed' \in Keys
    BY <2>1 DEF TypeOK
  <2>3. toHost' \in Reply
    BY KeyTypes DEF TypeOK, Reply, Command
  <2>4. session' \in Keys /\ cardSsc' \in Nat
    BY KeyTypes DEF TypeOK
  <2>5. stage' \in {"none", "nonce", "map", "agree", "auth"}
    OBVIOUS
  <2> QED
    BY <2>2, <2>3, <2>4, <2>5 DEF TypeOK
<1>2. AirInv'
  BY DEF AirInv
<1>3. RunInv'
  BY DEF AirInv, RunInv, ThisRun
<1>4. TokenInv'
  BY DEF TokenInv
<1>5. ResultInv'
  BY DEF ResultInv, OnlyTheRightCan, BlamesTheCan
<1>6. KeysInv'
  BY DEF AirInv, KeysInv
<1>7. OnceInv'
  BY Busy DEF OnceInv, SessionUsable
<1>8. QuietInv'
  <2>1. toHost' \in Reply /\ toHost'.intact /\ toHost'.sw # "other" /\ toHost' # IOException
    BY <1>1 DEF TypeOK, Nothing, IOException
  <2> QED
    BY <2>1 DEF AirInv, QuietInv, UndisturbedResult
<1> QED
  BY <1>1, <1>2, <1>3, <1>4, <1>5, <1>6, <1>7, <1>8

LEMMA CardStartsSessionInv == ASSUME IInv, CardStartsSession PROVE IInv'
<1> USE DEF CardStartsSession, Readable, SessionAfter, AnswerWith, token, IInv
<1>1. TypeOK'
  BY DEF TypeOK, Command, Reply
<1>2. AirInv'
  BY DEF AirInv
<1>3. RunInv'
  BY DEF AirInv, RunInv, ThisRun
<1>4. TokenInv'
  BY DEF AirInv, TokenInv
<1>5. ResultInv'
  BY DEF ResultInv, OnlyTheRightCan, BlamesTheCan
<1>6. KeysInv'
  BY DEF AirInv, KeysInv
<1>7. OnceInv'
  BY Busy DEF OnceInv, SessionUsable
<1>8. QuietInv'
  <2>1. toHost' \in Reply /\ toHost'.intact /\ toHost'.sw # "other" /\ toHost' # IOException
    BY <1>1 DEF TypeOK, Nothing, IOException
  <2> QED
    BY <2>1 DEF AirInv, QuietInv, UndisturbedResult
<1> QED
  BY <1>1, <1>2, <1>3, <1>4, <1>5, <1>6, <1>7, <1>8

LEMMA CardRefusesTokenInv == ASSUME IInv, CardRefusesToken PROVE IInv'
<1> USE DEF CardRefusesToken, Readable, SessionAfter, AnswerWith, token, IInv
<1>1. TypeOK'
  BY KeyTypes DEF TypeOK, Command, Reply
<1>2. AirInv'
  BY DEF AirInv
<1>3. RunInv'
  BY DEF RunInv, Replied, ThisRun
<1>4. TokenInv'
  BY DEF AirInv, TokenInv
<1>5. ResultInv'
  BY DEF ResultInv, OnlyTheRightCan, BlamesTheCan
<1>6. KeysInv'
  BY DEF Replied, KeysInv
<1>7. OnceInv'
  BY Busy DEF OnceInv, SessionUsable
<1>8. QuietInv'
  <2>1. toHost' \in Reply /\ toHost'.intact /\ toHost'.sw # "other" /\ toHost' # IOException
    BY <1>1 DEF TypeOK, Nothing, IOException
  <2> QED
    BY <2>1 DEF QuietInv, UndisturbedResult, Replied
<1> QED
  BY <1>1, <1>2, <1>3, <1>4, <1>5, <1>6, <1>7, <1>8

LEMMA CardFailsInv == ASSUME IInv, CardFails PROVE IInv'
<1> USE DEF CardFails, Readable, SessionAfter, AnswerWith, token, IInv
<1>1. TypeOK'
  <2>1. toHost' \in Reply
    BY KeyTypes DEF TypeOK, Reply, Command
  <2>2. session' \in Keys /\ cardSsc' \in Nat
    BY KeyTypes DEF TypeOK
  <2>3. disturbed' \in BOOLEAN
    BY DEF TypeOK
  <2> QED
    BY <2>1, <2>2, <2>3 DEF TypeOK
<1>2. AirInv'
  BY DEF AirInv
<1>3. RunInv'
  BY DEF RunInv, Replied, ThisRun
<1>4. TokenInv'
  BY DEF TokenInv
<1>5. ResultInv'
  BY DEF ResultInv, OnlyTheRightCan, BlamesTheCan
<1>6. KeysInv'
  BY DEF Replied, KeysInv
<1>7. OnceInv'
  BY Busy DEF OnceInv, SessionUsable
<1>8. QuietInv'
  BY DEF AirInv, QuietInv, UndisturbedResult, ResultInv, OnceInv
<1> QED
  BY <1>1, <1>2, <1>3, <1>4, <1>5, <1>6, <1>7, <1>8

LEMMA LoseCommandInv == ASSUME IInv, LoseCommand PROVE IInv'
<1> USE DEF LoseCommand, token, chip, IInv
<1>1. TypeOK'
  BY DEF TypeOK
<1>2. AirInv'
  BY DEF AirInv
<1>3. RunInv'
  BY Distinct DEF RunInv, Replied, ThisRun
<1>4. TokenInv'
  BY Distinct DEF TokenInv
<1>5. ResultInv'
  BY DEF ResultInv, OnlyTheRightCan, BlamesTheCan
<1>6. KeysInv'
  BY Distinct DEF Replied, KeysInv
<1>7. OnceInv'
  BY DEF OnceInv, SessionUsable
<1>8. QuietInv'
  BY DEF QuietInv, UndisturbedResult
<1> QED
  BY <1>1, <1>2, <1>3, <1>4, <1>5, <1>6, <1>7, <1>8

LEMMA LoseReplyInv == ASSUME IInv, LoseReply PROVE IInv'
<1> USE DEF LoseReply, token, chip, IInv
<1>1. TypeOK'
  BY DEF TypeOK
<1>2. AirInv'
  BY Distinct DEF AirInv
<1>3. RunInv'
  BY Distinct DEF RunInv, Replied, ThisRun
<1>4. TokenInv'
  BY Distinct DEF TokenInv
<1>5. ResultInv'
  BY DEF ResultInv, OnlyTheRightCan, BlamesTheCan
<1>6. KeysInv'
  BY Distinct DEF Replied, KeysInv
<1>7. OnceInv'
  BY DEF OnceInv, SessionUsable
<1>8. QuietInv'
  BY DEF QuietInv, UndisturbedResult
<1> QED
  BY <1>1, <1>2, <1>3, <1>4, <1>5, <1>6, <1>7, <1>8

LEMMA DamageInv == ASSUME IInv, Damage PROVE IInv'
<1> USE DEF Damage, token, chip, IInv
<1>1. TypeOK'
  BY KeyTypes DEF TypeOK, Reply
<1>2. AirInv'
  BY Distinct DEF AirInv
<1>3. RunInv'
  BY DEF RunInv, Replied, ThisRun
<1>4. TokenInv'
  BY DEF TokenInv
<1>5. ResultInv'
  BY DEF ResultInv, OnlyTheRightCan, BlamesTheCan
<1>6. KeysInv'
  BY DEF Replied, KeysInv
<1>7. OnceInv'
  BY DEF OnceInv, SessionUsable
<1>8. QuietInv'
  BY DEF QuietInv, UndisturbedResult
<1> QED
  BY <1>1, <1>2, <1>3, <1>4, <1>5, <1>6, <1>7, <1>8

LEMMA StutterInv == ASSUME IInv, UNCHANGED vars PROVE IInv'
<1> USE DEF vars, token, chip, IInv
<1>1. TypeOK'
  BY DEF TypeOK
<1>2. AirInv'
  BY DEF AirInv
<1>3. RunInv'
  BY DEF RunInv, Replied, ThisRun
<1>4. TokenInv'
  BY DEF TokenInv
<1>5. ResultInv'
  BY DEF ResultInv, OnlyTheRightCan, BlamesTheCan
<1>6. KeysInv'
  BY DEF Replied, KeysInv
<1>7. OnceInv'
  BY DEF OnceInv, SessionUsable
<1>8. QuietInv'
  BY DEF Replied, QuietInv, UndisturbedResult
<1> QED
  BY <1>1, <1>2, <1>3, <1>4, <1>5, <1>6, <1>7, <1>8

LEMMA StepInv == ASSUME IInv, [Next]_vars PROVE IInv'
<1>1. ASSUME NEW c \in Cans, Tunnel(c) PROVE IInv'
  BY <1>1, TunnelInv
<1>2. CASE Host
  BY <1>2, SendInv, SelectedInv, GotNonceInv, MappedInv, AgreedInv, ChipVerifiedInv, WrongCanInv,
     OtherFailureInv DEF Host
<1>3. CASE Card
  BY <1>3, CardSelectsInv, CardExchangesInv, CardStartsSessionInv, CardRefusesTokenInv,
     CardFailsInv DEF Card
<1>4. CASE LoseCommand \/ LoseReply \/ Damage
  BY <1>4, LoseCommandInv, LoseReplyInv, DamageInv
<1>5. CASE UNCHANGED vars
  BY <1>5, StutterInv
<1> QED
  BY <1>1, <1>2, <1>3, <1>4, <1>5 DEF Next

LEMMA InvariantHolds == Spec => []IInv
BY InitInv, StepInv, PTL DEF Spec

-----------------------------------------------------------------------------
(* The theorems *)

\* tunnel() ends in one of its documented exceptions, and keys are those of a key
\* exchange.
THEOREM TypeCorrect == Spec => []TypeOK
<1>1. IInv => TypeOK
  BY DEF IInv
<1> QED
  BY <1>1, InvariantHolds, PTL

\* tunnel() returns only to a caller with the card's own CAN.
THEOREM OnlyTheRightCanHolds == Spec => []OnlyTheRightCan
<1>1. IInv => OnlyTheRightCan
  BY DEF IInv, ResultInv
<1> QED
  BY <1>1, InvariantHolds, PTL

\* After a token's first success, token and card hold the same keys and counter.
THEOREM SessionUsableHolds == Spec => []SessionUsable
<1>1. IInv => SessionUsable
  BY DEF IInv, OnceInv
<1> QED
  BY <1>1, InvariantHolds, PTL

\* The user is told of a wrong CAN only if it was wrong, or its nonce came damaged.
THEOREM BlamesTheCanHolds == Spec => []BlamesTheCan
<1>1. IInv => BlamesTheCan
  BY DEF IInv, ResultInv
<1> QED
  BY <1>1, InvariantHolds, PTL

\* Without a failure of card or link, the result of tunnel() depends on the CAN alone.
THEOREM UndisturbedResultHolds == Spec => []UndisturbedResult
<1>1. IInv => UndisturbedResult
  <2>1. ASSUME IInv, pc = "idle", attempt > 0, ~disturbed, ~reused
        PROVE  result = IF can = CardCan THEN "ok" ELSE "PaceTunnelException"
    BY <2>1 DEF IInv, QuietInv, UndisturbedResult
  <2> QED
    BY <2>1 DEF UndisturbedResult
<1> QED
  BY <1>1, InvariantHolds, PTL

\* A tunnel's keys are newer than those of every earlier one, on both sides.
THEOREM FreshKeysHold == Spec => FreshKeys
<1>1. ASSUME IInv, Next, keys' # keys
      PROVE  keys'.host > keys.host /\ keys'.card > keys.card
  <2>1. ChipVerified
    BY <1>1 DEF Next, Host, Card, Tunnel, Send, Selected, GotNonce, Mapped, Agreed, WrongCan,
       OtherFailure, ExchangeFailed, Throw, CardSelects, CardExchanges, CardStartsSession, CardRefusesToken,
       CardFails, LoseCommand, LoseReply, Damage, token
  <2>2. keys' = agreed /\ pc = "auth"
    BY <2>1 DEF ChipVerified
  <2>3. keys' = [nonce |-> nonce, host |-> attempt, card |-> run]
    BY <1>1, <2>2 DEF IInv, RunInv
  <2>4. keys.host < attempt /\ keys.card < run
    BY <1>1, <2>2 DEF IInv, KeysInv
  <2>5. keys.host \in Nat /\ keys.card \in Nat /\ attempt \in Nat /\ run \in Nat
    BY <1>1, KeyTypes DEF IInv, TypeOK
  <2> QED
    BY <2>3, <2>4, <2>5
<1>2. IInv /\ [Next]_vars => [keys' # keys => keys'.host > keys.host /\ keys'.card > keys.card]_vars
  BY <1>1
<1> QED
  BY <1>2, InvariantHolds, PTL DEF Spec, FreshKeys
===============================================================================
