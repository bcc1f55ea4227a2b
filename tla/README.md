# Verification of nfc-Android-lib

TLA+ modules, TLC configurations and TLAPS proofs for the Android libraries that talk to
Estonian ID cards over NFC and USB. Sources are under `src/`; every definition that models
code is tied to its lines in `PROJECT.json`, under `map`.

## The system

| Component | Source | State | Operations | Module |
|---|---|---|---|---|
| NFC manager | `nfc/NfcSmartCardReaderManager.java` | `nfcAdapter`, `currentActivity`, `clientCallback`; reader mode of the activity (Android) | `startDiscovery`, `onTagDiscovered`, `disableNfcReaderMode`, `detectNfcStatus` | `NfcReaderManager` |
| NFC reader | `nfc/NfcSmartCardReader.java` | the `IsoDep` connection, `apduEncryptor` | `transmit`, `setApduEncryptor`, `close`, `connected`, `atr` | `SecureChannel` |
| Plain APDU transport | `SmartCardReader.java` | none | `transmit` (chaining, GET RESPONSE) | `PlainTransport` |
| PACE tokens | `ID1WithPace.java`, `ThalesWithPace.java` | `keyEnc`, `keyMAC`, `ssc` | `tunnel`; `encryptAndMac`, `decryptAndVerify` | `PaceTunnel`; `SecureChannel`, `SecureMessagingCodec`, `Octets` |
| Tokens | `ID1.java`, `Thales.java` | none of their own; the card's selected application, verified codes, security environment, counters | `personalData`, `certificate`, `codeRetryCounter`, `changeCode`, `unblockAndChangeCode`, `calculateSignature`, `authenticate`, `decrypt`, `pinChangedFlag` | `Token` with `ID1`, `Thales`, `CardCommand`; `CardFile` |
| Token factories | `Token.java`, `TokenWithPace.java` | none | `create` | `Token!Init` (what they select) |
| TLV, parsers, utilities | `TLV.java`, `*PersonalDataParser.java`, `DateOfBirthUtil.java` | none | pure functions | `Tlv`, `PersonalDataParser` |
| USB manager | `usb/UsbSmartCardReaderManager.java`, `usb/UsbSmartCardReaderOnSubscribe.java` | current device and reader, status observable, field `reader` | broadcasts, polling, `connectedReader` | `UsbManager` |
| USB readers | `usb/*UsbSmartCardReader.java` | vendor reader | `open`, `close`, `connected`, `transmit` | `UsbManager` (ACS) |
| Demo application | `demoapp/app` | view model, container, manager per fragment | three sessions: card data, authentication, signature | client in `NfcReaderManager` |

How they interact. The UI thread calls `startDiscovery`; Android calls `onTagDiscovered` on
a binder thread, which connects a reader and calls the client's `onNfcReader`. The callback
creates a token, calls `tunnel(can)`, and then token operations; each of them is a series of
`reader.transmit` calls that block until the card's answer or an `IOException` is back. After
`tunnel` the reader has the token as its `ApduEncryptor`, and every `transmit` calls back into
the token to protect the command and to verify the response. At the end the manager closes
the reader and disables reader mode. Over USB, receivers on the main thread choose the device,
a timer polls its reader, and a client's thread asks `connectedReader` for a reader whose
`transmit` is the plain one.

What is hard in it:

* the send sequence counter of the token and that of the card have to stay in step over
  commands that are lost, answers that are lost, error statuses, chained commands and
  responses in pieces; an error shows at the next command, not at the one that made it;
* `transceive` may throw after the card has acted;
* `tunnel` may fail at any of six exchanges, the card's session may be open when it throws,
  and it may be called again;
* the NFC manager's fields are shared between two threads with no synchronisation, and reader
  mode belongs to an activity, not to a session or to a manager; the USB manager's field is
  shared between three;
* the tokens rely on state of the card that earlier calls left behind;
* files are read in answers of any length until a status word or an announced size ends it.

What makes each component correct:

* NFC reader and codec: returned data answers this call, and the card has carried the call
  out at most once and whole; no counter value is used twice; a failed call ends in an
  exception; the two counters differ only by what the card missed; padding and lengths
  come back as they were.
* Plain transport: commands and answers whole and in order, and no error of its own.
* PACE tunnel: a returned `tunnel` means equal keys and counters on both ends, and the
  card's own CAN; its result depends on the CAN alone when nothing is lost.
* NFC manager: a started session stays monitored until its work on a card begins, does this work
  once, and no thread meets a null field.
* Tokens: file loops end with the whole file; attempts reported are those of the card; a call
  costs no other attempt; a result takes the right code, and the right code gets the result,
  whatever earlier calls left behind.
* USB manager: at rest the status, the field and the open vendor reader are those of the last
  choice; a card that stays is noticed.

## Modules

**`AuthenticatedExchange`** is the promise of a transport to the code that calls `transmit`,
and translates no code: a call is made, the card carries it out at most once and with all its
data while the call is open, a call that returns data was carried out, and any call may end in
an exception instead. `SecureChannel` and `PlainTransport` both implement it.

**`SecureChannel`** is `NfcSmartCardReader.transmit` once the encryptor is set, with
`encryptAndMac` and `decryptAndVerify` behind it. `pc` is the place of the one calling thread:
`send` in the chaining loop, `chunk` and `answer` in `transceive`, `more` in the unprotected
GET RESPONSE, `nested` in the protected one that follows when the answer is `61xx` again
(`super.transmit` calls `transmit`, which is virtual). `remaining`, `parts` (the concatenated
response) and `ssc` are the code's; `outcome` says how the call ended: data, a status word
(`ApduResponseException`), an `IOException`, a `RuntimeException` (MAC) or a
`SmartCardReaderException` of the parser ("malformed"; decryption and parsing come before the
MAC is verified). A protected APDU is abstracted to the counter of its MAC and to whether its
length fields can be read (`Fits`, from `getDo8587` and `encryptAndMac`): keys are equal on
both ends after the tunnel, so a MAC verifies exactly when the counters are equal and nothing
was damaged.

**`PlainTransport`** is `SmartCardReader.transmit` without an encryptor: the chaining loop,
which looks at no answer but the last, and GET RESPONSE by recursion. Data is positions, so
that a part left out, repeated or put in the wrong place shows. The constant `Faults` names two
things a card may do with an unfinished chain beyond forgetting it.

**`SecureMessagingCodec`** with **`Octets`** is `encryptAndMac` and `decryptAndVerify` octet by
octet (DO87, DO97, DO99, DO8E, the three forms of a length, `pad`, `unpad`, `incrementSSC`),
against a card that reads and encodes as ISO 7816-4 says. A ciphertext is its plain octets
shifted out of the range of octets; a MAC carries what it covers beside it. It justifies what
`SecureChannel` abstracts.

**`PaceTunnel`** is `tunnel` with `establishPace` of both token classes, which differ only in
curve, lengths and the first SELECT. One action per answer received, and `ExchangeFailed` for the
exception that takes its place; fields and encryptor change only when the chip's token has verified.
Symbolic cryptography: the nonce carries the CAN it was decrypted with, a key is the triple of nonce
and ephemeral keys, and a token verifies under the key it was made with. `reused` records a `tunnel`
on a token that has one.

**`NfcReaderManager`** is `NfcSmartCardReaderManager` on two threads; each read or write of a
shared field is a step of its own (`pc[t]`). The client is that of `CardReaderFragment`.
With a reader, its callback enters a `try` block that begins the work on the card and calls
`disableNfcReaderMode` in `finally`; an exception it does not catch leaves through this block
(`ClientThrows`). Before the block it calls `requireActivity`, which throws in a fragment that has
been detached (`ClientThrowsAtOnce`): nothing is closed or disabled, and the next tag calls it
again. The device has NFC, so `NFC_NOT_SUPPORTED` occurs only when a
field is found null under the call. Both threads may enter any manager at any time; `overlap`
records whether they have been in managers at one time, each in its own ("apart") or in one
("same"), and the properties say which of these they bear.

**`Token`** is a token over a card. **`ID1`** and **`Thales`** give each operation as its script
of C-APDUs, written with the operators of **`CardCommand`**; `Token` runs it one C-APDU a step,
against a card with applications, verified codes, security environments, a collected hash and
counters, which may fail at any C-APDU and lose its power at any moment. `ApduError` is
`handleApduResponseException`, and `catch` around READ BINARY, which wraps the error in a
`SmartCardReaderException`. `outcome` says how a call ended: in a result, in an exception of the
library, in a `RuntimeException` that passes the library (of the secure channel, in
`TransmitFails`; of a parser, or of an answer without its counter, in `Unreadable`), or in the
`NullPointerException` of a PUK that is not there.

**`CardFile`** is the loop of `ID1.certificate`, which ends at status word 6B00, and that of
`Thales.readFile`, which ends at the announced size: offsets in P1 and P2, answers of any length.

**`Tlv`** is `parseTLVRecursive` and `from` as Thales uses them: on file control information and
code information, whole or cut off. The card builds its answer field by field (`Put`), and keeps
in `ends` where each field ends. The parser takes one object a step: `calls` is the stack of the
calls of `parseTLVRecursive`, `Turn` a turn of the loop, which calls the parser for a constructed
object, and `Return` a return. Only what the second call on the stack finds gets into the list
that the outermost one returns (`Returned`). **`PersonalDataParser`** is how `parse` comes to a
date of birth; it takes codes of digits.

**`UsbManager`** is the USB manager on its threads: receivers (main), the repeated poll and
`switchMap`'s drain loop (main or timer), `map`'s writes, and `connectedReader` with its three
reads of the field (client).

The card, `IsoDep.transceive`, Android, RxJava and the vendor's library are external. What is
assumed of them: the card counts two for every protected command that authenticates, whatever
its status word; it does not carry out a command that does not authenticate, and may then drop
the session; it serves an unprotected GET RESPONSE in the session; leaving the field ends the
session; in the key exchange an unprotected command ends an older session. A protected GET
RESPONSE is either refused or answered with the next piece protected on its own. `transceive`
returns the card's answer, possibly damaged, or throws, whether or not the card has acted, and
it ends, because `setTimeout` bounds it. Callbacks of the NFC service come one after the other.
An answer with 9000 to READ BINARY is not empty. PIN2 serves one signature, and is no longer
verified when another application is selected.

## Runs

Every run has its `.cfg`, and extends the module it checks by an `MC` module that gives the
instances; `parsers` runs `Tlv` and `PersonalDataParser` side by side, which share no state. All
set `CHECK_DEADLOCK FALSE`: a client may stop calling at any point, users may stop, and the modules
of pure functions end after one answer.

| Run | Bounds | Shows |
|---|---|---|
| `channel` | data of 0, 111 and 256 bytes; up to 3 pieces; counter below 21 | `CounterGap`, `AnswersTheCall`, `WholeCommands`, `OneMissEndsTheChannel`, `MacFailureMeansDamage`, `FreshCounters`; `CallsEnd`; `ImplementsExchange` |
| `chaining` | data of 112, 255, 256, 511 bytes | violation of `ChainingWorks` |
| `pace` | 2 CANs, 4 calls of `tunnel` | `SessionUsable`, `OnlyTheRightCan`, `UndisturbedResult`, `BlamesTheCan`, `FreshKeys`; `TunnelEnds` |
| `manager` | 2 managers on 1 activity, both threads at any time, 3 sessions, 2 switches of NFC | `Monitors`, `WorkOncePerSession`, `NoNullField` |
| `manager_overlap` | 1 manager on 1 activity, 2 sessions | violation of `DisabledAfterSuccess` |
| `plain` | data of 0, 255, 256, 510, 511, 766 bytes; up to 3 pieces; 3 calls; cards that forget an unfinished chain | `WholeCommands`, `WholeAnswers`, `UndisturbedReturns`; `ImplementsExchange` |
| `usb` | 2 devices, 6 events | `TypeOK`, `LastChoiceWins`, `OpenOnCurrent`; `CardNoticed` |
| `usb_race` | the same | violation of `ReaderOrException` |
| `file` | bytes of 8 values, so files of 0 to 31 bytes; at most 7 at once | `WholeFile`, `ThrowsOnFailure`; `ReadEnds` |
| `token` | both tokens, 3 attempts for each code, 2 hashes | `AttemptsReported`, `OneAttemptPerCall`, `RightCodeRequired`, `RightCodeWorks`, `TheSignature` |
| `parsers` | answers of up to 3 fields, of 11 kinds, in every order, cut anywhere; personal codes of four centuries, every month, days around its ends, and digits that are no date | `SizeAnnounced`, `FieldReported`, `DigiIdRead` |
| `codec` | 4 commands, 18 answers, counters before and at a carry and at their end; answers changed or cut | `CommandHeard`, `AnswerReturned` |

Why the bounds are enough. In `channel` 111 bytes is the most one protected C-APDU carries, 256
takes one chained C-APDU, and 0 has no data object: the three paths through `transmit`. Three
pieces reach the nested GET RESPONSE. The counter leaves room for four calls and more, which is
what it takes to lose a command, go on, and meet a late consequence. Four calls of `tunnel` allow
a failure that leaves a session open on the card, a wrong CAN, a success, and a call through the
tunnel it opened. Two managers and three sessions let one manager replace another on the activity
and the first come back, with the other thread still in it. In `plain` the lengths stand on both
sides of one, two and three chunks. Two devices and six events let a device go while the other
is asked about, come back without permission, and a subscription end and begin again between. In
`file` an offset takes two bytes from 8 on, and the last file ends at the limit of what can be
addressed. Three attempts block a code and leave it one short of it; with two hashes a signature
over an earlier one would show. The lengths of `codec` stand on both sides of the block size and
of the one-byte, two-byte and three-byte forms of a length; data consists of zeros or of padding
octets, which is what `unpad` could confuse.

Bounds that the modules set: `CounterRoom` (a call of `SecureChannel` starts only if its counters
do not wrap; the code's counter has 128 bits and would wrap silently), `MaxAttempts`,
`MaxSessions`, `MaxSwitches`, `MaxCalls`, `MaxEvents`, `MaxFields`, in `Tlv` the 127 octets of an
answer's value, in `SecureMessagingCodec` the octets of an answer that are changed, commands of at
most 111 octets, answers of at most 65518 and a counter of two octets (the code's has a block), and
in `UsbManager` that a new subscription waits for the stream of the
last one to come to rest.

History variables. `reused` (a `tunnel` on a token that has one), `used` (the counters that both
ends have protected APDUs with), `overlap` (where the manager's threads have been at one time),
`served` and `again` (the sessions that have begun their work on a card, and whether one began it
twice), `faulted` and `disturbed` (card or link has failed), `executed` and `req` (what the card
carried out, for which call), and `before` (the card when the call began) are no state of the code.
`SessionUsable` is stated up to the first `reused`, `Monitors`, `WorkOncePerSession` and
`NoNullField` up to the overlap each cannot bear: beyond it they fail, as described below, and the
model goes there.

Fairness. `FairSpec` of `SecureChannel`, `PaceTunnel` and `PlainTransport`: `WF(Host)`, the
calling thread, which runs alone, goes on; `WF(Card \/ LoseCommand)`, a pending `transceive`
returns or throws, since `NfcSmartCardReader` sets its timeout. `CardFile`: the same for the loop
and for each of its C-APDUs. `UsbManager`: the main thread handles its broadcasts, the drain loop
runs on, the timer fires (`repeatWhen` with a delay) and a poll returns. Nothing is assumed of
losses, of clients and users, or of the card answering well.

### What the three violation runs show

* `chaining`: `SmartCardReader` says of `transmit` that it "Automatically handles message
  chaining". With the encryptor, a chained C-APDU cannot be read by a card: length fields of one
  byte overflow. The limit is in fact 111 bytes. `WholeCommands` holds in the code as it is
  *because* no chained C-APDU is accepted: if `Fits` is corrected alone (its mutant), the loop's
  ignored answers let the card carry out a tail of the data.
* `usb_race`: `connectedReader` reads the field three times while the stream's thread sets it to
  null; it ends in a `NullPointerException`, or returns null.
* `manager_overlap`: `onTagDiscovered` says that it "calls the client callback and after success
  disables the reader mode". While the binder thread is between disabling reader mode and dropping
  the fields, `startDiscovery` on the UI thread sets them and enables reader mode; the fields then
  are dropped under the new session. It is served and ends in success, finds the fields null, and
  leaves reader mode on. `WorkOncePerSession` stops at this overlap, and fails beyond it.

### Other behaviour that a reader of the code should know of

These are in the modules, and the properties are stated around them.

* A comment says that GET RESPONSE must be unencrypted; from the third piece of a response on it
  is not (`nested` of `SecureChannel`). With responses of at most 256 bytes two pieces are the
  rule.
* A MAC that does not verify ends in a `RuntimeException`, outside the exceptions that the
  library's README describes, and so does personal data that the parser cannot read.
* `tunnel` on a token that has its tunnel succeeds, and leaves `ssc` where the six exchanges
  brought it, while the card's counter starts anew (`reused` of `PaceTunnel`): no call after it
  succeeds.
* `startDiscovery` while an earlier session's callback is on the binder thread may be switched off
  by that session's end, although the managers differ; if both are in the same manager, a field
  may be null under one of them, or the callback run twice (`overlap` of `NfcReaderManager`).
* A callback that throws before its `try` block leaves reader mode on and the connection open, and
  is called again at the next tap (`ClientThrowsAtOnce`).
* `Token` says of `unblockAndChangeCode` that a PIN that is "not blocked yet ... will be blocked
  before unblocking". Neither token does this: the PIN is unblocked as it is, and the call costs it
  no attempt. `OneAttemptPerCall` states what the code does.
* `Thales.changeCode` refuses the PUK, which `Token` names among the codes it changes.
* A plain card that refuses a chunk, or keeps an unfinished chain over a failure, may carry out a
  part of a command, or two commands as one, because the loop looks at no answer but the last
  (`Faults = {"refused"}` or `{"kept"}` of `PlainTransport`; `WholeCommands` then fails).
* The USB status is `IDLE` after the current device went, although another is attached.
* `ID1.unblockAndChangeCode` does not verify the PUK, so that a card that wants it verified
  refuses. `Thales.unblockAndChangeCode` without a PUK ends in a `NullPointerException`.
* `Thales.authenticate` and `decrypt` select no application. Over NFC, where `Token.create` has
  not selected one, they succeed only after another operation has (`Entitled` of `Token`).

## Proofs

Eight modules prove theorems about the modules for every value of their constants. Each states an
inductive invariant `IInv`, with one lemma for each action; the parts that are not obvious were
checked with TLC first. Assumptions are the named `ASSUME`s of the modules, and where a theorem
needs more it says so in its statement.

**`SecureChannel_proofs`**: `CounterGap`, `AnswersTheCall`, `OneMissEndsTheChannel`,
`WholeCommands` (`ExecutionHolds`), `FreshCounters`, `MacFailureMeansDamage`, type correctness, and
`Refinement`: `Spec` implies `Exchange!Spec`. `AnswersTheCall` is not inductive: it needs to know,
while a reply is in the air, that the card has just carried out the open call. `IInv` adds
`AirInv` (at most one APDU is in the air, in the place of `transmit` that fits it, and a protected
one carries the counter just below `ssc`), `UsedInv` (the counters used so far are distinct, and none is newer
than the counter that its end stands at), `RoomInv` (the counter has room for what the open call
may still send), `ChainInv` (a call that has sent a chunk has missed it, or has it in the air, for
no chunk fits), `AnswerInv` (a piece in the air, or in `parts`, answers the open call, which the
card ran) and `OrderInv` (nothing the card has run is newer than the open call, and nothing is as
new before the call's last C-APDU is out). The key step is arithmetic: by `CounterGap` the C-APDU
in the air carries `cardSsc + 1 + 2 * missed`, so the card authenticates it only if `missed` is
zero. `MacFailureMeansDamage` takes one part more, `PieceInv`: the pieces that GET RESPONSE without
protection puts together are of one response, in their order, under the counter as it is. In
`Refinement` the card's execution of the last C-APDU is `Run`, the returning steps are `Return`,
the throwing ones `Throw`, and everything else stutters.

**`PlainTransport_proofs`**: `WholeAnswers` and `UndisturbedReturns` for every card; `WholeCommands`
and `Refinement` for cards that take every chunk and forget an unfinished chain (`Faults = {}`).
`LoopInv` says how much of the data is in the air and how much is left, which is never nothing, so
that the last C-APDU of a chain has data (`AlwaysReadable`); `ChainInv` says that the card
has collected what the loop has sent.

**`PaceTunnel_proofs`**: `OnlyTheRightCan`, `SessionUsable`, `BlamesTheCan`, `UndisturbedResult`,
`FreshKeys` and type correctness, for any CANs and number of calls. `RunInv` ties what the token
has computed to this call and to the card's last run, `TokenInv` the chip's token to the session
the card has just started, `KeysInv` says that keys in use are older than the exchange under way,
`OnceInv` that a client which stops at success never sends through its tunnel, and `QuietInv` that
a call which nothing disturbs sees no failure.

**`NfcReaderManager_proofs`**: `TypeOK` and `NoNullField` for any managers and activities
(`Places`, `Callbacks`, `Apart`, `Fields`); `WorkOncePerSession` and `Monitors` if there is one
activity, which the theorems assume (`OneActivity`), as the run does. `ModeInv` says which manager
the activity's reader mode belongs to (`Monitoring`), that a session which has been served is
monitored only while its callback runs (`Served`), and that the session that waits is the one that
is monitored (`Waiting`).

**`UsbManager_proofs`**: `TypeOK`, `LastChoiceWins` and `OpenOnCurrent`, for any devices and number
of events. `SourceInv` ties the stream's source to the main thread's choice, `DrainInv` says that a
value not yet mapped has a thread that will map it, `OutputInv` that field and status are of the
last value taken, `LatestPoll` that an older poll has been dropped. `OpenOnCurrent` needs the queue
of intents: `GrantInv`, a permission is taken back only with an intent that comes after the one
that gave it, and `HeldInv`, the reader is open on the current device or an intent that changes
this is in the queue.

**`CardData_proofs`** is about the three modules of what is read from the card. Of `CardFile`:
`WholeFile`, `ThrowsOnFailure` and type correctness, for every length that can be addressed, number
of byte values and cut into answers; `OffsetFits` is the arithmetic of P1 and P2. Of `Tlv`:
`SizeAnnounced` and `FieldReported`, for any fields and tags, in any number and order, and an answer
that is cut anywhere. `InfoInv` says how far the parser is: its first call is before the one object
of a whole answer or behind it (in a cut answer it finds no object, as `NothingInAPart` shows), and
its second call stands at the end of the fields that it has put into `records`, which are the card's
first ones. That it stands at the start of a field is why it reads that field, and neither a part of
it nor something nested; a deeper call changes nothing of this. Of `PersonalDataParser`:
`DigiIdRead`, for all codes and dates. The three modules have no name in common, so that one module
can extend them all; each theorem is about one of them, and needs only the named assumptions of it.

**`Token_proofs`**: `OneAttemptPerCall`, `RightCodeRequired`, `AttemptsReported`, `TheSignature`
and type correctness, for both tokens, any hashes, and one to three attempts. `ScriptInv` says that
a script consists of commands that check no other code than the call passes (`CommandsOf`), which
`IdemiaScript` and `GemaltoScript` show of every operation. `CodeInv`: either the code is right, or
the script still holds a command that only the right one gets past. `TriesInv`: as long as the call
is open it has cost nothing, since a wrong code ends it. `PukInv`: no token ever verifies the PUK,
so that `unblock` is refused. `CounterInv` keeps the command that `codeRetryCounter` ends with. For
`TheSignature`, `SignInv` counts a script from its end: past the command that sets the key the card
has that key or, after a reset, none, and past the hash it has that hash or no key. What the card
answers is one lemma, `ResponseGood`, which the step of a failed `transmit` uses as well.
`RightCodeWorks` is about what is still to come: `WorksInv` says that, as long as nothing disturbs a
call with the right code, each command left in its script is one that the card allows in the
application it will then be in (`Allowed`, `Target`), finds what it needs (a file, a verified code,
the key of its operation) in the card as it is or supplied by a command before it in what is left
(`Supplied`), and that these commands stand in an order in which nothing takes it away (`Ordered`).
That this holds of the script a call starts with is shown of each operation of each token, whatever
state the card is in.

**`SecureMessagingCodec_proofs`**: `CommandHeard` and `AnswerReturned`, for all commands and answers
within the module's bounds, every value of the counter and every `le`. Its first part is about
`Octets`: `pad` fills whole blocks, can be undone by `unpad` (also for data that ends in padding
octets), and never makes two data one (`PadInjective`); `incrementSSC` always changes the counter,
never maps two counters to one, and counts as the card does. `CodecInv` then has four parts. Outside
a command the two counters are equal (`CounterInv`). A command in the air is the encoding, under the
card's next count, of what was called (`CommandInv`), so that the card's decoder, followed object by
object, hears the call. The MAC of an answer in the air covers what the card has sent, even if the
answer was damaged (`AnswerInv`): by `PadInjective` an answer that is accepted begins with the
objects that were sent, and they read back as the card's data in each form of a length. They are
what `SecureChannel` rests its abstract counter and lengths on.

Only model-checked. All liveness: `CallsEnd`, `TunnelEnds`, `ReadEnds`, `CardNoticed`, and the
fairness part of `ImplementsExchange`, which are out of the prover's reach. The invariants of all
passing runs are proved; `WorkOncePerSession` and `Monitors` for one activity, and `WholeCommands`
of `PlainTransport` for cards without the two faults, as their runs have it.

## Not modelled

* The vendored `libdigidocpp` under `src/demoapp`: some 270 000 lines of headers of it and of the
  libraries it uses, with binaries. They are nearly all of the repository's lines, so that the
  share of lines that `PROJECT.json` maps is close to zero although the library's own classes are
  covered.
* `AlgorithmUtils`, a table of constants; logging; user interface, navigation and resources of the
  demo; the container of a signature, which is `libdigidocpp`'s.
* Elliptic curves, AES and CMAC are symbolic or opaque.
* `detectNfcStatus` and `ID1.pinChangedFlag`, which change nothing; the comparison of the
  historical bytes in the factories; `atr`, `connected` and `close` of the NFC reader, which pass
  straight to `IsoDep`.
* `IdentivUsbSmartCardReader`, whose `supports` works through its vendor's library; several vendors
  at once.
* `TLV.encode`, a concatenation, and `sequenceOfRecords`, which nothing calls; TLV lengths of 128
  and more.
* Fields of personal data other than the date of birth: they are copied.
* Commands of more than 111 bytes in `codec`: their data objects cannot be read, which is what
  `chaining` shows.
* One manager on two activities: the demo makes one per fragment.
* One tap from discovery to the end of a signature as one module. The parts meet at narrow
  interfaces (a reader, a token with its keys and counter), which the modules state on both sides.

## Plan

1. `NfcSession`: `NfcReaderManager`, `PaceTunnel`, `SecureChannel` and `Token` composed into one
   tap, over `AuthenticatedExchange`.
2. A second vendor in `UsbManager`, with the order in which `supports` is asked.
