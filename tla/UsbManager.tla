------------------------------ MODULE UsbManager ------------------------------
(***************************************************************************)
(* UsbSmartCardReaderManager with UsbSmartCardReaderOnSubscribe: broadcasts *)
(* on the main thread choose the current device, switchMap polls its reader *)
(* on a timer thread, map writes the field "reader" and the status, and a   *)
(* client's thread calls connectedReader.                                  *)
(*                                                                         *)
(* All devices are supported by one vendor reader object, as with           *)
(* AcsUsbSmartCardReader, which is open on one device at a time.  Android,  *)
(* RxJava and the vendor's library are external.                           *)
(***************************************************************************)
EXTENDS Naturals, Sequences

CONSTANTS
    Devices,       \* USB devices
    NoDevice,
    MaxEvents      \* bound on what users do to devices, cards and subscriptions

ASSUME DeviceAssumption == NoDevice \notin Devices
ASSUME EventsAssumption == MaxEvents \in Nat

VARIABLES
    attached, permitted, asked, withCard,   \* Android's view of the devices
    broadcasts,    \* intents for the receivers, in order
    events,        \* counts what users did
    subscribed,    \* are the receivers registered?
    currentDevice,
    hasCurrent,    \* currentReader # null
    opened,        \* the device that the vendor reader is open on
    inner,         \* what switchMap's active source emits: nothing, absent, present
    generation,    \* which one that is
    queued,        \* has it emitted what is not drained yet?
    drainer,       \* the thread in switchMap's drain loop
    mapping,       \* what that thread has in map(), and where
    polling,       \* the generation that the timer thread polls, or 0
    field,         \* reader # null
    status,        \* last status emitted
    caller         \* where connectedReader is, or how it ended

android == <<attached, permitted, asked, withCard, events>>
current == <<subscribed, currentDevice, hasCurrent>>
stream  == <<inner, generation, queued, drainer>>
output  == <<mapping, field, status>>
vars == <<android, broadcasts, current, opened, stream, output, polling, caller>>

-----------------------------------------------------------------------------

Intents == [action : {"attached", "detached", "granted"}, device : Devices]
Intent(action, d) == [action |-> action, device |-> d]

Returns == {"reader", "exception", "null", "NullPointerException"}

\* Types: currentDevice is null exactly if currentReader is.
TypeOK ==
    /\ attached \subseteq Devices /\ permitted \subseteq attached
    /\ asked \subseteq attached /\ withCard \subseteq Devices
    /\ broadcasts \in Seq(Intents)
    /\ events \in 0 .. MaxEvents
    /\ subscribed \in BOOLEAN
    /\ currentDevice \in Devices \cup {NoDevice}
    /\ hasCurrent = (currentDevice # NoDevice)
    /\ opened \in Devices \cup {NoDevice}
    /\ inner \in {"nothing", "absent", "present"}
    /\ generation \in Nat /\ queued \in BOOLEAN
    /\ drainer \in {"none", "main", "timer"}
    /\ mapping \in {"none", "absent", "present", "connected"}
    /\ polling \in Nat
    /\ field \in BOOLEAN
    /\ status \in {"none", "IDLE", "READER_DETECTED", "CARD_DETECTED"}
    /\ caller \in {"idle", "tested", "connected"} \cup Returns

Init ==
    /\ attached \in SUBSET Devices /\ permitted = {} /\ asked = {} /\ withCard = {}
    /\ broadcasts = <<>> /\ events = 0
    /\ subscribed = FALSE /\ currentDevice = NoDevice /\ hasCurrent = FALSE
    /\ opened = NoDevice
    /\ inner = "nothing" /\ generation = 0 /\ queued = FALSE /\ drainer = "none"
    /\ mapping = "none" /\ field = FALSE /\ status = "none"
    /\ polling = 0 /\ caller = "idle"

-----------------------------------------------------------------------------
(* Android and its users (external) *)

Event == events < MaxEvents /\ events' = events + 1

Broadcast(intent) ==
    broadcasts' = IF subscribed THEN Append(broadcasts, intent) ELSE broadcasts

Attach(d) ==
    /\ Event /\ d \notin attached
    /\ attached' = attached \cup {d}
    /\ Broadcast(Intent("attached", d))
    /\ UNCHANGED <<permitted, asked, withCard, current, opened, stream, output, polling, caller>>

\* Permission is for one stay of a device.
Detach(d) ==
    /\ Event /\ d \in attached
    /\ attached' = attached \ {d}
    /\ permitted' = permitted \ {d} /\ asked' = asked \ {d}
    /\ Broadcast(Intent("detached", d))
    /\ UNCHANGED <<withCard, current, opened, stream, output, polling, caller>>

\* The user permits the app to use the device; or never answers.
Permit(d) ==
    /\ d \in asked
    /\ asked' = asked \ {d}
    /\ permitted' = permitted \cup {d}
    /\ Broadcast(Intent("granted", d))
    /\ UNCHANGED <<attached, withCard, events, current, opened, stream, output, polling, caller>>

MoveCard(d) ==
    /\ Event
    /\ withCard' = IF d \in withCard THEN withCard \ {d} ELSE withCard \cup {d}
    /\ UNCHANGED <<attached, permitted, asked, broadcasts, current, opened, stream, output,
                   polling, caller>>

-----------------------------------------------------------------------------
(* The vendor's reader *)

\* connected(): opened, and the card powered.
Connected == opened \in attached /\ opened \in withCard

\* reader(device), and supports(device), which calls it: opens the reader on a
\* device that the app may use.
OpenedFor(d, before) == IF d \in permitted THEN d ELSE before

-----------------------------------------------------------------------------
(* Receivers, on the main thread *)

MainFree == drainer # "main"

\* requestPermission: at once, if the app has it.
RequestPermission(d, rest) ==
    /\ broadcasts' = IF d \in permitted THEN Append(rest, Intent("granted", d)) ELSE rest
    /\ asked' = IF d \in attached \ permitted THEN asked \cup {d} ELSE asked

\* emitter.onNext: switchMap drops its source for a new one, whose first value comes
\* from this thread; the thread in the drain loop, or this one, takes it on.
Emit(value) ==
    /\ inner' = value
    /\ generation' = generation + 1
    /\ queued' = TRUE
    /\ drainer' = IF drainer = "none" THEN "main" ELSE drainer

Receive(action, d) ==
    /\ subscribed /\ MainFree
    /\ broadcasts # <<>> /\ Head(broadcasts) = Intent(action, d)

OnAttached(d) ==
    /\ Receive("attached", d)
    /\ opened' = OpenedFor(d, opened)
    /\ RequestPermission(d, Tail(broadcasts))
    /\ UNCHANGED <<attached, permitted, withCard, events, current, stream, output, polling, caller>>

\* Mutant of OnDetached: the reader is kept.
OnDetachedKeepsReader(d) ==
    /\ Receive("detached", d)
    /\ broadcasts' = Tail(broadcasts)
    /\ IF currentDevice = d
       THEN /\ currentDevice' = NoDevice
            /\ Emit("absent")
       ELSE UNCHANGED <<currentDevice, stream>>
    /\ UNCHANGED <<android, subscribed, hasCurrent, opened, output, polling, caller>>

OnDetached(d) ==
    /\ Receive("detached", d)
    /\ broadcasts' = Tail(broadcasts)
    /\ IF currentDevice = d
       THEN /\ currentDevice' = NoDevice /\ hasCurrent' = FALSE
            /\ opened' = IF hasCurrent THEN NoDevice ELSE opened
            /\ Emit("absent")
       ELSE UNCHANGED <<currentDevice, hasCurrent, opened, stream>>
    /\ UNCHANGED <<android, subscribed, output, polling, caller>>

\* Mutant of OnGranted: the old reader is closed after the new one is opened.
OnGrantedClosesLast(d) ==
    /\ Receive("granted", d)
    /\ broadcasts' = Tail(broadcasts)
    /\ currentDevice' = d /\ hasCurrent' = TRUE
    /\ opened' = IF hasCurrent THEN NoDevice ELSE OpenedFor(d, opened)
    /\ Emit("present")
    /\ UNCHANGED <<android, subscribed, output, polling, caller>>

\* supports, clearCurrent, reader, onNext.
OnGranted(d) ==
    /\ Receive("granted", d)
    /\ broadcasts' = Tail(broadcasts)
    /\ currentDevice' = d /\ hasCurrent' = TRUE
    /\ opened' = OpenedFor(d, IF hasCurrent THEN NoDevice ELSE opened)
    /\ Emit("present")
    /\ UNCHANGED <<android, subscribed, output, polling, caller>>

\* The first subscriber: receivers, and the first supported device of the list.
\* refCount connects anew, so that no status is replayed.
Subscribe ==
    /\ Event /\ ~subscribed /\ MainFree
    /\ drainer = "none" /\ polling = 0      \* bound: the last stream has come to rest
    /\ subscribed' = TRUE
    /\ status' = "none"
    /\ IF attached = {} THEN UNCHANGED <<opened, broadcasts, asked>>
       ELSE \E d \in attached : /\ opened' = OpenedFor(d, opened)
                                /\ RequestPermission(d, broadcasts)
    /\ UNCHANGED <<attached, permitted, withCard, currentDevice, hasCurrent, stream, mapping,
                   field, polling, caller>>

\* The last subscriber goes: the cancellable.  The field stays.
Cancel ==
    /\ Event /\ subscribed /\ MainFree
    /\ subscribed' = FALSE
    /\ broadcasts' = <<>>
    /\ currentDevice' = NoDevice /\ hasCurrent' = FALSE
    /\ opened' = IF hasCurrent THEN NoDevice ELSE opened
    /\ inner' = "nothing" /\ generation' = generation + 1 /\ queued' = FALSE
    /\ UNCHANGED <<attached, permitted, asked, withCard, drainer, output, polling, caller>>

-----------------------------------------------------------------------------
(* The status stream *)

\* repeatWhen, CONNECT_RETRY later: the timer thread calls connected() of the
\* reader that this source was made for.
Poll ==
    /\ inner = "present" /\ polling = 0 /\ drainer # "timer"
    /\ polling' = generation
    /\ UNCHANGED <<android, broadcasts, current, opened, stream, output, caller>>

\* Mutants of Polled: connected() is called once only; flatMap, which does not drop a
\* source for the next.
PolledOnce ==
    /\ polling # 0
    /\ polling' = 0
    /\ UNCHANGED <<android, broadcasts, current, opened, stream, output, caller>>
PolledFlat ==
    /\ polling # 0
    /\ polling' = 0
    /\ inner' = "present" /\ queued' = TRUE
    /\ drainer' = IF drainer = "none" THEN "timer" ELSE drainer
    /\ UNCHANGED <<android, broadcasts, current, opened, generation, output, caller>>

\* The source emits again, unless switchMap has dropped it meanwhile.
Polled ==
    /\ polling # 0
    /\ polling' = 0
    /\ IF polling = generation
       THEN /\ queued' = TRUE
            /\ drainer' = IF drainer = "none" THEN "timer" ELSE drainer
       ELSE UNCHANGED <<queued, drainer>>
    /\ UNCHANGED <<android, broadcasts, current, opened, inner, generation, output, caller>>

\* The drain loop takes the active source's value to map().
Take ==
    /\ drainer # "none" /\ mapping = "none" /\ queued
    /\ queued' = FALSE
    /\ mapping' = inner
    /\ UNCHANGED <<android, broadcasts, current, opened, inner, generation, drainer, field,
                   status, polling, caller>>

Leave ==
    /\ drainer # "none" /\ mapping = "none" /\ ~queued
    /\ drainer' = "none"
    /\ UNCHANGED <<android, broadcasts, current, opened, inner, generation, queued, output,
                   polling, caller>>

MapAbsent ==
    /\ mapping = "absent"
    /\ field' = FALSE
    /\ status' = "IDLE"
    /\ mapping' = "none"
    /\ UNCHANGED <<android, broadcasts, current, opened, stream, polling, caller>>

\* The field is written, then connected() is called on it.
MapPresent ==
    /\ mapping = "present"
    /\ field' = TRUE
    /\ mapping' = "connected"
    /\ UNCHANGED <<android, broadcasts, current, opened, stream, status, polling, caller>>

MapConnected ==
    /\ mapping = "connected"
    /\ status' = IF Connected THEN "CARD_DETECTED" ELSE "READER_DETECTED"
    /\ mapping' = "none"
    /\ UNCHANGED <<android, broadcasts, current, opened, stream, field, polling, caller>>

Drain == Take \/ Leave \/ MapAbsent \/ MapPresent \/ MapConnected

-----------------------------------------------------------------------------
(* connectedReader: three reads of the field *)

CallReader ==
    /\ caller \in {"idle"} \cup Returns
    /\ caller' = IF field THEN "tested" ELSE "exception"
    /\ UNCHANGED <<android, broadcasts, current, opened, stream, output, polling>>

CallConnected ==
    /\ caller = "tested"
    /\ caller' = CASE ~field -> "NullPointerException"
                   [] field /\ Connected -> "connected"
                   [] field /\ ~Connected -> "exception"
    /\ UNCHANGED <<android, broadcasts, current, opened, stream, output, polling>>

ReturnReader ==
    /\ caller = "connected"
    /\ caller' = IF field THEN "reader" ELSE "null"
    /\ UNCHANGED <<android, broadcasts, current, opened, stream, output, polling>>

-----------------------------------------------------------------------------

Receivers == \E d \in Devices : OnAttached(d) \/ OnDetached(d) \/ OnGranted(d)

Next == \/ \E d \in Devices : Attach(d) \/ Detach(d) \/ Permit(d) \/ MoveCard(d)
        \/ Receivers
        \/ Subscribe \/ Cancel
        \/ Poll \/ Polled \/ Drain
        \/ CallReader \/ CallConnected \/ ReturnReader

Spec == Init /\ [][Next]_vars

\* The main thread handles its broadcasts, the timer fires, and the threads run on.
FairSpec == /\ Spec
            /\ WF_vars(Receivers) /\ WF_vars(Drain)
            /\ WF_vars(Poll) /\ WF_vars(Polled)

-----------------------------------------------------------------------------
(* Properties *)

\* Nothing is on its way to the field and the status.
Settled == /\ subscribed /\ broadcasts = <<>>
           /\ drainer = "none" /\ ~queued

\* The last choice of the main thread wins, whatever poll was under way when it was
\* made: at rest the field and the status, once there is one, say that there is a
\* reader exactly if there is a current one.
LastChoiceWins ==
    Settled => /\ status # "none" => (field <=> hasCurrent)
               /\ status \in {"READER_DETECTED", "CARD_DETECTED"} <=> hasCurrent

\* The one vendor reader is open on the current device, though every attached device
\* that is asked about opens it, too.
OpenOnCurrent ==
    Settled /\ currentDevice \in attached => opened = currentDevice

\* A card that stays in the current reader is noticed in the end, however often it was
\* put in and taken out before, and so is its removal.
CardNoticed ==
    /\ <>[](hasCurrent /\ Connected) => <>[](status = "CARD_DETECTED")
    /\ <>[](hasCurrent /\ ~Connected) => <>[](status # "CARD_DETECTED")

\* connectedReader returns a reader or throws SmartCardReaderException("Reader or card
\* is not connected").
ReaderOrException == caller \notin {"null", "NullPointerException"}
===============================================================================
