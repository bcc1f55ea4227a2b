-------------------------- MODULE UsbManager_proofs ---------------------------
(***************************************************************************)
(* Proofs about UsbManager for any set of devices and any number of events. *)
(***************************************************************************)
EXTENDS UsbManager, SequenceTheorems, TLAPS

USE DeviceAssumption, EventsAssumption

-----------------------------------------------------------------------------
(* The inductive invariant *)

\* The stream emits what the main thread has chosen.
SourceInv ==
    /\ inner = "present" <=> hasCurrent
    /\ subscribed /\ inner = "nothing" => status = "none"
    /\ ~subscribed => inner = "nothing"

\* Values that are not mapped yet have a thread that will map them.
DrainInv ==
    /\ queued \/ mapping # "none" => drainer # "none"
    /\ inner = "nothing" => ~queued
    /\ subscribed /\ inner = "nothing" => mapping = "none"

\* Once the last value has been taken, what map() holds, or has written, is of it.
OutputInv ==
    subscribed /\ ~queued /\ inner # "nothing" =>
        /\ mapping = "none" => /\ field <=> inner = "present"
                               /\ status = "IDLE" <=> inner = "absent"
                               /\ status # "none"
        /\ mapping = "absent" => inner = "absent"
        /\ mapping \in {"present", "connected"} => inner = "present"
        /\ mapping = "connected" => field

\* A poll that is not of the present source has been dropped.
LatestPoll ==
    /\ polling <= generation
    /\ polling # 0 /\ polling = generation => inner = "present"

IInv == TypeOK /\ LatestPoll /\ SourceInv /\ DrainInv /\ OutputInv
-----------------------------------------------------------------------------
(* The steps *)

\* The receivers' queue holds intents.
LEMMA QueueType ==
  ASSUME TypeOK, NEW action \in {"attached", "detached", "granted"}, NEW d \in Devices
  PROVE  /\ Append(broadcasts, Intent(action, d)) \in Seq(Intents)
         /\ broadcasts # <<>> => /\ Tail(broadcasts) \in Seq(Intents)
                                 /\ Append(Tail(broadcasts), Intent(action, d)) \in Seq(Intents)
<1>1. broadcasts \in Seq(Intents)
  BY DEF TypeOK
<1>2. Intent(action, d) \in Intents
  BY DEF Intent, Intents
<1>3. broadcasts # <<>> => Tail(broadcasts) \in Seq(Intents)
  BY <1>1, HeadTailProperties
<1> QED
  BY <1>1, <1>2, <1>3, AppendProperties

LEMMA InitInv == Init => IInv
<1> SUFFICES ASSUME Init PROVE IInv
  OBVIOUS
<1> USE DEF Init
<1>1. TypeOK
  <2>1. broadcasts \in Seq(Intents)
    BY EmptySeq
  <2>2. events \in 0 .. MaxEvents
    OBVIOUS
  <2> QED
    BY <2>1, <2>2 DEF TypeOK
<1>2. LatestPoll
  BY DEF LatestPoll
<1>3. SourceInv
  BY DEF SourceInv
<1>4. DrainInv
  BY DEF DrainInv
<1>5. OutputInv
  BY DEF OutputInv
<1> QED
  BY <1>1, <1>2, <1>3, <1>4, <1>5 DEF IInv

LEMMA AttachInv ==
  ASSUME IInv, NEW d \in Devices, Attach(d)
  PROVE  IInv'
<1> USE DEF Attach, Event, Broadcast, android, current, stream, output, IInv
<1>1. TypeOK'
  <2>1. broadcasts' \in Seq(Intents)
    BY QueueType DEF TypeOK, RequestPermission
  <2>2. attached' \subseteq Devices /\ permitted' \subseteq attached' /\ asked' \subseteq attached'
    BY DEF TypeOK, RequestPermission
  <2>3. opened' \in Devices \cup {NoDevice}
    BY DEF TypeOK, OpenedFor
  <2> QED
    BY <2>1, <2>2, <2>3 DEF TypeOK
<1>2. LatestPoll'
  BY DEF LatestPoll, TypeOK
<1>3. SourceInv'
  BY DEF SourceInv, DrainInv, TypeOK
<1>4. DrainInv'
  BY DEF DrainInv, SourceInv, LatestPoll, TypeOK
<1>5. OutputInv'
  BY DEF OutputInv, SourceInv, DrainInv, LatestPoll, TypeOK
<1> QED
  BY <1>1, <1>2, <1>3, <1>4, <1>5

LEMMA DetachInv ==
  ASSUME IInv, NEW d \in Devices, Detach(d)
  PROVE  IInv'
<1> USE DEF Detach, Event, Broadcast, android, current, stream, output, IInv
<1>1. TypeOK'
  <2>1. broadcasts' \in Seq(Intents)
    BY QueueType DEF TypeOK, RequestPermission
  <2>2. attached' \subseteq Devices /\ permitted' \subseteq attached' /\ asked' \subseteq attached'
    BY DEF TypeOK, RequestPermission
  <2>3. opened' \in Devices \cup {NoDevice}
    BY DEF TypeOK, OpenedFor
  <2> QED
    BY <2>1, <2>2, <2>3 DEF TypeOK
<1>2. LatestPoll'
  BY DEF LatestPoll, TypeOK
<1>3. SourceInv'
  BY DEF SourceInv, DrainInv, TypeOK
<1>4. DrainInv'
  BY DEF DrainInv, SourceInv, LatestPoll, TypeOK
<1>5. OutputInv'
  BY DEF OutputInv, SourceInv, DrainInv, LatestPoll, TypeOK
<1> QED
  BY <1>1, <1>2, <1>3, <1>4, <1>5

LEMMA PermitInv ==
  ASSUME IInv, NEW d \in Devices, Permit(d)
  PROVE  IInv'
<1> USE DEF Permit, Broadcast, android, current, stream, output, IInv
<1>1. TypeOK'
  <2>1. broadcasts' \in Seq(Intents)
    BY QueueType DEF TypeOK, RequestPermission
  <2>2. attached' \subseteq Devices /\ permitted' \subseteq attached' /\ asked' \subseteq attached'
    BY DEF TypeOK, RequestPermission
  <2>3. opened' \in Devices \cup {NoDevice}
    BY DEF TypeOK, OpenedFor
  <2> QED
    BY <2>1, <2>2, <2>3 DEF TypeOK
<1>2. LatestPoll'
  BY DEF LatestPoll, TypeOK
<1>3. SourceInv'
  BY DEF SourceInv, DrainInv, TypeOK
<1>4. DrainInv'
  BY DEF DrainInv, SourceInv, LatestPoll, TypeOK
<1>5. OutputInv'
  BY DEF OutputInv, SourceInv, DrainInv, LatestPoll, TypeOK
<1> QED
  BY <1>1, <1>2, <1>3, <1>4, <1>5

LEMMA MoveCardInv ==
  ASSUME IInv, NEW d \in Devices, MoveCard(d)
  PROVE  IInv'
<1> USE DEF MoveCard, Event, android, current, stream, output, IInv
<1>1. TypeOK'
  BY DEF TypeOK, Returns
<1>2. LatestPoll'
  BY DEF LatestPoll, TypeOK
<1>3. SourceInv'
  BY DEF SourceInv, DrainInv, TypeOK
<1>4. DrainInv'
  BY DEF DrainInv, SourceInv, LatestPoll, TypeOK
<1>5. OutputInv'
  BY DEF OutputInv, SourceInv, DrainInv, LatestPoll, TypeOK
<1> QED
  BY <1>1, <1>2, <1>3, <1>4, <1>5

LEMMA OnAttachedInv ==
  ASSUME IInv, NEW d \in Devices, OnAttached(d)
  PROVE  IInv'
<1> USE DEF OnAttached, Receive, MainFree, android, current, stream, output, IInv
<1>1. TypeOK'
  <2>1. broadcasts' \in Seq(Intents)
    BY QueueType DEF TypeOK, RequestPermission
  <2>2. attached' \subseteq Devices /\ permitted' \subseteq attached' /\ asked' \subseteq attached'
    BY DEF TypeOK, RequestPermission
  <2>3. opened' \in Devices \cup {NoDevice}
    BY DEF TypeOK, OpenedFor
  <2> QED
    BY <2>1, <2>2, <2>3 DEF TypeOK
<1>2. LatestPoll'
  BY DEF LatestPoll, TypeOK
<1>3. SourceInv'
  BY DEF SourceInv, DrainInv, TypeOK
<1>4. DrainInv'
  BY DEF DrainInv, SourceInv, LatestPoll, TypeOK
<1>5. OutputInv'
  BY DEF OutputInv, SourceInv, DrainInv, LatestPoll, TypeOK
<1> QED
  BY <1>1, <1>2, <1>3, <1>4, <1>5

LEMMA OnDetachedInv ==
  ASSUME IInv, NEW d \in Devices, OnDetached(d)
  PROVE  IInv'
<1> USE DEF OnDetached, Receive, Emit, MainFree, android, current, stream, output, IInv
<1>1. TypeOK'
  <2>1. broadcasts' \in Seq(Intents)
    BY QueueType DEF TypeOK, RequestPermission
  <2>2. attached' \subseteq Devices /\ permitted' \subseteq attached' /\ asked' \subseteq attached'
    BY DEF TypeOK, RequestPermission
  <2>3. opened' \in Devices \cup {NoDevice}
    BY DEF TypeOK, OpenedFor
  <2>4. hasCurrent' = (currentDevice' # NoDevice) /\ currentDevice' \in Devices \cup {NoDevice}
    BY DEF TypeOK
  <2>5. /\ inner' \in {"nothing", "absent", "present"} /\ generation' \in Nat
        /\ drainer' \in {"none", "main", "timer"}
    BY DEF TypeOK
  <2>6. queued' \in BOOLEAN
    BY DEF TypeOK
  <2> QED
    BY <2>1, <2>2, <2>3, <2>4, <2>5, <2>6 DEF TypeOK
<1>2. LatestPoll'
  BY DEF LatestPoll, TypeOK
<1>3. SourceInv'
  BY DEF SourceInv, DrainInv, TypeOK
<1>4. DrainInv'
  BY DEF DrainInv, SourceInv, LatestPoll, TypeOK
<1>5. OutputInv'
  BY DEF OutputInv, SourceInv, DrainInv, LatestPoll, TypeOK
<1> QED
  BY <1>1, <1>2, <1>3, <1>4, <1>5

LEMMA OnGrantedInv ==
  ASSUME IInv, NEW d \in Devices, OnGranted(d)
  PROVE  IInv'
<1> USE DEF OnGranted, Receive, Emit, MainFree, android, current, stream, output, IInv
<1>1. TypeOK'
  <2>1. broadcasts' \in Seq(Intents)
    BY QueueType DEF TypeOK, RequestPermission
  <2>2. attached' \subseteq Devices /\ permitted' \subseteq attached' /\ asked' \subseteq attached'
    BY DEF TypeOK, RequestPermission
  <2>3. opened' \in Devices \cup {NoDevice}
    BY DEF TypeOK, OpenedFor
  <2>4. hasCurrent' = (currentDevice' # NoDevice) /\ currentDevice' \in Devices \cup {NoDevice}
    BY DEF TypeOK
  <2>5. /\ inner' \in {"nothing", "absent", "present"} /\ generation' \in Nat
        /\ drainer' \in {"none", "main", "timer"}
    BY DEF TypeOK
  <2>6. queued' \in BOOLEAN
    BY DEF TypeOK
  <2> QED
    BY <2>1, <2>2, <2>3, <2>4, <2>5, <2>6 DEF TypeOK
<1>2. LatestPoll'
  BY DEF LatestPoll, TypeOK
<1>3. SourceInv'
  BY DEF SourceInv, DrainInv, TypeOK
<1>4. DrainInv'
  BY DEF DrainInv, SourceInv, LatestPoll, TypeOK
<1>5. OutputInv'
  BY DEF OutputInv, SourceInv, DrainInv, LatestPoll, TypeOK
<1> QED
  BY <1>1, <1>2, <1>3, <1>4, <1>5

LEMMA SubscribeInv ==
  ASSUME IInv, Subscribe
  PROVE  IInv'
<1> USE DEF Subscribe, Event, MainFree, android, current, stream, output, IInv
<1>1. TypeOK'
  <2>1. broadcasts' \in Seq(Intents)
    BY QueueType DEF TypeOK, RequestPermission
  <2>2. attached' \subseteq Devices /\ permitted' \subseteq attached' /\ asked' \subseteq attached'
    BY DEF TypeOK, RequestPermission
  <2>3. opened' \in Devices \cup {NoDevice}
    BY DEF TypeOK, OpenedFor
  <2> QED
    BY <2>1, <2>2, <2>3 DEF TypeOK
<1>2. LatestPoll'
  BY DEF LatestPoll, TypeOK
<1>3. SourceInv'
  BY DEF SourceInv, DrainInv, TypeOK
<1>4. DrainInv'
  BY DEF DrainInv, SourceInv, LatestPoll, TypeOK
<1>5. OutputInv'
  BY DEF OutputInv, SourceInv, DrainInv, LatestPoll, TypeOK
<1> QED
  BY <1>1, <1>2, <1>3, <1>4, <1>5

LEMMA CancelInv ==
  ASSUME IInv, Cancel
  PROVE  IInv'
<1> USE DEF Cancel, Event, MainFree, android, current, stream, output, IInv
<1>1. TypeOK'
  <2>1. broadcasts' \in Seq(Intents)
    BY QueueType DEF TypeOK, RequestPermission
  <2>2. attached' \subseteq Devices /\ permitted' \subseteq attached' /\ asked' \subseteq attached'
    BY DEF TypeOK, RequestPermission
  <2>3. opened' \in Devices \cup {NoDevice}
    BY DEF TypeOK, OpenedFor
  <2>4. hasCurrent' = (currentDevice' # NoDevice) /\ currentDevice' \in Devices \cup {NoDevice}
    BY DEF TypeOK
  <2>5. /\ inner' \in {"nothing", "absent", "present"} /\ generation' \in Nat
        /\ drainer' \in {"none", "main", "timer"}
    BY DEF TypeOK
  <2>6. queued' \in BOOLEAN
    BY DEF TypeOK
  <2>7. events' \in 0 .. MaxEvents
    BY DEF TypeOK
  <2>8. UNCHANGED <<attached, permitted, asked, withCard, mapping, field, status, polling, caller>>
    OBVIOUS
  <2>9. subscribed' = FALSE
    OBVIOUS
  <2> HIDE DEF Cancel
  <2> QED
    BY <2>1, <2>2, <2>3, <2>4, <2>5, <2>6, <2>7, <2>8, <2>9 DEF TypeOK
<1>2. LatestPoll'
  BY DEF LatestPoll, TypeOK
<1>3. SourceInv'
  BY DEF SourceInv, DrainInv, TypeOK
<1>4. DrainInv'
  BY DEF DrainInv, SourceInv, LatestPoll, TypeOK
<1>5. OutputInv'
  BY DEF OutputInv, SourceInv, DrainInv, LatestPoll, TypeOK
<1> QED
  BY <1>1, <1>2, <1>3, <1>4, <1>5

LEMMA PollInv ==
  ASSUME IInv, Poll
  PROVE  IInv'
<1> USE DEF Poll, android, current, stream, output, IInv
<1>1. TypeOK'
  BY DEF TypeOK, Returns
<1>2. LatestPoll'
  BY DEF LatestPoll, TypeOK
<1>3. SourceInv'
  BY DEF SourceInv, DrainInv, TypeOK
<1>4. DrainInv'
  BY DEF DrainInv, SourceInv, LatestPoll, TypeOK
<1>5. OutputInv'
  BY DEF OutputInv, SourceInv, DrainInv, LatestPoll, TypeOK
<1> QED
  BY <1>1, <1>2, <1>3, <1>4, <1>5

LEMMA PolledInv ==
  ASSUME IInv, Polled
  PROVE  IInv'
<1> USE DEF Polled, android, current, stream, output, IInv
<1>1. TypeOK'
  <2>1. queued' = TRUE \/ queued' = queued
    OBVIOUS
  <2>2. queued' \in BOOLEAN
    BY <2>1 DEF TypeOK
  <2>3. drainer' \in {"none", "main", "timer"}
    BY DEF TypeOK
  <2> QED
    BY <2>2, <2>3 DEF TypeOK
<1>2. LatestPoll'
  BY DEF LatestPoll, TypeOK
<1>3. SourceInv'
  BY DEF SourceInv, DrainInv, TypeOK
<1>4. DrainInv'
  BY DEF DrainInv, SourceInv, LatestPoll, TypeOK
<1>5. OutputInv'
  BY DEF OutputInv, SourceInv, DrainInv, LatestPoll, TypeOK
<1> QED
  BY <1>1, <1>2, <1>3, <1>4, <1>5

LEMMA TakeInv ==
  ASSUME IInv, Take
  PROVE  IInv'
<1> USE DEF Take, android, current, stream, output, IInv
<1>1. TypeOK'
  <2>1. mapping' \in {"absent", "present"}
    BY DEF TypeOK, DrainInv
  <2> QED
    BY <2>1 DEF TypeOK
<1>2. LatestPoll'
  BY DEF LatestPoll, TypeOK
<1>3. SourceInv'
  BY DEF SourceInv, DrainInv, TypeOK
<1>4. DrainInv'
  BY DEF DrainInv, SourceInv, LatestPoll, TypeOK
<1>5. OutputInv'
  BY DEF OutputInv, SourceInv, DrainInv, LatestPoll, TypeOK
<1> QED
  BY <1>1, <1>2, <1>3, <1>4, <1>5

LEMMA LeaveInv ==
  ASSUME IInv, Leave
  PROVE  IInv'
<1> USE DEF Leave, android, current, stream, output, IInv
<1>1. TypeOK'
  BY DEF TypeOK, Returns
<1>2. LatestPoll'
  BY DEF LatestPoll, TypeOK
<1>3. SourceInv'
  BY DEF SourceInv, DrainInv, TypeOK
<1>4. DrainInv'
  BY DEF DrainInv, SourceInv, LatestPoll, TypeOK
<1>5. OutputInv'
  BY DEF OutputInv, SourceInv, DrainInv, LatestPoll, TypeOK
<1> QED
  BY <1>1, <1>2, <1>3, <1>4, <1>5

LEMMA MapAbsentInv ==
  ASSUME IInv, MapAbsent
  PROVE  IInv'
<1> USE DEF MapAbsent, android, current, stream, output, IInv
<1>1. TypeOK'
  BY DEF TypeOK, Returns
<1>2. LatestPoll'
  BY DEF LatestPoll, TypeOK
<1>3. SourceInv'
  BY DEF SourceInv, DrainInv, TypeOK
<1>4. DrainInv'
  BY DEF DrainInv, SourceInv, LatestPoll, TypeOK
<1>5. OutputInv'
  BY DEF OutputInv, SourceInv, DrainInv, LatestPoll, TypeOK
<1> QED
  BY <1>1, <1>2, <1>3, <1>4, <1>5

LEMMA MapPresentInv ==
  ASSUME IInv, MapPresent
  PROVE  IInv'
<1> USE DEF MapPresent, android, current, stream, output, IInv
<1>1. TypeOK'
  BY DEF TypeOK, Returns
<1>2. LatestPoll'
  BY DEF LatestPoll, TypeOK
<1>3. SourceInv'
  BY DEF SourceInv, DrainInv, TypeOK
<1>4. DrainInv'
  BY DEF DrainInv, SourceInv, LatestPoll, TypeOK
<1>5. OutputInv'
  BY DEF OutputInv, SourceInv, DrainInv, LatestPoll, TypeOK
<1> QED
  BY <1>1, <1>2, <1>3, <1>4, <1>5

LEMMA MapConnectedInv ==
  ASSUME IInv, MapConnected
  PROVE  IInv'
<1> USE DEF MapConnected, android, current, stream, output, IInv
<1>1. TypeOK'
  BY DEF TypeOK, Returns
<1>2. LatestPoll'
  BY DEF LatestPoll, TypeOK
<1>3. SourceInv'
  BY DEF SourceInv, DrainInv, TypeOK
<1>4. DrainInv'
  BY DEF DrainInv, SourceInv, LatestPoll, TypeOK
<1>5. OutputInv'
  BY DEF OutputInv, SourceInv, DrainInv, LatestPoll, TypeOK
<1> QED
  BY <1>1, <1>2, <1>3, <1>4, <1>5

LEMMA CallReaderInv ==
  ASSUME IInv, CallReader
  PROVE  IInv'
<1> USE DEF CallReader, android, current, stream, output, IInv
<1>1. TypeOK'
  BY DEF TypeOK, Returns
<1>2. LatestPoll'
  BY DEF LatestPoll, TypeOK
<1>3. SourceInv'
  BY DEF SourceInv, DrainInv, TypeOK
<1>4. DrainInv'
  BY DEF DrainInv, SourceInv, LatestPoll, TypeOK
<1>5. OutputInv'
  BY DEF OutputInv, SourceInv, DrainInv, LatestPoll, TypeOK
<1> QED
  BY <1>1, <1>2, <1>3, <1>4, <1>5

LEMMA CallConnectedInv ==
  ASSUME IInv, CallConnected
  PROVE  IInv'
<1> USE DEF CallConnected, android, current, stream, output, IInv
<1>1. TypeOK'
  BY DEF TypeOK, Returns
<1>2. LatestPoll'
  BY DEF LatestPoll, TypeOK
<1>3. SourceInv'
  BY DEF SourceInv, DrainInv, TypeOK
<1>4. DrainInv'
  BY DEF DrainInv, SourceInv, LatestPoll, TypeOK
<1>5. OutputInv'
  BY DEF OutputInv, SourceInv, DrainInv, LatestPoll, TypeOK
<1> QED
  BY <1>1, <1>2, <1>3, <1>4, <1>5

LEMMA ReturnReaderInv ==
  ASSUME IInv, ReturnReader
  PROVE  IInv'
<1> USE DEF ReturnReader, android, current, stream, output, IInv
<1>1. TypeOK'
  BY DEF TypeOK, Returns
<1>2. LatestPoll'
  BY DEF LatestPoll, TypeOK
<1>3. SourceInv'
  BY DEF SourceInv, DrainInv, TypeOK
<1>4. DrainInv'
  BY DEF DrainInv, SourceInv, LatestPoll, TypeOK
<1>5. OutputInv'
  BY DEF OutputInv, SourceInv, DrainInv, LatestPoll, TypeOK
<1> QED
  BY <1>1, <1>2, <1>3, <1>4, <1>5

LEMMA StutterInv ==
  ASSUME IInv, UNCHANGED vars
  PROVE  IInv'
<1> USE DEF vars, android, current, stream, output, IInv
<1>1. TypeOK'
  BY DEF TypeOK, Returns
<1>2. LatestPoll'
  BY DEF LatestPoll, TypeOK
<1>3. SourceInv'
  BY DEF SourceInv, DrainInv, TypeOK
<1>4. DrainInv'
  BY DEF DrainInv, SourceInv, LatestPoll, TypeOK
<1>5. OutputInv'
  BY DEF OutputInv, SourceInv, DrainInv, LatestPoll, TypeOK
<1> QED
  BY <1>1, <1>2, <1>3, <1>4, <1>5

LEMMA StepInv == ASSUME IInv, [Next]_vars PROVE IInv'
<1>1. ASSUME NEW d \in Devices, Attach(d) \/ Detach(d) \/ Permit(d) \/ MoveCard(d) PROVE IInv'
  BY <1>1, AttachInv, DetachInv, PermitInv, MoveCardInv
<1>2. CASE Receivers
  BY <1>2, OnAttachedInv, OnDetachedInv, OnGrantedInv DEF Receivers
<1>3. CASE Subscribe \/ Cancel \/ Poll \/ Polled
  BY <1>3, SubscribeInv, CancelInv, PollInv, PolledInv
<1>4. CASE Drain
  BY <1>4, TakeInv, LeaveInv, MapAbsentInv, MapPresentInv, MapConnectedInv DEF Drain
<1>5. CASE CallReader \/ CallConnected \/ ReturnReader
  BY <1>5, CallReaderInv, CallConnectedInv, ReturnReaderInv
<1>6. CASE UNCHANGED vars
  BY <1>6, StutterInv
<1> QED
  BY <1>1, <1>2, <1>3, <1>4, <1>5, <1>6 DEF Next

LEMMA InvariantHolds == Spec => []IInv
BY InitInv, StepInv, PTL DEF Spec

-----------------------------------------------------------------------------
(* The queue of intents and the vendor's reader *)

\* A permission is taken back only with an intent that comes after the one that gave it.
GrantInv ==
    \A d \in Devices, i \in 1 .. Len(broadcasts) :
        broadcasts[i] = Intent("granted", d) =>
            \/ d \in permitted
            \/ \E j \in 1 .. Len(broadcasts) : j > i /\ broadcasts[j] = Intent("detached", d)

\* The reader is open on the current device, or an intent will open it on another, or
\* close it.
HeldInv ==
    subscribed /\ currentDevice # NoDevice =>
        \/ opened = currentDevice
        \/ \E i \in 1 .. Len(broadcasts) :
              \/ \E d \in Devices : broadcasts[i] = Intent("granted", d)
              \/ broadcasts[i] = Intent("detached", currentDevice)

QueueInv == /\ ~subscribed => broadcasts = <<>>
            /\ GrantInv
            /\ HeldInv

LEMMA IntentsDiffer ==
  ASSUME NEW a, NEW b, NEW d, NEW e, Intent(a, d) = Intent(b, e)
  PROVE  a = b /\ d = e
BY DEF Intent

LEMMA AppendAt ==
  ASSUME NEW q \in Seq(Intents), NEW x
  PROVE  /\ Len(Append(q, x)) = Len(q) + 1 /\ Len(q) \in Nat
         /\ Append(q, x)[Len(q) + 1] = x
         /\ \A i \in 1 .. Len(q) : Append(q, x)[i] = q[i]
OBVIOUS

LEMMA TailAt ==
  ASSUME NEW q \in Seq(Intents), q # <<>>
  PROVE  /\ Tail(q) \in Seq(Intents)
         /\ Len(Tail(q)) = Len(q) - 1 /\ Len(q) \in Nat \ {0}
         /\ Head(q) = q[1]
         /\ \A i \in 1 .. Len(q) - 1 : Tail(q)[i] = q[i + 1]
BY HeadTailProperties

\* Appending an intent, if it is not a grant without permission.
LEMMA GrantAppend ==
  ASSUME NEW q \in Seq(Intents), NEW x, NEW P, NEW Q,
         \A d \in Devices, i \in 1 .. Len(q) : q[i] = Intent("granted", d) =>
             d \in P \/ \E j \in 1 .. Len(q) : j > i /\ q[j] = Intent("detached", d),
         \A d \in Devices : d \in P => d \in Q \/ x = Intent("detached", d),
         \A d \in Devices : x = Intent("granted", d) => d \in Q
  PROVE  \A d \in Devices, i \in 1 .. Len(Append(q, x)) :
             Append(q, x)[i] = Intent("granted", d) =>
                 d \in Q \/ \E j \in 1 .. Len(Append(q, x)) :
                               j > i /\ Append(q, x)[j] = Intent("detached", d)
<1> DEFINE r == Append(q, x)
<1>1. Len(r) = Len(q) + 1 /\ Len(q) \in Nat /\ r[Len(q) + 1] = x
  BY AppendAt
<1>2. \A i \in 1 .. Len(q) : r[i] = q[i]
  BY AppendAt
<1> HIDE DEF r
<1> SUFFICES ASSUME NEW d \in Devices, NEW i \in 1 .. Len(r), r[i] = Intent("granted", d)
             PROVE  d \in Q \/ \E j \in 1 .. Len(r) : j > i /\ r[j] = Intent("detached", d)
  BY DEF r
<1>3. CASE i = Len(q) + 1
  BY <1>1, <1>3
<1>4. CASE i \in 1 .. Len(q)
  <2>1. q[i] = Intent("granted", d)
    BY <1>2, <1>4
  <2>2. CASE d \in P
    <3>1. d \in Q \/ x = Intent("detached", d)
      BY <2>2
    <3>2. Len(q) + 1 \in 1 .. Len(r) /\ Len(q) + 1 > i
      BY <1>1, <1>4
    <3> QED
      BY <1>1, <3>1, <3>2
  <2>3. ASSUME NEW j \in 1 .. Len(q), j > i, q[j] = Intent("detached", d)
        PROVE  \E k \in 1 .. Len(r) : k > i /\ r[k] = Intent("detached", d)
    <3>1. j \in 1 .. Len(r) /\ r[j] = q[j]
      BY <1>1, <1>2, <2>3
    <3> QED
      BY <2>3, <3>1
  <2> QED
    BY <1>4, <2>1, <2>2, <2>3
<1> QED
  BY <1>1, <1>3, <1>4

LEMMA GrantTail ==
  ASSUME NEW q \in Seq(Intents), NEW P, q # <<>>,
         \A d \in Devices, i \in 1 .. Len(q) : q[i] = Intent("granted", d) =>
             d \in P \/ \E j \in 1 .. Len(q) : j > i /\ q[j] = Intent("detached", d)
  PROVE  \A d \in Devices, i \in 1 .. Len(Tail(q)) : Tail(q)[i] = Intent("granted", d) =>
             d \in P \/ \E j \in 1 .. Len(Tail(q)) :
                           j > i /\ Tail(q)[j] = Intent("detached", d)
<1> DEFINE r == Tail(q)
<1>1. Len(r) = Len(q) - 1 /\ Len(q) \in Nat \ {0}
  BY TailAt
<1>2. \A i \in 1 .. Len(q) - 1 : r[i] = q[i + 1]
  BY TailAt
<1> HIDE DEF r
<1> SUFFICES ASSUME NEW d \in Devices, NEW i \in 1 .. Len(r), r[i] = Intent("granted", d),
                    d \notin P
             PROVE  \E j \in 1 .. Len(r) : j > i /\ r[j] = Intent("detached", d)
  BY DEF r
<1>3. i + 1 \in 1 .. Len(q) /\ q[i + 1] = Intent("granted", d)
  BY <1>1, <1>2
<1>4. PICK j \in 1 .. Len(q) : j > i + 1 /\ q[j] = Intent("detached", d)
  BY <1>3
<1>5. j - 1 \in 1 .. Len(r) /\ j - 1 > i /\ r[j - 1] = q[j]
  <2>1. j - 1 \in 1 .. Len(q) - 1 /\ (j - 1) + 1 = j
    BY <1>1, <1>3, <1>4
  <2> QED
    BY <1>1, <1>2, <1>4, <2>1
<1> QED
  BY <1>4, <1>5

\* What an intent behind the others, or the first one taken away, leaves in the queue.
LEMMA StillThere ==
  ASSUME NEW q \in Seq(Intents), NEW y, NEW i \in 1 .. Len(q), q[i] = y
  PROVE  /\ \A x : \E j \in 1 .. Len(Append(q, x)) : Append(q, x)[j] = y
         /\ y # Head(q) => \E j \in 1 .. Len(Tail(q)) : Tail(q)[j] = y
<1>1. ASSUME NEW x PROVE \E j \in 1 .. Len(Append(q, x)) : Append(q, x)[j] = y
  <2>1. i \in 1 .. Len(Append(q, x)) /\ Append(q, x)[i] = y
    BY AppendAt
  <2> QED
    BY <2>1
<1>2. ASSUME y # Head(q) PROVE \E j \in 1 .. Len(Tail(q)) : Tail(q)[j] = y
  <2>1. q # <<>>
    OBVIOUS
  <2>2. Head(q) = q[1] /\ Len(Tail(q)) = Len(q) - 1 /\ Len(q) \in Nat
    BY <2>1, TailAt
  <2>3. i - 1 \in 1 .. Len(q) - 1 /\ (i - 1) + 1 = i
    BY <1>2, <2>2
  <2>4. Tail(q)[i - 1] = q[i]
    BY <2>1, <2>3, TailAt
  <2> QED
    BY <2>2, <2>3, <2>4
<1> QED
  BY <1>1, <1>2
\* What a receiver does to the rest of the queue when it asks for permission.
LEMMA RequestKeepsGrants ==
  ASSUME NEW q \in Seq(Intents), NEW d \in Devices, RequestPermission(d, q),
         \A e \in Devices, i \in 1 .. Len(q) : q[i] = Intent("granted", e) =>
             e \in permitted \/ \E j \in 1 .. Len(q) : j > i /\ q[j] = Intent("detached", e)
  PROVE  \A e \in Devices, i \in 1 .. Len(broadcasts') : broadcasts'[i] = Intent("granted", e) =>
             \/ e \in permitted
             \/ \E j \in 1 .. Len(broadcasts') : j > i /\ broadcasts'[j] = Intent("detached", e)
<1>1. CASE d \notin permitted
  BY <1>1 DEF RequestPermission
<1>2. CASE d \in permitted
  <2>1. broadcasts' = Append(q, Intent("granted", d))
    BY <1>2 DEF RequestPermission
  <2>2. \A e \in Devices : Intent("granted", d) = Intent("granted", e) => e \in permitted
    BY <1>2, IntentsDiffer
  <2>3. \A e \in Devices : e \in permitted =>
                              e \in permitted \/ Intent("granted", d) = Intent("detached", e)
    OBVIOUS
  <2> HIDE DEF RequestPermission
  <2> QED
    BY <2>1, <2>2, <2>3, GrantAppend
<1> QED
  BY <1>1, <1>2

\* The intents that HeldInv waits for.
Promise(x) == \/ \E d \in Devices : x = Intent("granted", d)
              \/ x = Intent("detached", currentDevice)

LEMMA HeldBy ==
  ASSUME QueueInv, subscribed, currentDevice # NoDevice, opened # currentDevice
  PROVE  \E i \in 1 .. Len(broadcasts) : Promise(broadcasts[i])
BY DEF QueueInv, HeldInv, Promise

\* An intent more in the queue.
LEMMA BroadcastQueue ==
  ASSUME IInv, QueueInv, NEW a \in {"attached", "detached", "granted"}, NEW d \in Devices,
         Broadcast(Intent(a, d)),
         \A e \in Devices : e \in permitted =>
             e \in permitted' \/ Intent(a, d) = Intent("detached", e),
         a = "granted" => d \in permitted',
         UNCHANGED <<current, opened>>
  PROVE  QueueInv'
<1> USE DEF current
<1>1. broadcasts \in Seq(Intents)
  BY DEF IInv, TypeOK
<1>2. CASE ~subscribed
  <2>1. broadcasts = <<>> /\ broadcasts' = <<>>
    BY <1>2 DEF QueueInv, Broadcast
  <2> QED
    BY <1>2, <2>1 DEF QueueInv, GrantInv, HeldInv
<1>3. CASE subscribed
  <2>1. broadcasts' = Append(broadcasts, Intent(a, d))
    BY <1>3 DEF Broadcast
  <2>2. GrantInv'
    <3>1. \A e \in Devices : Intent(a, d) = Intent("granted", e) => e \in permitted'
      BY IntentsDiffer
    <3>2. \A e \in Devices, i \in 1 .. Len(broadcasts) : broadcasts[i] = Intent("granted", e) =>
             \/ e \in permitted
             \/ \E j \in 1 .. Len(broadcasts) : j > i /\ broadcasts[j] = Intent("detached", e)
      BY DEF QueueInv, GrantInv
    <3>3. \A e \in Devices, i \in 1 .. Len(Append(broadcasts, Intent(a, d))) :
             Append(broadcasts, Intent(a, d))[i] = Intent("granted", e) =>
                 \/ e \in permitted'
                 \/ \E j \in 1 .. Len(Append(broadcasts, Intent(a, d))) :
                       j > i /\ Append(broadcasts, Intent(a, d))[j] = Intent("detached", e)
      BY <1>1, <3>1, <3>2, GrantAppend
    <3> QED
      BY <2>1, <3>3 DEF GrantInv
  <2>3. HeldInv'
    <3> SUFFICES ASSUME currentDevice # NoDevice, opened # currentDevice
                 PROVE  \E i \in 1 .. Len(broadcasts') : Promise(broadcasts'[i])
      BY DEF HeldInv, Promise
    <3>1. PICK i \in 1 .. Len(broadcasts) : Promise(broadcasts[i])
      BY <1>3, HeldBy
    <3>2. \E j \in 1 .. Len(broadcasts') : broadcasts'[j] = broadcasts[i]
      BY <1>1, <2>1, StillThere
    <3> QED
      BY <3>1, <3>2
  <2> QED
    BY <1>3, <2>2, <2>3 DEF QueueInv
<1> QED
  BY <1>2, <1>3

\* The first intent taken, with no change to what it is about.
LEMMA TailKeepsGrants ==
  ASSUME IInv, QueueInv, broadcasts # <<>>
  PROVE  \A d \in Devices, i \in 1 .. Len(Tail(broadcasts)) :
             Tail(broadcasts)[i] = Intent("granted", d) =>
                 \/ d \in permitted
                 \/ \E j \in 1 .. Len(Tail(broadcasts)) :
                       j > i /\ Tail(broadcasts)[j] = Intent("detached", d)
<1>1. broadcasts \in Seq(Intents)
  BY DEF IInv, TypeOK
<1> QED
  BY <1>1, GrantTail DEF QueueInv, GrantInv

LEMMA AttachedQueue ==
  ASSUME IInv, QueueInv, NEW d \in Devices, OnAttached(d)
  PROVE  QueueInv'
<1>1. /\ broadcasts \in Seq(Intents) /\ broadcasts # <<>> /\ Tail(broadcasts) \in Seq(Intents)
      /\ Head(broadcasts) = Intent("attached", d) /\ subscribed /\ subscribed'
      /\ RequestPermission(d, Tail(broadcasts)) /\ opened' = OpenedFor(d, opened)
      /\ permitted' = permitted /\ currentDevice' = currentDevice
  BY TailAt DEF IInv, TypeOK, OnAttached, Receive, current
<1>2. GrantInv'
  BY <1>1, TailKeepsGrants, RequestKeepsGrants DEF GrantInv
<1>3. HeldInv'
  <2> SUFFICES ASSUME currentDevice # NoDevice, opened' # currentDevice
               PROVE  \E i \in 1 .. Len(broadcasts') : Promise(broadcasts'[i])
    BY <1>1 DEF HeldInv, Promise
  <2>1. CASE d \in permitted
    <3>1. broadcasts' = Append(Tail(broadcasts), Intent("granted", d))
      BY <1>1, <2>1 DEF RequestPermission
    <3>2. /\ Len(broadcasts') \in 1 .. Len(broadcasts')
          /\ broadcasts'[Len(broadcasts')] = Intent("granted", d)
      BY <1>1, <3>1, AppendAt
    <3> QED
      BY <3>2 DEF Promise
  <2>2. CASE d \notin permitted
    <3>1. broadcasts' = Tail(broadcasts) /\ opened' = opened
      BY <1>1, <2>2 DEF RequestPermission, OpenedFor
    <3>2. PICK i \in 1 .. Len(broadcasts) : Promise(broadcasts[i])
      BY <1>1, <3>1, HeldBy
    <3>3. broadcasts[i] # Head(broadcasts)
      BY <1>1, <3>2, IntentsDiffer DEF Promise
    <3>4. \E j \in 1 .. Len(broadcasts') : broadcasts'[j] = broadcasts[i]
      BY <1>1, <3>1, <3>3, StillThere
    <3> QED
      BY <3>2, <3>4
  <2> QED
    BY <2>1, <2>2
<1> QED
  BY <1>1, <1>2, <1>3 DEF QueueInv

LEMMA DetachedQueue ==
  ASSUME IInv, QueueInv, NEW d \in Devices, OnDetached(d)
  PROVE  QueueInv'
<1>1. /\ broadcasts \in Seq(Intents) /\ broadcasts # <<>>
      /\ Head(broadcasts) = Intent("detached", d) /\ subscribed /\ subscribed'
      /\ broadcasts' = Tail(broadcasts) /\ permitted' = permitted
  BY DEF IInv, TypeOK, OnDetached, Receive, android
<1>2. GrantInv'
  BY <1>1, TailKeepsGrants DEF GrantInv
<1>3. HeldInv'
  <2>1. CASE currentDevice = d
    BY <2>1 DEF HeldInv, OnDetached
  <2>2. CASE currentDevice # d
    <3>1. currentDevice' = currentDevice /\ opened' = opened
      BY <2>2 DEF OnDetached
    <3> SUFFICES ASSUME currentDevice # NoDevice, opened # currentDevice
                 PROVE  \E i \in 1 .. Len(broadcasts') : Promise(broadcasts'[i])
      BY <3>1 DEF HeldInv, Promise
    <3>2. PICK i \in 1 .. Len(broadcasts) : Promise(broadcasts[i])
      BY <1>1, HeldBy
    <3>3. broadcasts[i] # Head(broadcasts)
      BY <1>1, <2>2, <3>2, IntentsDiffer DEF Promise
    <3>4. \E j \in 1 .. Len(broadcasts') : broadcasts'[j] = broadcasts[i]
      BY <1>1, <3>3, StillThere
    <3> QED
      BY <3>2, <3>4
  <2> QED
    BY <2>1, <2>2
<1> QED
  BY <1>1, <1>2, <1>3 DEF QueueInv

\* A grant without permission: the intent that the device went is still to come.
LEMMA GrantedQueue ==
  ASSUME IInv, QueueInv, NEW d \in Devices, OnGranted(d)
  PROVE  QueueInv'
<1>1. /\ broadcasts \in Seq(Intents) /\ broadcasts # <<>>
      /\ Head(broadcasts) = Intent("granted", d) /\ subscribed /\ subscribed'
      /\ broadcasts' = Tail(broadcasts) /\ permitted' = permitted /\ currentDevice' = d
  BY DEF IInv, TypeOK, OnGranted, Receive, android
<1>2. GrantInv'
  BY <1>1, TailKeepsGrants DEF GrantInv
<1>3. HeldInv'
  <2>1. CASE d \in permitted
    <3>1. opened' = d
      BY <2>1 DEF OnGranted, OpenedFor
    <3> QED
      BY <1>1, <3>1 DEF HeldInv
  <2>2. CASE d \notin permitted
    <3>1. /\ 1 \in 1 .. Len(broadcasts) /\ broadcasts[1] = Intent("granted", d)
          /\ Len(Tail(broadcasts)) = Len(broadcasts) - 1 /\ Len(broadcasts) \in Nat
      BY <1>1, TailAt
    <3>2. PICK j \in 1 .. Len(broadcasts) : j > 1 /\ broadcasts[j] = Intent("detached", d)
      BY <2>2, <3>1 DEF QueueInv, GrantInv
    <3>3. Intent("detached", d) # Head(broadcasts)
      BY <1>1, IntentsDiffer
    <3>4. \E k \in 1 .. Len(broadcasts') : broadcasts'[k] = Intent("detached", d)
      BY <1>1, <3>2, <3>3, StillThere
    <3> QED
      BY <1>1, <3>4 DEF HeldInv
  <2> QED
    BY <2>1, <2>2
<1> QED
  BY <1>1, <1>2, <1>3 DEF QueueInv

LEMMA SubscribeQueue ==
  ASSUME IInv, QueueInv, Subscribe
  PROVE  QueueInv'
<1>1. currentDevice' = NoDevice /\ broadcasts = <<>> /\ subscribed' /\ permitted' = permitted
  BY DEF IInv, TypeOK, SourceInv, QueueInv, Subscribe
<1>2. HeldInv'
  BY <1>1 DEF HeldInv
<1>3. GrantInv'
  <2>1. CASE attached = {}
    BY <1>1, <2>1 DEF Subscribe, GrantInv
  <2>2. CASE attached # {}
    <3>1. PICK d \in attached : RequestPermission(d, broadcasts)
      BY <2>2 DEF Subscribe
    <3>2. d \in Devices /\ broadcasts \in Seq(Intents)
      BY <3>1 DEF IInv, TypeOK
    <3> QED
      BY <1>1, <3>1, <3>2, RequestKeepsGrants DEF QueueInv, GrantInv
  <2> QED
    BY <2>1, <2>2
<1> QED
  BY <1>1, <1>2, <1>3 DEF QueueInv

LEMMA StepQueue == ASSUME IInv, QueueInv, [Next]_vars PROVE QueueInv'
<1>1. ASSUME NEW d \in Devices, Attach(d) PROVE QueueInv'
  <2>1. Broadcast(Intent("attached", d)) /\ permitted' = permitted /\ UNCHANGED <<current, opened>>
    BY <1>1 DEF Attach
  <2> QED
    BY <2>1, BroadcastQueue
<1>2. ASSUME NEW d \in Devices, Detach(d) PROVE QueueInv'
  <2>1. /\ Broadcast(Intent("detached", d)) /\ permitted' = permitted \ {d}
        /\ UNCHANGED <<current, opened>>
    BY <1>2 DEF Detach
  <2>2. \A e \in Devices : e \in permitted =>
           e \in permitted' \/ Intent("detached", d) = Intent("detached", e)
    BY <2>1
  <2> QED
    BY <2>1, <2>2, BroadcastQueue
<1>3. ASSUME NEW d \in Devices, Permit(d) PROVE QueueInv'
  <2>1. /\ Broadcast(Intent("granted", d)) /\ permitted' = permitted \cup {d}
        /\ UNCHANGED <<current, opened>>
    BY <1>3 DEF Permit
  <2> QED
    BY <2>1, BroadcastQueue
<1>4. ASSUME NEW d \in Devices, OnAttached(d) \/ OnDetached(d) \/ OnGranted(d) PROVE QueueInv'
  BY <1>4, AttachedQueue, DetachedQueue, GrantedQueue
<1>5. CASE Subscribe
  BY <1>5, SubscribeQueue
<1>6. CASE Cancel
  BY <1>6 DEF Cancel, QueueInv, GrantInv, HeldInv
<1>7. ASSUME UNCHANGED <<broadcasts, permitted, current, opened>> PROVE QueueInv'
  BY <1>7 DEF QueueInv, GrantInv, HeldInv, current
<1>8. ASSUME \/ \E d \in Devices : MoveCard(d)
             \/ Poll \/ Polled \/ Drain \/ CallReader \/ CallConnected \/ ReturnReader
             \/ UNCHANGED vars
      PROVE  UNCHANGED <<broadcasts, permitted, current, opened>>
  BY <1>8 DEF MoveCard, Poll, Polled, Drain, Take, Leave, MapAbsent, MapPresent, MapConnected,
              CallReader, CallConnected, ReturnReader, vars, android
<1> QED
  BY <1>1, <1>2, <1>3, <1>4, <1>5, <1>6, <1>7, <1>8 DEF Next, Receivers

LEMMA QueueHolds == Spec => []QueueInv
<1>1. Init => QueueInv
  BY DEF Init, QueueInv, GrantInv, HeldInv
<1> QED
  BY <1>1, InvariantHolds, StepQueue, PTL DEF Spec

-----------------------------------------------------------------------------
(* The theorems *)

\* Type correctness; with it, that the manager has a current device exactly if it has a
\* current reader (onDetached, onGranted and the cancellable set both).
THEOREM TypeCorrect == Spec => []TypeOK
<1>1. IInv => TypeOK
  BY DEF IInv
<1> QED
  BY <1>1, InvariantHolds, PTL

\* Whatever poll was under way when the main thread chose a reader or gave one up: at
\* rest the field "reader" and the status say what was chosen last (switchMap drops the
\* old source's values, and map runs on one thread at a time).
THEOREM LastChoiceWinsHolds == Spec => []LastChoiceWins
<1>1. IInv => LastChoiceWins
  <2> SUFFICES ASSUME IInv, Settled
               PROVE  /\ status # "none" => (field <=> hasCurrent)
                      /\ (status \in {"READER_DETECTED", "CARD_DETECTED"}) <=> hasCurrent
    BY DEF LastChoiceWins
  <2>1. subscribed /\ ~queued /\ drainer = "none" /\ mapping = "none"
    BY DEF Settled, IInv, DrainInv
  <2>2. (inner = "present") <=> hasCurrent
    BY DEF IInv, SourceInv
  <2>3. /\ inner \in {"nothing", "absent", "present"}
        /\ status \in {"none", "IDLE", "READER_DETECTED", "CARD_DETECTED"}
    BY DEF IInv, TypeOK
  <2>4. CASE inner = "nothing"
    BY <2>1, <2>2, <2>4 DEF IInv, SourceInv
  <2>5. CASE inner # "nothing"
    <3>1. /\ field <=> inner = "present"
          /\ status = "IDLE" <=> inner = "absent"
          /\ status # "none"
      BY <2>1, <2>5 DEF IInv, OutputInv
    <3> QED
      BY <2>2, <2>3, <2>5, <3>1
  <2> QED
    BY <2>4, <2>5
<1> QED
  BY <1>1, InvariantHolds, PTL

\* Every attached device that is asked about opens the one vendor reader, and a device
\* may go, come back and lose its permission between an intent and its receiver: still,
\* when all intents are handled, the reader is open on the current device.
THEOREM OpenOnCurrentHolds == Spec => []OpenOnCurrent
<1>1. IInv /\ QueueInv => OpenOnCurrent
  <2> SUFFICES ASSUME IInv, QueueInv, Settled, currentDevice \in attached
               PROVE  opened = currentDevice
    BY DEF OpenOnCurrent
  <2>1. subscribed /\ currentDevice # NoDevice
    BY DEF Settled, IInv, TypeOK
  <2>2. broadcasts = <<>>
    BY DEF Settled
  <2>3. Len(broadcasts) = 0
    BY <2>2
  <2>4. 1 .. Len(broadcasts) = {}
    BY <2>3
  <2> QED
    BY <2>1, <2>4 DEF QueueInv, HeldInv
<1> QED
  BY <1>1, InvariantHolds, QueueHolds, PTL
===============================================================================
