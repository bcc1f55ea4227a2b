--------------------------- MODULE NfcReaderManager ---------------------------
(***************************************************************************)
(* NfcSmartCardReaderManager and the client that uses it, on two threads:   *)
(* startDiscovery is called on the UI thread, onTagDiscovered and with it   *)
(* the client's callback run on a binder thread of the NFC service.  The    *)
(* manager's fields are shared without synchronisation, so every read and   *)
(* write of one that matters is a step of its own.                          *)
(*                                                                         *)
(* Android is external: reader mode belongs to an Activity, so enabling it  *)
(* replaces the manager that had it and disabling it takes it from whoever  *)
(* has it; NFC can be switched off and on; the callbacks of the service     *)
(* come one after the other.                                               *)
(***************************************************************************)
EXTENDS Naturals

CONSTANTS
    Managers,      \* the demo creates one for every CardReaderFragment
    Activities,
    None,
    MaxSessions,   \* bound on the calls of startDiscovery
    MaxSwitches    \* bound on switching NFC off or on

ASSUME NoneAssumption    == None \notin Managers \cup Activities
ASSUME BoundsAssumption  == MaxSessions \in Nat /\ MaxSwitches \in Nat

Threads == {"ui", "binder"}

VARIABLES
    pc,            \* where each thread is
    manager,       \* the manager it is in
    nfcAdapter,    \* of each manager: is the field non-null?
    currentActivity,
    clientCallback,\* named by the session that passed it, 0 for null
    readerMode,    \* the manager that monitors each activity
    enabled,       \* is NFC switched on?
    switches,
    session,       \* number of the last startDiscovery
    reader,        \* has the last onTagDiscovered a connected reader, not yet closed?
    serving,       \* the session whose callback runs or ran last
    live,          \* history: the session that waits for a tag, 0 for none
    served,        \* history: sessions whose callback began its work on a card
    again,         \* history: did one of them begin it twice?
    ended,         \* how onTagDiscovered ended, "none" before
    crashed,       \* history: did a thread meet a null field?
    overlap        \* history: have the threads been in a manager at one time, each in
                   \* one of its own ("apart"), or both in one ("same")?

entered == <<manager, overlap>>
fields  == <<nfcAdapter, currentActivity, clientCallback>>
android == <<enabled, switches>>
vars == <<pc, manager, fields, readerMode, android, session, reader,
          serving, live, served, again, ended, crashed, overlap>>

DisableSteps == {"disable", "callDisable", "dropAdapter", "dropActivity"}

\* Types: a field is null or refers to what it is declared for.
TypeOK ==
    /\ pc \in [Threads -> {"idle", "setAdapter", "checkEnabled", "setCallback",
                           "enable", "connect", "callback", "client", "try", "close"}
                          \cup DisableSteps]
    /\ manager \in [Threads -> Managers \cup {None}]
    /\ nfcAdapter \in [Managers -> BOOLEAN]
    /\ currentActivity \in [Managers -> Activities \cup {None}]
    /\ clientCallback \in [Managers -> 0 .. MaxSessions]
    /\ readerMode \in [Activities -> Managers \cup {None}]
    /\ enabled \in BOOLEAN
    /\ switches \in 0 .. MaxSwitches
    /\ session \in 0 .. MaxSessions
    /\ reader \in BOOLEAN
    /\ serving \in 0 .. MaxSessions
    /\ live \in 0 .. MaxSessions
    /\ served \subseteq 1 .. MaxSessions
    /\ again \in BOOLEAN
    /\ ended \in {"none", "success", "failure"}
    /\ crashed \in BOOLEAN
    /\ overlap \in {"none", "apart", "same"}

Init ==
    /\ pc = [t \in Threads |-> "idle"]
    /\ manager = [t \in Threads |-> None]
    /\ nfcAdapter = [m \in Managers |-> FALSE]
    /\ currentActivity = [m \in Managers |-> None]
    /\ clientCallback = [m \in Managers |-> 0]
    /\ readerMode = [a \in Activities |-> None]
    /\ enabled = TRUE /\ switches = 0
    /\ session = 0
    /\ reader = FALSE /\ serving = 0
    /\ live = 0 /\ served = {} /\ again = FALSE
    /\ ended = "none" /\ crashed = FALSE /\ overlap = "none"

\* Thread t enters manager m.
Enter(t, m) ==
    LET others == {u \in Threads : pc[u] # "idle"} IN
    /\ pc[t] = "idle"
    /\ manager' = [manager EXCEPT ![t] = m]
    /\ overlap' = IF others = {} \/ overlap = "same" THEN overlap
                  ELSE IF \E u \in others : manager[u] = m THEN "same" ELSE "apart"

Go(t, step) == pc' = [pc EXCEPT ![t] = step]

-----------------------------------------------------------------------------
(* startDiscovery, on the UI thread of a device that has NFC *)

StartDiscovery(m, a) ==
    /\ Enter("ui", m)
    /\ session < MaxSessions
    /\ session' = session + 1
    /\ live' = 0
    /\ currentActivity' = [currentActivity EXCEPT ![m] = a]
    /\ Go("ui", "setAdapter")
    /\ UNCHANGED <<nfcAdapter, clientCallback, readerMode, android, reader, serving,
                   served, again, ended, crashed>>

\* getDefaultAdapter throws if the other thread has set the field to null since.
SetAdapter ==
    /\ pc["ui"] = "setAdapter"
    /\ IF currentActivity[manager["ui"]] # None
       THEN /\ nfcAdapter' = [nfcAdapter EXCEPT ![manager["ui"]] = TRUE]
            /\ Go("ui", "checkEnabled")
            /\ UNCHANGED crashed
       ELSE /\ crashed' = TRUE
            /\ Go("ui", "idle")
            /\ UNCHANGED nfcAdapter
    /\ UNCHANGED <<entered, currentActivity, clientCallback, readerMode, android, session,
                   reader, serving, live, served, again, ended>>

\* A field that the other thread has set to null since is taken for a device without
\* NFC if the first test sees it, and fails the second.
CheckEnabled ==
    /\ pc["ui"] = "checkEnabled"
    /\ Go("ui", IF nfcAdapter[manager["ui"]] /\ enabled THEN "setCallback" ELSE "idle")
    /\ crashed' \in IF nfcAdapter[manager["ui"]] THEN {crashed} ELSE {crashed, TRUE}
    /\ UNCHANGED <<entered, fields, readerMode, android, session, reader, serving, live,
                   served, again, ended>>

SetCallback ==
    /\ pc["ui"] = "setCallback"
    /\ clientCallback' = [clientCallback EXCEPT ![manager["ui"]] = session]
    /\ Go("ui", "enable")
    /\ UNCHANGED <<entered, nfcAdapter, currentActivity, readerMode, android, session,
                   reader, serving, live, served, again, ended, crashed>>

\* enableReaderMode: NFC_ACTIVE, unless a field has become null.
Enable ==
    /\ pc["ui"] = "enable"
    /\ LET m == manager["ui"]
       IN IF nfcAdapter[m] /\ currentActivity[m] # None
          THEN /\ readerMode' = [readerMode EXCEPT ![currentActivity[m]] = m]
               /\ live' = IF enabled /\ session \notin served THEN session ELSE 0
               /\ UNCHANGED crashed
          ELSE /\ crashed' = TRUE
               /\ UNCHANGED <<readerMode, live>>
    /\ Go("ui", "idle")
    /\ UNCHANGED <<entered, fields, android, session, reader, serving, served, again,
                   ended>>

-----------------------------------------------------------------------------
(* disableNfcReaderMode, on either thread *)

\* The client stops the monitoring.
ClientDisables(m) ==
    /\ Enter("ui", m)
    /\ live' = 0
    /\ Go("ui", "disable")
    /\ UNCHANGED <<fields, readerMode, android, session, reader, serving, served, again,
                   ended, crashed>>

\* Mutants of Disable: the fields are set to null before they are tested, or they are
\* not tested.
DisableTooLate(t) ==
    /\ pc[t] = "disable"
    /\ Go(t, "dropAdapter")
    /\ UNCHANGED <<entered, fields, readerMode, android, session, reader, serving, live,
                   served, again, ended, crashed>>
DisableUntested(t) ==
    /\ pc[t] = "disable"
    /\ Go(t, "callDisable")
    /\ UNCHANGED <<entered, fields, readerMode, android, session, reader, serving, live,
                   served, again, ended, crashed>>

Disable(t) ==
    /\ pc[t] = "disable"
    /\ Go(t, IF currentActivity[manager[t]] # None /\ nfcAdapter[manager[t]]
             THEN "callDisable" ELSE "dropAdapter")
    /\ UNCHANGED <<entered, fields, readerMode, android, session, reader, serving, live,
                   served, again, ended, crashed>>

\* The end of a thread's call by an exception that nobody catches.
Abandoned(t) == /\ Go(t, "idle")
                /\ ended' = IF t = "binder" THEN "failure" ELSE ended

\* The fields are read again for the call.
CallDisable(t) ==
    /\ pc[t] = "callDisable"
    /\ LET m == manager[t]
       IN IF nfcAdapter[m] /\ currentActivity[m] # None
          THEN /\ readerMode' = [readerMode EXCEPT ![currentActivity[m]] = None]
               /\ Go(t, "dropAdapter")
               /\ UNCHANGED <<ended, crashed>>
          ELSE /\ Abandoned(t)
               /\ crashed' = TRUE
               /\ UNCHANGED readerMode
    /\ UNCHANGED <<entered, fields, android, session, reader, serving, live, served, again>>

DropAdapter(t) ==
    /\ pc[t] = "dropAdapter"
    /\ nfcAdapter' = [nfcAdapter EXCEPT ![manager[t]] = FALSE]
    /\ Go(t, "dropActivity")
    /\ UNCHANGED <<entered, currentActivity, clientCallback, readerMode, android, session,
                   reader, serving, live, served, again, ended, crashed>>

\* On the binder thread, back to the client's callback, which was about to return or
\* to throw, or to the end of onTagDiscovered, which has closed the reader.
DropActivity(t) ==
    /\ pc[t] = "dropActivity"
    /\ currentActivity' = [currentActivity EXCEPT ![manager[t]] = None]
    /\ Go(t, IF t = "binder" /\ reader /\ ended = "none" THEN "close" ELSE "idle")
    /\ ended' = IF t = "binder" /\ ~reader THEN "success" ELSE ended
    /\ UNCHANGED <<entered, nfcAdapter, clientCallback, readerMode, android, session,
                   reader, serving, live, served, again, crashed>>

-----------------------------------------------------------------------------
(* onTagDiscovered, on the binder thread *)

TagDiscovered(a) ==
    /\ Enter("binder", readerMode[a])
    /\ enabled
    /\ readerMode[a] # None
    /\ Go("binder", "connect")
    /\ ended' = "none"
    /\ UNCHANGED <<fields, readerMode, android, session, reader, serving, live, served,
                   again, crashed>>

\* new NfcSmartCardReader(tag): connects, or throws.
Connect ==
    /\ pc["binder"] = "connect"
    /\ reader' \in BOOLEAN
    /\ Go("binder", "callback")
    /\ UNCHANGED <<entered, fields, readerMode, android, session, serving, live, served,
                   again, ended, crashed>>

\* The client's callback is called, with the reader or the exception.
Callback ==
    /\ pc["binder"] = "callback"
    /\ serving' = clientCallback[manager["binder"]]
    /\ Go("binder", "client")
    /\ UNCHANGED <<entered, fields, readerMode, android, session, reader, live, served,
                   again, ended, crashed>>

\* It throws before its try block, as requireActivity does in a fragment that has been
\* detached: nothing is disabled or closed, and the next tag calls it again.
ClientThrowsAtOnce ==
    /\ pc["binder"] = "client"
    /\ Abandoned("binder")
    /\ UNCHANGED <<entered, fields, readerMode, android, session, reader, serving, live,
                   served, again, crashed>>

\* With a reader it enters the try block: its work on the card begins.
ClientBegins ==
    /\ pc["binder"] = "client"
    /\ reader
    /\ served' = served \cup {serving}
    /\ again' = (again \/ serving \in served)
    /\ live' = IF live = serving THEN 0 ELSE live
    /\ Go("binder", "try")
    /\ UNCHANGED <<entered, fields, readerMode, android, session, reader, serving, ended,
                   crashed>>

\* The callback returns: from the try block by disableNfcReaderMode in its finally.
ClientReturns ==
    /\ \/ pc["binder"] = "try" /\ Go("binder", "disable")
       \/ pc["binder"] = "client" /\ ~reader /\ Go("binder", "close")
    /\ UNCHANGED <<entered, fields, readerMode, android, session, reader, serving, live,
                   served, again, ended, crashed>>

\* The work throws what is not a SmartCardReaderException, the RuntimeException of
\* decryptAndVerify, say: the finally block runs, and onTagDiscovered does not go on.
ClientThrows ==
    /\ pc["binder"] = "try"
    /\ Go("binder", "disable")
    /\ ended' = "failure"
    /\ UNCHANGED <<entered, fields, readerMode, android, session, reader, serving, live,
                   served, again, crashed>>

\* Mutant of Close: a test for the reader takes the place of the assertion.
CloseIfConnected ==
    /\ pc["binder"] = "close"
    /\ Go("binder", "disable")
    /\ reader' = FALSE
    /\ UNCHANGED <<entered, fields, readerMode, android, session, serving, live, served,
                   again, ended, crashed>>

\* Without a reader, the assertion fails, or close() does where assertions are off.
Close ==
    /\ pc["binder"] = "close"
    /\ IF reader THEN Go("binder", "disable") /\ UNCHANGED ended
                 ELSE Abandoned("binder")
    /\ reader' = FALSE
    /\ UNCHANGED <<entered, fields, readerMode, android, session, serving, live, served,
                   again, crashed>>

-----------------------------------------------------------------------------
(* Android (external) *)

\* NFC is switched off or on.  Switched off, the service may drop reader mode.
Switch ==
    /\ switches < MaxSwitches
    /\ switches' = switches + 1
    /\ enabled' = ~enabled
    /\ IF enabled
       THEN /\ live' = 0
            /\ \/ readerMode' = [a \in Activities |-> None]
               \/ UNCHANGED readerMode
       ELSE UNCHANGED <<live, readerMode>>
    /\ UNCHANGED <<pc, manager, overlap, fields, session, reader, serving, served, again, ended,
                   crashed>>

-----------------------------------------------------------------------------

UI == \/ SetAdapter \/ CheckEnabled \/ SetCallback \/ Enable
      \/ Disable("ui") \/ CallDisable("ui") \/ DropAdapter("ui") \/ DropActivity("ui")

Binder == \/ Connect \/ Callback \/ Close
          \/ ClientThrowsAtOnce \/ ClientBegins \/ ClientReturns \/ ClientThrows
          \/ Disable("binder") \/ CallDisable("binder")
          \/ DropAdapter("binder") \/ DropActivity("binder")

Next == \/ \E m \in Managers, a \in Activities : StartDiscovery(m, a)
        \/ \E m \in Managers : ClientDisables(m)
        \/ \E a \in Activities : TagDiscovered(a)
        \/ UI
        \/ Binder
        \/ Switch

Spec == Init /\ [][Next]_vars

-----------------------------------------------------------------------------
(* Properties *)

\* While a session waits for its tag, reader mode is on, for the manager with which
\* the session was started: it is lost neither to the second disableNfcReaderMode of
\* the session before nor to a failed connect.  "The startDiscovery method makes the
\* specified Activity monitor the NFC interface" (README).  A client that starts a
\* session while the callback of another runs can lose it.
Monitors ==
    overlap = "none" /\ live # 0 =>
        \E a \in Activities : /\ readerMode[a] # None
                              /\ clientCallback[readerMode[a]] = live

\* A session does its work on a card once.  "After success disables the reader mode"
\* (onTagDiscovered): the card, held to the phone once more, does not run the session,
\* and sign, again, unless both threads have been in one manager.  (A callback that
\* throws before its work leaves the reader mode on, and is called again.)
WorkOncePerSession == overlap # "same" => ~again

\* "Calls the client callback and after success disables the reader mode" (Javadoc of
\* onTagDiscovered): once it has ended in success, no manager monitors for the session
\* that it served.
DisabledAfterSuccess ==
    ended = "success" =>
        \A a \in Activities : readerMode[a] # None => clientCallback[readerMode[a]] # serving

\* No thread meets a field that has become null under it: threads that keep to a manager
\* each do not disturb one another.
NoNullField == overlap # "same" => ~crashed
=============================================================================
