----------------------- MODULE NfcReaderManager_proofs ------------------------
(***************************************************************************)
(* Proofs about NfcReaderManager for any managers, sessions and switches of *)
(* NFC.  What concerns reader mode is proved for clients on one activity,   *)
(* as the demo application has it.                                         *)
(***************************************************************************)
EXTENDS NfcReaderManager, TLAPS

USE NoneAssumption, BoundsAssumption

-----------------------------------------------------------------------------
(* The inductive invariant, whatever the activities *)

Starting == {"setAdapter", "checkEnabled", "setCallback", "enable"}
Tagged   == {"connect", "callback", "client", "try", "close"}

\* Each thread runs its own part of the code, in a manager.
Places ==
    /\ pc["ui"] \in {"idle"} \cup Starting \cup DisableSteps
    /\ pc["binder"] \in {"idle"} \cup Tagged \cup DisableSteps
    /\ \A t \in Threads : pc[t] # "idle" => manager[t] \in Managers

\* A manager that monitors has a callback, and no two have the same.
Callbacks ==
    /\ pc["ui"] \in Starting => session # 0
    /\ pc["ui"] = "enable" => clientCallback[manager["ui"]] = session
    /\ \A a \in Activities : readerMode[a] # None => clientCallback[readerMode[a]] # 0
    /\ pc["binder"] # "idle" => clientCallback[manager["binder"]] # 0
    /\ pc["binder"] \in {"client", "try"} => serving # 0
    /\ \A m \in Managers : clientCallback[m] <= session
    /\ pc["ui"] \in Starting \ {"enable"} =>
           \A m \in Managers : clientCallback[m] < session
    /\ \A m, n \in Managers : clientCallback[m] = clientCallback[n] /\ m # n =>
           clientCallback[m] = 0

\* "overlap" says where the threads have been.
Apart ==
    /\ overlap # "same" =>
           pc["ui"] = "idle" \/ pc["binder"] = "idle" \/ manager["ui"] # manager["binder"]
    /\ overlap = "none" => pc["ui"] = "idle" \/ pc["binder"] = "idle"

\* A thread alone in its manager finds the fields as it left them.
Fields ==
    overlap # "same" =>
        /\ ~crashed
        /\ pc["ui"] \in Starting => currentActivity[manager["ui"]] # None
        /\ pc["ui"] \in Starting \ {"setAdapter"} => nfcAdapter[manager["ui"]]
        /\ \A t \in Threads : pc[t] = "callDisable" =>
               nfcAdapter[manager[t]] /\ currentActivity[manager[t]] # None

IInv == TypeOK /\ Places /\ Callbacks /\ Apart /\ Fields

-----------------------------------------------------------------------------
(* The inductive invariant of clients on one activity *)

OneActivity == \A a, b \in Activities : a = b

\* A manager that monitors knows its activity, until it has ended the monitoring.
Monitoring ==
    overlap # "same" => \A a \in Activities : readerMode[a] # None =>
        /\ nfcAdapter[readerMode[a]] /\ currentActivity[readerMode[a]] # None
        /\ \A t \in Threads : pc[t] \in {"dropAdapter", "dropActivity"} =>
               manager[t] # readerMode[a]

\* A session that has begun its work is monitored only until the work ends it.
Served ==
    overlap # "same" =>
        /\ ~again
        /\ served \subseteq 1 .. session
        /\ pc["ui"] \in Starting => session \notin served
        /\ pc["binder"] \in {"connect", "callback", "client"} =>
               clientCallback[manager["binder"]] \notin served
        /\ pc["binder"] \in {"client", "try"} => serving = clientCallback[manager["binder"]]
        /\ \A a \in Activities :
               readerMode[a] # None /\ clientCallback[readerMode[a]] \in served =>
                   /\ pc["binder"] \in {"try", "disable", "callDisable"}
                   /\ manager["binder"] = readerMode[a]

\* The session that waits is the one that is monitored.
Waiting ==
    overlap = "none" /\ live # 0 =>
        /\ Monitors
        /\ pc["ui"] = "idle"
        /\ pc["binder"] \notin DisableSteps \cup {"try"}
        /\ pc["binder"] \in {"connect", "callback"} => clientCallback[manager["binder"]] = live
        /\ pc["binder"] = "client" => serving = live
        /\ pc["binder"] = "close" => ~reader

ModeInv == Monitoring /\ Served /\ Waiting
-----------------------------------------------------------------------------
(* The steps *)

LEMMA ThreadsAre == Threads = {"ui", "binder"} /\ "ui" # "binder"
BY DEF Threads

LEMMA InitInv == Init => IInv /\ ModeInv
<1> SUFFICES ASSUME Init PROVE IInv /\ ModeInv
  OBVIOUS
<1> USE DEF Init
<1>1. TypeOK
  <2>1. 0 \in 0 .. MaxSessions /\ 0 \in 0 .. MaxSwitches
    OBVIOUS
  <2> QED
    BY <2>1 DEF TypeOK
<1>2. Places
  BY DEF Places, TypeOK, Starting, DisableSteps, Tagged, Threads
<1>3. Callbacks
  BY DEF Callbacks, Places, TypeOK, Starting, DisableSteps, Tagged, Threads
<1>4. Apart
  BY DEF Apart, Places, TypeOK, Starting, DisableSteps, Tagged, Threads
<1>5. Fields
  BY DEF Fields, Places, Apart, TypeOK, Starting, DisableSteps, Tagged, Threads
<1>6. Monitoring
  BY DEF Monitoring, Places, Apart, Callbacks, Fields, TypeOK, Starting, DisableSteps, Tagged, Threads
<1>7. Served
  BY DEF Served, Places, Apart, Callbacks, Fields, Monitoring, TypeOK, Starting, DisableSteps, Tagged, Threads
<1>8. Waiting
  BY DEF Waiting, Places, Apart, Callbacks, Fields, Monitoring, Served, Monitors, TypeOK, Starting, DisableSteps, Tagged, Threads
<1> QED
  BY <1>1, <1>2, <1>3, <1>4, <1>5, <1>6, <1>7, <1>8 DEF IInv, ModeInv

LEMMA StartDiscoveryInv ==
  ASSUME IInv, NEW m \in Managers, NEW a \in Activities, StartDiscovery(m, a)
  PROVE  IInv'
<1> USE DEF StartDiscovery, Enter, Go, entered, fields, android, IInv
<1>1. TypeOK'
  BY ThreadsAre DEF TypeOK, Starting, DisableSteps, Tagged
<1>2. Places'
  BY ThreadsAre DEF Places, TypeOK, Starting, DisableSteps, Tagged
<1>3. Callbacks'
  BY ThreadsAre DEF Callbacks, Places, TypeOK, Starting, DisableSteps, Tagged
<1>4. Apart'
  BY ThreadsAre DEF Apart, Places, TypeOK, Starting, DisableSteps, Tagged
<1>5. Fields'
  BY ThreadsAre DEF Fields, Places, Apart, TypeOK, Starting, DisableSteps, Tagged
<1> QED
  BY <1>1, <1>2, <1>3, <1>4, <1>5

LEMMA SetAdapterInv ==
  ASSUME IInv, SetAdapter
  PROVE  IInv'
<1> USE DEF SetAdapter, Go, entered, fields, android, IInv
<1>1. TypeOK'
  BY ThreadsAre DEF TypeOK, Starting, DisableSteps, Tagged
<1>2. Places'
  BY ThreadsAre DEF Places, TypeOK, Starting, DisableSteps, Tagged
<1>3. Callbacks'
  BY ThreadsAre DEF Callbacks, Places, TypeOK, Starting, DisableSteps, Tagged
<1>4. Apart'
  BY ThreadsAre DEF Apart, Places, TypeOK, Starting, DisableSteps, Tagged
<1>5. Fields'
  BY ThreadsAre DEF Fields, Places, Apart, TypeOK, Starting, DisableSteps, Tagged
<1> QED
  BY <1>1, <1>2, <1>3, <1>4, <1>5

LEMMA CheckEnabledInv ==
  ASSUME IInv, CheckEnabled
  PROVE  IInv'
<1> USE DEF CheckEnabled, Go, entered, fields, android, IInv
<1>1. TypeOK'
  BY ThreadsAre DEF TypeOK, Starting, DisableSteps, Tagged
<1>2. Places'
  BY ThreadsAre DEF Places, TypeOK, Starting, DisableSteps, Tagged
<1>3. Callbacks'
  BY ThreadsAre DEF Callbacks, Places, TypeOK, Starting, DisableSteps, Tagged
<1>4. Apart'
  BY ThreadsAre DEF Apart, Places, TypeOK, Starting, DisableSteps, Tagged
<1>5. Fields'
  BY ThreadsAre DEF Fields, Places, Apart, TypeOK, Starting, DisableSteps, Tagged
<1> QED
  BY <1>1, <1>2, <1>3, <1>4, <1>5

LEMMA SetCallbackInv ==
  ASSUME IInv, SetCallback
  PROVE  IInv'
<1> USE DEF SetCallback, Go, entered, fields, android, IInv
<1>1. TypeOK'
  BY ThreadsAre DEF TypeOK, Starting, DisableSteps, Tagged
<1>2. Places'
  BY ThreadsAre DEF Places, TypeOK, Starting, DisableSteps, Tagged
<1>3. Callbacks'
  BY ThreadsAre DEF Callbacks, Places, TypeOK, Starting, DisableSteps, Tagged
<1>4. Apart'
  BY ThreadsAre DEF Apart, Places, TypeOK, Starting, DisableSteps, Tagged
<1>5. Fields'
  BY ThreadsAre DEF Fields, Places, Apart, TypeOK, Starting, DisableSteps, Tagged
<1> QED
  BY <1>1, <1>2, <1>3, <1>4, <1>5

LEMMA EnableInv ==
  ASSUME IInv, Enable
  PROVE  IInv'
<1> USE DEF Enable, Go, entered, fields, android, IInv
<1>1. TypeOK'
  <2>1. readerMode' \in [Activities -> Managers \cup {None}]
    BY ThreadsAre DEF TypeOK, Places
  <2>2. live' \in 0 .. MaxSessions
    BY DEF TypeOK
  <2>4. crashed' = TRUE \/ crashed' = crashed
    OBVIOUS
  <2>5. crashed' \in BOOLEAN
    BY <2>4 DEF TypeOK
  <2>3. pc' \in [Threads -> {"idle", "setAdapter", "checkEnabled", "setCallback", "enable",
                            "connect", "callback", "client", "try", "close"} \cup DisableSteps]
    BY DEF TypeOK
  <2> QED
    BY <2>1, <2>2, <2>3, <2>5 DEF TypeOK
<1>2. Places'
  BY ThreadsAre DEF Places, TypeOK, Starting, DisableSteps, Tagged
<1>3. Callbacks'
  BY ThreadsAre DEF Callbacks, Places, TypeOK, Starting, DisableSteps, Tagged
<1>4. Apart'
  BY ThreadsAre DEF Apart, Places, TypeOK, Starting, DisableSteps, Tagged
<1>5. Fields'
  BY ThreadsAre DEF Fields, Places, Apart, TypeOK, Starting, DisableSteps, Tagged
<1> QED
  BY <1>1, <1>2, <1>3, <1>4, <1>5

LEMMA ClientDisablesInv ==
  ASSUME IInv, NEW m \in Managers, ClientDisables(m)
  PROVE  IInv'
<1> USE DEF ClientDisables, Enter, Go, entered, fields, android, IInv
<1>1. TypeOK'
  BY ThreadsAre DEF TypeOK, Starting, DisableSteps, Tagged
<1>2. Places'
  BY ThreadsAre DEF Places, TypeOK, Starting, DisableSteps, Tagged
<1>3. Callbacks'
  BY ThreadsAre DEF Callbacks, Places, TypeOK, Starting, DisableSteps, Tagged
<1>4. Apart'
  BY ThreadsAre DEF Apart, Places, TypeOK, Starting, DisableSteps, Tagged
<1>5. Fields'
  BY ThreadsAre DEF Fields, Places, Apart, TypeOK, Starting, DisableSteps, Tagged
<1> QED
  BY <1>1, <1>2, <1>3, <1>4, <1>5

LEMMA DisableInv ==
  ASSUME IInv, NEW t \in Threads, Disable(t)
  PROVE  IInv'
<1> USE DEF Disable, Go, entered, fields, android, IInv
<1>1. TypeOK'
  BY ThreadsAre DEF TypeOK, Starting, DisableSteps, Tagged
<1>2. Places'
  BY ThreadsAre DEF Places, TypeOK, Starting, DisableSteps, Tagged
<1>3. Callbacks'
  BY ThreadsAre DEF Callbacks, Places, TypeOK, Starting, DisableSteps, Tagged
<1>4. Apart'
  BY ThreadsAre DEF Apart, Places, TypeOK, Starting, DisableSteps, Tagged
<1>5. Fields'
  BY ThreadsAre DEF Fields, Places, Apart, TypeOK, Starting, DisableSteps, Tagged
<1> QED
  BY <1>1, <1>2, <1>3, <1>4, <1>5

LEMMA CallDisableInv ==
  ASSUME IInv, NEW t \in Threads, CallDisable(t)
  PROVE  IInv'
<1> USE DEF CallDisable, Abandoned, Go, entered, fields, android, IInv
<1>1. TypeOK'
  BY ThreadsAre DEF TypeOK, Starting, DisableSteps, Tagged
<1>2. Places'
  BY ThreadsAre DEF Places, TypeOK, Starting, DisableSteps, Tagged
<1>3. Callbacks'
  BY ThreadsAre DEF Callbacks, Places, TypeOK, Starting, DisableSteps, Tagged
<1>4. Apart'
  BY ThreadsAre DEF Apart, Places, TypeOK, Starting, DisableSteps, Tagged
<1>5. Fields'
  BY ThreadsAre DEF Fields, Places, Apart, TypeOK, Starting, DisableSteps, Tagged
<1> QED
  BY <1>1, <1>2, <1>3, <1>4, <1>5

LEMMA DropAdapterInv ==
  ASSUME IInv, NEW t \in Threads, DropAdapter(t)
  PROVE  IInv'
<1> USE DEF DropAdapter, Go, entered, fields, android, IInv
<1>1. TypeOK'
  BY ThreadsAre DEF TypeOK, Starting, DisableSteps, Tagged
<1>2. Places'
  BY ThreadsAre DEF Places, TypeOK, Starting, DisableSteps, Tagged
<1>3. Callbacks'
  BY ThreadsAre DEF Callbacks, Places, TypeOK, Starting, DisableSteps, Tagged
<1>4. Apart'
  BY ThreadsAre DEF Apart, Places, TypeOK, Starting, DisableSteps, Tagged
<1>5. Fields'
  BY ThreadsAre DEF Fields, Places, Apart, TypeOK, Starting, DisableSteps, Tagged
<1> QED
  BY <1>1, <1>2, <1>3, <1>4, <1>5

LEMMA DropActivityInv ==
  ASSUME IInv, NEW t \in Threads, DropActivity(t)
  PROVE  IInv'
<1> USE DEF DropActivity, Go, entered, fields, android, IInv
<1>1. TypeOK'
  BY ThreadsAre DEF TypeOK, Starting, DisableSteps, Tagged
<1>2. Places'
  BY ThreadsAre DEF Places, TypeOK, Starting, DisableSteps, Tagged
<1>3. Callbacks'
  BY ThreadsAre DEF Callbacks, Places, TypeOK, Starting, DisableSteps, Tagged
<1>4. Apart'
  BY ThreadsAre DEF Apart, Places, TypeOK, Starting, DisableSteps, Tagged
<1>5. Fields'
  BY ThreadsAre DEF Fields, Places, Apart, TypeOK, Starting, DisableSteps, Tagged
<1> QED
  BY <1>1, <1>2, <1>3, <1>4, <1>5

LEMMA TagDiscoveredInv ==
  ASSUME IInv, NEW a \in Activities, TagDiscovered(a)
  PROVE  IInv'
<1> USE DEF TagDiscovered, Enter, Go, entered, fields, android, IInv
<1>1. TypeOK'
  BY ThreadsAre DEF TypeOK, Starting, DisableSteps, Tagged
<1>2. Places'
  BY ThreadsAre DEF Places, TypeOK, Starting, DisableSteps, Tagged
<1>3. Callbacks'
  BY ThreadsAre DEF Callbacks, Places, TypeOK, Starting, DisableSteps, Tagged
<1>4. Apart'
  BY ThreadsAre DEF Apart, Places, TypeOK, Starting, DisableSteps, Tagged
<1>5. Fields'
  BY ThreadsAre DEF Fields, Places, Apart, TypeOK, Starting, DisableSteps, Tagged
<1> QED
  BY <1>1, <1>2, <1>3, <1>4, <1>5

LEMMA ConnectInv ==
  ASSUME IInv, Connect
  PROVE  IInv'
<1> USE DEF Connect, Go, entered, fields, android, IInv
<1>1. TypeOK'
  BY ThreadsAre DEF TypeOK, Starting, DisableSteps, Tagged
<1>2. Places'
  BY ThreadsAre DEF Places, TypeOK, Starting, DisableSteps, Tagged
<1>3. Callbacks'
  BY ThreadsAre DEF Callbacks, Places, TypeOK, Starting, DisableSteps, Tagged
<1>4. Apart'
  BY ThreadsAre DEF Apart, Places, TypeOK, Starting, DisableSteps, Tagged
<1>5. Fields'
  BY ThreadsAre DEF Fields, Places, Apart, TypeOK, Starting, DisableSteps, Tagged
<1> QED
  BY <1>1, <1>2, <1>3, <1>4, <1>5

LEMMA CallbackInv ==
  ASSUME IInv, Callback
  PROVE  IInv'
<1> USE DEF Callback, Go, entered, fields, android, IInv
<1>1. TypeOK'
  <2>1. serving' \in 0 .. MaxSessions
    BY ThreadsAre DEF TypeOK, Places
  <2>3. pc' \in [Threads -> {"idle", "setAdapter", "checkEnabled", "setCallback", "enable",
                            "connect", "callback", "client", "try", "close"} \cup DisableSteps]
    BY DEF TypeOK
  <2> QED
    BY <2>1, <2>3 DEF TypeOK
<1>2. Places'
  BY ThreadsAre DEF Places, TypeOK, Starting, DisableSteps, Tagged
<1>3. Callbacks'
  BY ThreadsAre DEF Callbacks, Places, TypeOK, Starting, DisableSteps, Tagged
<1>4. Apart'
  BY ThreadsAre DEF Apart, Places, TypeOK, Starting, DisableSteps, Tagged
<1>5. Fields'
  BY ThreadsAre DEF Fields, Places, Apart, TypeOK, Starting, DisableSteps, Tagged
<1> QED
  BY <1>1, <1>2, <1>3, <1>4, <1>5

LEMMA ClientReturnsInv ==
  ASSUME IInv, ClientReturns
  PROVE  IInv'
<1> USE DEF ClientReturns, Go, entered, fields, android, IInv
<1>1. TypeOK'
  BY ThreadsAre DEF TypeOK, Starting, DisableSteps, Tagged
<1>2. Places'
  BY ThreadsAre DEF Places, TypeOK, Starting, DisableSteps, Tagged
<1>3. Callbacks'
  BY ThreadsAre DEF Callbacks, Places, TypeOK, Starting, DisableSteps, Tagged
<1>4. Apart'
  BY ThreadsAre DEF Apart, Places, TypeOK, Starting, DisableSteps, Tagged
<1>5. Fields'
  BY ThreadsAre DEF Fields, Places, Apart, TypeOK, Starting, DisableSteps, Tagged
<1> QED
  BY <1>1, <1>2, <1>3, <1>4, <1>5

LEMMA ClientThrowsAtOnceInv ==
  ASSUME IInv, ClientThrowsAtOnce
  PROVE  IInv'
<1> USE DEF ClientThrowsAtOnce, Abandoned, Go, entered, fields, android, IInv
<1>1. TypeOK'
  BY ThreadsAre DEF TypeOK, Starting, DisableSteps, Tagged
<1>2. Places'
  BY ThreadsAre DEF Places, TypeOK, Starting, DisableSteps, Tagged
<1>3. Callbacks'
  BY ThreadsAre DEF Callbacks, Places, TypeOK, Starting, DisableSteps, Tagged
<1>4. Apart'
  BY ThreadsAre DEF Apart, Places, TypeOK, Starting, DisableSteps, Tagged
<1>5. Fields'
  BY ThreadsAre DEF Fields, Places, Apart, TypeOK, Starting, DisableSteps, Tagged
<1> QED
  BY <1>1, <1>2, <1>3, <1>4, <1>5

LEMMA ClientBeginsInv ==
  ASSUME IInv, ClientBegins
  PROVE  IInv'
<1> USE DEF ClientBegins, Go, entered, fields, android, IInv
<1>1. TypeOK'
  <2>1. served' \subseteq 1 .. MaxSessions
    BY DEF TypeOK, Callbacks
  <2>2. live' \in 0 .. MaxSessions
    <3>1. live' = 0 \/ live' = live
      OBVIOUS
    <3> QED
      BY <3>1 DEF TypeOK
  <2>4. again' \in BOOLEAN
    OBVIOUS
  <2>3. pc' \in [Threads -> {"idle", "setAdapter", "checkEnabled", "setCallback", "enable",
                            "connect", "callback", "client", "try", "close"} \cup DisableSteps]
    BY DEF TypeOK
  <2> QED
    BY <2>1, <2>2, <2>3, <2>4 DEF TypeOK
<1>2. Places'
  BY ThreadsAre DEF Places, TypeOK, Starting, DisableSteps, Tagged
<1>3. Callbacks'
  BY ThreadsAre DEF Callbacks, Places, TypeOK, Starting, DisableSteps, Tagged
<1>4. Apart'
  BY ThreadsAre DEF Apart, Places, TypeOK, Starting, DisableSteps, Tagged
<1>5. Fields'
  BY ThreadsAre DEF Fields, Places, Apart, TypeOK, Starting, DisableSteps, Tagged
<1> QED
  BY <1>1, <1>2, <1>3, <1>4, <1>5

LEMMA ClientThrowsInv ==
  ASSUME IInv, ClientThrows
  PROVE  IInv'
<1> USE DEF ClientThrows, Go, entered, fields, android, IInv
<1>1. TypeOK'
  BY ThreadsAre DEF TypeOK, Starting, DisableSteps, Tagged
<1>2. Places'
  BY ThreadsAre DEF Places, TypeOK, Starting, DisableSteps, Tagged
<1>3. Callbacks'
  BY ThreadsAre DEF Callbacks, Places, TypeOK, Starting, DisableSteps, Tagged
<1>4. Apart'
  BY ThreadsAre DEF Apart, Places, TypeOK, Starting, DisableSteps, Tagged
<1>5. Fields'
  BY ThreadsAre DEF Fields, Places, Apart, TypeOK, Starting, DisableSteps, Tagged
<1> QED
  BY <1>1, <1>2, <1>3, <1>4, <1>5

LEMMA CloseInv ==
  ASSUME IInv, Close
  PROVE  IInv'
<1> USE DEF Close, Abandoned, Go, entered, fields, android, IInv
<1>1. TypeOK'
  BY ThreadsAre DEF TypeOK, Starting, DisableSteps, Tagged
<1>2. Places'
  BY ThreadsAre DEF Places, TypeOK, Starting, DisableSteps, Tagged
<1>3. Callbacks'
  BY ThreadsAre DEF Callbacks, Places, TypeOK, Starting, DisableSteps, Tagged
<1>4. Apart'
  BY ThreadsAre DEF Apart, Places, TypeOK, Starting, DisableSteps, Tagged
<1>5. Fields'
  BY ThreadsAre DEF Fields, Places, Apart, TypeOK, Starting, DisableSteps, Tagged
<1> QED
  BY <1>1, <1>2, <1>3, <1>4, <1>5

LEMMA SwitchInv ==
  ASSUME IInv, Switch
  PROVE  IInv'
<1> USE DEF Switch, Go, entered, fields, android, IInv
<1>1. TypeOK'
  BY ThreadsAre DEF TypeOK, Starting, DisableSteps, Tagged
<1>2. Places'
  BY ThreadsAre DEF Places, TypeOK, Starting, DisableSteps, Tagged
<1>3. Callbacks'
  BY ThreadsAre DEF Callbacks, Places, TypeOK, Starting, DisableSteps, Tagged
<1>4. Apart'
  BY ThreadsAre DEF Apart, Places, TypeOK, Starting, DisableSteps, Tagged
<1>5. Fields'
  BY ThreadsAre DEF Fields, Places, Apart, TypeOK, Starting, DisableSteps, Tagged
<1> QED
  BY <1>1, <1>2, <1>3, <1>4, <1>5

LEMMA StutterInv ==
  ASSUME IInv, UNCHANGED vars
  PROVE  IInv'
<1> USE DEF vars, entered, fields, android, IInv
<1>1. TypeOK'
  BY ThreadsAre DEF TypeOK, Starting, DisableSteps, Tagged
<1>2. Places'
  BY ThreadsAre DEF Places, TypeOK, Starting, DisableSteps, Tagged
<1>3. Callbacks'
  BY ThreadsAre DEF Callbacks, Places, TypeOK, Starting, DisableSteps, Tagged
<1>4. Apart'
  BY ThreadsAre DEF Apart, Places, TypeOK, Starting, DisableSteps, Tagged
<1>5. Fields'
  BY ThreadsAre DEF Fields, Places, Apart, TypeOK, Starting, DisableSteps, Tagged
<1> QED
  BY <1>1, <1>2, <1>3, <1>4, <1>5

LEMMA StartDiscoveryMode ==
  ASSUME IInv, ModeInv, OneActivity, NEW m \in Managers, NEW a \in Activities, StartDiscovery(m, a)
  PROVE  ModeInv'
<1> USE DEF StartDiscovery, Enter, Go, entered, fields, android, IInv, ModeInv
<1> USE DEF OneActivity
<1>1. Monitoring'
  BY ThreadsAre DEF Monitoring, Places, Apart, Callbacks, Fields, TypeOK, Starting, DisableSteps, Tagged
<1>2. Served'
  BY ThreadsAre DEF Served, Places, Apart, Callbacks, Fields, Monitoring, TypeOK, Starting, DisableSteps, Tagged
<1>3. Waiting'
  BY ThreadsAre DEF Waiting, Places, Apart, Callbacks, Fields, Monitoring, Served, Monitors, TypeOK, Starting, DisableSteps, Tagged
<1> QED
  BY <1>1, <1>2, <1>3

LEMMA SetAdapterMode ==
  ASSUME IInv, ModeInv, OneActivity, SetAdapter
  PROVE  ModeInv'
<1> USE DEF SetAdapter, Go, entered, fields, android, IInv, ModeInv
<1> USE DEF OneActivity
<1>1. Monitoring'
  BY ThreadsAre DEF Monitoring, Places, Apart, Callbacks, Fields, TypeOK, Starting, DisableSteps, Tagged
<1>2. Served'
  BY ThreadsAre DEF Served, Places, Apart, Callbacks, Fields, Monitoring, TypeOK, Starting, DisableSteps, Tagged
<1>3. Waiting'
  BY ThreadsAre DEF Waiting, Places, Apart, Callbacks, Fields, Monitoring, Served, Monitors, TypeOK, Starting, DisableSteps, Tagged
<1> QED
  BY <1>1, <1>2, <1>3

LEMMA CheckEnabledMode ==
  ASSUME IInv, ModeInv, OneActivity, CheckEnabled
  PROVE  ModeInv'
<1> USE DEF CheckEnabled, Go, entered, fields, android, IInv, ModeInv
<1> USE DEF OneActivity
<1>1. Monitoring'
  BY ThreadsAre DEF Monitoring, Places, Apart, Callbacks, Fields, TypeOK, Starting, DisableSteps, Tagged
<1>2. Served'
  BY ThreadsAre DEF Served, Places, Apart, Callbacks, Fields, Monitoring, TypeOK, Starting, DisableSteps, Tagged
<1>3. Waiting'
  BY ThreadsAre DEF Waiting, Places, Apart, Callbacks, Fields, Monitoring, Served, Monitors, TypeOK, Starting, DisableSteps, Tagged
<1> QED
  BY <1>1, <1>2, <1>3

LEMMA SetCallbackMode ==
  ASSUME IInv, ModeInv, OneActivity, SetCallback
  PROVE  ModeInv'
<1> USE DEF SetCallback, Go, entered, fields, android, IInv, ModeInv
<1> USE DEF OneActivity
<1>1. Monitoring'
  BY ThreadsAre DEF Monitoring, Places, Apart, Callbacks, Fields, TypeOK, Starting, DisableSteps, Tagged
<1>2. Served'
  BY ThreadsAre DEF Served, Places, Apart, Callbacks, Fields, Monitoring, TypeOK, Starting, DisableSteps, Tagged
<1>3. Waiting'
  BY ThreadsAre DEF Waiting, Places, Apart, Callbacks, Fields, Monitoring, Served, Monitors, TypeOK, Starting, DisableSteps, Tagged
<1> QED
  BY <1>1, <1>2, <1>3

LEMMA EnableMode ==
  ASSUME IInv, ModeInv, OneActivity, Enable
  PROVE  ModeInv'
<1> USE DEF Enable, Go, entered, fields, android, IInv, ModeInv
<1> USE DEF OneActivity
<1>1. Monitoring'
  BY ThreadsAre DEF Monitoring, Places, Apart, Callbacks, Fields, TypeOK, Starting, DisableSteps, Tagged
<1>2. Served'
  BY ThreadsAre DEF Served, Places, Apart, Callbacks, Fields, Monitoring, TypeOK, Starting, DisableSteps, Tagged
<1>3. Waiting'
  BY ThreadsAre DEF Waiting, Places, Apart, Callbacks, Fields, Monitoring, Served, Monitors, TypeOK, Starting, DisableSteps, Tagged
<1> QED
  BY <1>1, <1>2, <1>3

LEMMA ClientDisablesMode ==
  ASSUME IInv, ModeInv, OneActivity, NEW m \in Managers, ClientDisables(m)
  PROVE  ModeInv'
<1> USE DEF ClientDisables, Enter, Go, entered, fields, android, IInv, ModeInv
<1> USE DEF OneActivity
<1>1. Monitoring'
  BY ThreadsAre DEF Monitoring, Places, Apart, Callbacks, Fields, TypeOK, Starting, DisableSteps, Tagged
<1>2. Served'
  BY ThreadsAre DEF Served, Places, Apart, Callbacks, Fields, Monitoring, TypeOK, Starting, DisableSteps, Tagged
<1>3. Waiting'
  BY ThreadsAre DEF Waiting, Places, Apart, Callbacks, Fields, Monitoring, Served, Monitors, TypeOK, Starting, DisableSteps, Tagged
<1> QED
  BY <1>1, <1>2, <1>3

LEMMA DisableMode ==
  ASSUME IInv, ModeInv, OneActivity, NEW t \in Threads, Disable(t)
  PROVE  ModeInv'
<1> USE DEF Disable, Go, entered, fields, android, IInv, ModeInv
<1> USE DEF OneActivity
<1>1. Monitoring'
  BY ThreadsAre DEF Monitoring, Places, Apart, Callbacks, Fields, TypeOK, Starting, DisableSteps, Tagged
<1>2. Served'
  BY ThreadsAre DEF Served, Places, Apart, Callbacks, Fields, Monitoring, TypeOK, Starting, DisableSteps, Tagged
<1>3. Waiting'
  BY ThreadsAre DEF Waiting, Places, Apart, Callbacks, Fields, Monitoring, Served, Monitors, TypeOK, Starting, DisableSteps, Tagged
<1> QED
  BY <1>1, <1>2, <1>3

LEMMA CallDisableMode ==
  ASSUME IInv, ModeInv, OneActivity, NEW t \in Threads, CallDisable(t)
  PROVE  ModeInv'
<1> USE DEF CallDisable, Abandoned, Go, entered, fields, android, IInv, ModeInv
<1> USE DEF OneActivity
<1>1. Monitoring'
  BY ThreadsAre DEF Monitoring, Places, Apart, Callbacks, Fields, TypeOK, Starting, DisableSteps, Tagged
<1>2. Served'
  BY ThreadsAre DEF Served, Places, Apart, Callbacks, Fields, Monitoring, TypeOK, Starting, DisableSteps, Tagged
<1>3. Waiting'
  BY ThreadsAre DEF Waiting, Places, Apart, Callbacks, Fields, Monitoring, Served, Monitors, TypeOK, Starting, DisableSteps, Tagged
<1> QED
  BY <1>1, <1>2, <1>3

LEMMA DropAdapterMode ==
  ASSUME IInv, ModeInv, OneActivity, NEW t \in Threads, DropAdapter(t)
  PROVE  ModeInv'
<1> USE DEF DropAdapter, Go, entered, fields, android, IInv, ModeInv
<1> USE DEF OneActivity
<1>1. Monitoring'
  BY ThreadsAre DEF Monitoring, Places, Apart, Callbacks, Fields, TypeOK, Starting, DisableSteps, Tagged
<1>2. Served'
  BY ThreadsAre DEF Served, Places, Apart, Callbacks, Fields, Monitoring, TypeOK, Starting, DisableSteps, Tagged
<1>3. Waiting'
  BY ThreadsAre DEF Waiting, Places, Apart, Callbacks, Fields, Monitoring, Served, Monitors, TypeOK, Starting, DisableSteps, Tagged
<1> QED
  BY <1>1, <1>2, <1>3

LEMMA DropActivityMode ==
  ASSUME IInv, ModeInv, OneActivity, NEW t \in Threads, DropActivity(t)
  PROVE  ModeInv'
<1> USE DEF DropActivity, Go, entered, fields, android, IInv, ModeInv
<1> USE DEF OneActivity
<1>1. Monitoring'
  BY ThreadsAre DEF Monitoring, Places, Apart, Callbacks, Fields, TypeOK, Starting, DisableSteps, Tagged
<1>2. Served'
  BY ThreadsAre DEF Served, Places, Apart, Callbacks, Fields, Monitoring, TypeOK, Starting, DisableSteps, Tagged
<1>3. Waiting'
  BY ThreadsAre DEF Waiting, Places, Apart, Callbacks, Fields, Monitoring, Served, Monitors, TypeOK, Starting, DisableSteps, Tagged
<1> QED
  BY <1>1, <1>2, <1>3

LEMMA TagDiscoveredMode ==
  ASSUME IInv, ModeInv, OneActivity, NEW a \in Activities, TagDiscovered(a)
  PROVE  ModeInv'
<1> USE DEF TagDiscovered, Enter, Go, entered, fields, android, IInv, ModeInv
<1> USE DEF OneActivity
<1>1. Monitoring'
  BY ThreadsAre DEF Monitoring, Places, Apart, Callbacks, Fields, TypeOK, Starting, DisableSteps, Tagged
<1>2. Served'
  BY ThreadsAre DEF Served, Places, Apart, Callbacks, Fields, Monitoring, TypeOK, Starting, DisableSteps, Tagged
<1>3. Waiting'
  BY ThreadsAre DEF Waiting, Places, Apart, Callbacks, Fields, Monitoring, Served, Monitors, TypeOK, Starting, DisableSteps, Tagged
<1> QED
  BY <1>1, <1>2, <1>3

LEMMA ConnectMode ==
  ASSUME IInv, ModeInv, OneActivity, Connect
  PROVE  ModeInv'
<1> USE DEF Connect, Go, entered, fields, android, IInv, ModeInv
<1> USE DEF OneActivity
<1>1. Monitoring'
  BY ThreadsAre DEF Monitoring, Places, Apart, Callbacks, Fields, TypeOK, Starting, DisableSteps, Tagged
<1>2. Served'
  BY ThreadsAre DEF Served, Places, Apart, Callbacks, Fields, Monitoring, TypeOK, Starting, DisableSteps, Tagged
<1>3. Waiting'
  BY ThreadsAre DEF Waiting, Places, Apart, Callbacks, Fields, Monitoring, Served, Monitors, TypeOK, Starting, DisableSteps, Tagged
<1> QED
  BY <1>1, <1>2, <1>3

LEMMA CallbackMode ==
  ASSUME IInv, ModeInv, OneActivity, Callback
  PROVE  ModeInv'
<1> USE DEF Callback, Go, entered, fields, android, IInv, ModeInv
<1> USE DEF OneActivity
<1>1. Monitoring'
  BY ThreadsAre DEF Monitoring, Places, Apart, Callbacks, Fields, TypeOK, Starting, DisableSteps, Tagged
<1>2. Served'
  BY ThreadsAre DEF Served, Places, Apart, Callbacks, Fields, Monitoring, TypeOK, Starting, DisableSteps, Tagged
<1>3. Waiting'
  BY ThreadsAre DEF Waiting, Places, Apart, Callbacks, Fields, Monitoring, Served, Monitors, TypeOK, Starting, DisableSteps, Tagged
<1> QED
  BY <1>1, <1>2, <1>3

LEMMA ClientReturnsMode ==
  ASSUME IInv, ModeInv, OneActivity, ClientReturns
  PROVE  ModeInv'
<1> USE DEF ClientReturns, Go, entered, fields, android, IInv, ModeInv
<1> USE DEF OneActivity
<1>1. Monitoring'
  BY ThreadsAre DEF Monitoring, Places, Apart, Callbacks, Fields, TypeOK, Starting, DisableSteps, Tagged
<1>2. Served'
  BY ThreadsAre DEF Served, Places, Apart, Callbacks, Fields, Monitoring, TypeOK, Starting, DisableSteps, Tagged
<1>3. Waiting'
  BY ThreadsAre DEF Waiting, Places, Apart, Callbacks, Fields, Monitoring, Served, Monitors, TypeOK, Starting, DisableSteps, Tagged
<1> QED
  BY <1>1, <1>2, <1>3

LEMMA ClientThrowsAtOnceMode ==
  ASSUME IInv, ModeInv, OneActivity, ClientThrowsAtOnce
  PROVE  ModeInv'
<1> USE DEF ClientThrowsAtOnce, Abandoned, Go, entered, fields, android, IInv, ModeInv
<1> USE DEF OneActivity
<1>1. Monitoring'
  BY ThreadsAre DEF Monitoring, Places, Apart, Callbacks, Fields, TypeOK, Starting, DisableSteps, Tagged
<1>2. Served'
  BY ThreadsAre DEF Served, Places, Apart, Callbacks, Fields, Monitoring, TypeOK, Starting, DisableSteps, Tagged
<1>3. Waiting'
  BY ThreadsAre DEF Waiting, Places, Apart, Callbacks, Fields, Monitoring, Served, Monitors, TypeOK, Starting, DisableSteps, Tagged
<1> QED
  BY <1>1, <1>2, <1>3

LEMMA ClientBeginsMode ==
  ASSUME IInv, ModeInv, OneActivity, ClientBegins
  PROVE  ModeInv'
<1> USE DEF ClientBegins, Go, entered, fields, android, IInv, ModeInv
<1> USE DEF OneActivity
<1>1. Monitoring'
  BY ThreadsAre DEF Monitoring, Places, Apart, Callbacks, Fields, TypeOK, Starting, DisableSteps, Tagged
<1>2. Served'
  <2> SUFFICES ASSUME overlap # "same"
               PROVE  Served'
    BY DEF Served
  <2>1. /\ manager["binder"] \in Managers
        /\ serving = clientCallback[manager["binder"]]
        /\ serving \in 1 .. session /\ serving \notin served
    BY ThreadsAre DEF Served, TypeOK, Places, Callbacks
  <2>2. ~again' /\ served' \subseteq 1 .. session /\ served' \subseteq served \cup {serving}
    BY <2>1 DEF Served, TypeOK
  <2>3. pc["ui"] \in Starting => session # serving
    <3>1. ASSUME pc["ui"] = "enable" PROVE session # serving
      BY <2>1, <3>1, ThreadsAre DEF Callbacks, Apart, TypeOK, Places, Starting
    <3> QED
      BY <2>1, <3>1, ThreadsAre DEF Callbacks, Starting
  <2>4. pc'["ui"] = pc["ui"] /\ pc'["binder"] = "try"
    BY ThreadsAre DEF TypeOK
  <2>5. ASSUME NEW a \in Activities, readerMode[a] # None, clientCallback[readerMode[a]] \in served'
        PROVE  manager["binder"] = readerMode[a]
    <3>1. readerMode[a] \in Managers
      BY <2>5 DEF TypeOK
    <3>2. clientCallback[readerMode[a]] \notin served
      BY <2>5 DEF Served
    <3>3. clientCallback[readerMode[a]] = serving
      BY <2>2, <2>5, <3>2
    <3> QED
      BY <2>1, <3>1, <3>3 DEF Callbacks
  <2> QED
    BY <2>2, <2>3, <2>4, <2>5 DEF Served
<1>3. Waiting'
  BY ThreadsAre DEF Waiting, Places, Apart, Callbacks, Fields, Monitoring, Served, Monitors, TypeOK, Starting, DisableSteps, Tagged
<1> QED
  BY <1>1, <1>2, <1>3

LEMMA ClientThrowsMode ==
  ASSUME IInv, ModeInv, OneActivity, ClientThrows
  PROVE  ModeInv'
<1> USE DEF ClientThrows, Go, entered, fields, android, IInv, ModeInv
<1> USE DEF OneActivity
<1>1. Monitoring'
  BY ThreadsAre DEF Monitoring, Places, Apart, Callbacks, Fields, TypeOK, Starting, DisableSteps, Tagged
<1>2. Served'
  BY ThreadsAre DEF Served, Places, Apart, Callbacks, Fields, Monitoring, TypeOK, Starting, DisableSteps, Tagged
<1>3. Waiting'
  BY ThreadsAre DEF Waiting, Places, Apart, Callbacks, Fields, Monitoring, Served, Monitors, TypeOK, Starting, DisableSteps, Tagged
<1> QED
  BY <1>1, <1>2, <1>3

LEMMA CloseMode ==
  ASSUME IInv, ModeInv, OneActivity, Close
  PROVE  ModeInv'
<1> USE DEF Close, Abandoned, Go, entered, fields, android, IInv, ModeInv
<1> USE DEF OneActivity
<1>1. Monitoring'
  BY ThreadsAre DEF Monitoring, Places, Apart, Callbacks, Fields, TypeOK, Starting, DisableSteps, Tagged
<1>2. Served'
  BY ThreadsAre DEF Served, Places, Apart, Callbacks, Fields, Monitoring, TypeOK, Starting, DisableSteps, Tagged
<1>3. Waiting'
  BY ThreadsAre DEF Waiting, Places, Apart, Callbacks, Fields, Monitoring, Served, Monitors, TypeOK, Starting, DisableSteps, Tagged
<1> QED
  BY <1>1, <1>2, <1>3

LEMMA SwitchMode ==
  ASSUME IInv, ModeInv, OneActivity, Switch
  PROVE  ModeInv'
<1> USE DEF Switch, Go, entered, fields, android, IInv, ModeInv
<1> USE DEF OneActivity
<1>1. Monitoring'
  BY ThreadsAre DEF Monitoring, Places, Apart, Callbacks, Fields, TypeOK, Starting, DisableSteps, Tagged
<1>2. Served'
  BY ThreadsAre DEF Served, Places, Apart, Callbacks, Fields, Monitoring, TypeOK, Starting, DisableSteps, Tagged
<1>3. Waiting'
  BY ThreadsAre DEF Waiting, Places, Apart, Callbacks, Fields, Monitoring, Served, Monitors, TypeOK, Starting, DisableSteps, Tagged
<1> QED
  BY <1>1, <1>2, <1>3

LEMMA StutterMode ==
  ASSUME IInv, ModeInv, OneActivity, UNCHANGED vars
  PROVE  ModeInv'
<1> USE DEF vars, entered, fields, android, IInv, ModeInv
<1> USE DEF OneActivity
<1>1. Monitoring'
  BY ThreadsAre DEF Monitoring, Places, Apart, Callbacks, Fields, TypeOK, Starting, DisableSteps, Tagged
<1>2. Served'
  BY ThreadsAre DEF Served, Places, Apart, Callbacks, Fields, Monitoring, TypeOK, Starting, DisableSteps, Tagged
<1>3. Waiting'
  BY ThreadsAre DEF Waiting, Places, Apart, Callbacks, Fields, Monitoring, Served, Monitors, TypeOK, Starting, DisableSteps, Tagged
<1> QED
  BY <1>1, <1>2, <1>3

LEMMA StepInv == ASSUME IInv, [Next]_vars PROVE IInv'
<1>1. ASSUME NEW m \in Managers, NEW a \in Activities, StartDiscovery(m, a) PROVE IInv'
  BY <1>1, StartDiscoveryInv
<1>2. ASSUME NEW m \in Managers, ClientDisables(m) PROVE IInv'
  BY <1>2, ClientDisablesInv
<1>3. ASSUME NEW a \in Activities, TagDiscovered(a) PROVE IInv'
  BY <1>3, TagDiscoveredInv
<1>4. ASSUME NEW t \in Threads, Disable(t) \/ CallDisable(t) \/ DropAdapter(t) \/ DropActivity(t)
      PROVE  IInv'
  BY <1>4, DisableInv, CallDisableInv, DropAdapterInv, DropActivityInv
<1>5. CASE UI
  <2>1. CASE SetAdapter \/ CheckEnabled \/ SetCallback \/ Enable
    BY <2>1, SetAdapterInv, CheckEnabledInv, SetCallbackInv, EnableInv
  <2> QED
    BY <1>4, <1>5, <2>1, ThreadsAre DEF UI
<1>6. CASE Binder
  <2>1. CASE Connect \/ Callback \/ Close
    BY <2>1, ConnectInv, CallbackInv, CloseInv
  <2>2. CASE ClientThrowsAtOnce \/ ClientBegins \/ ClientReturns \/ ClientThrows
    BY <2>2, ClientThrowsAtOnceInv, ClientBeginsInv, ClientReturnsInv, ClientThrowsInv
  <2> QED
    BY <1>4, <1>6, <2>1, <2>2, ThreadsAre DEF Binder
<1>7. CASE Switch
  BY <1>7, SwitchInv
<1>8. CASE UNCHANGED vars
  BY <1>8, StutterInv
<1> QED
  BY <1>1, <1>2, <1>3, <1>5, <1>6, <1>7, <1>8 DEF Next

LEMMA StepMode == ASSUME IInv, ModeInv, OneActivity, [Next]_vars PROVE ModeInv'
<1>1. ASSUME NEW m \in Managers, NEW a \in Activities, StartDiscovery(m, a) PROVE ModeInv'
  BY <1>1, StartDiscoveryMode
<1>2. ASSUME NEW m \in Managers, ClientDisables(m) PROVE ModeInv'
  BY <1>2, ClientDisablesMode
<1>3. ASSUME NEW a \in Activities, TagDiscovered(a) PROVE ModeInv'
  BY <1>3, TagDiscoveredMode
<1>4. ASSUME NEW t \in Threads, Disable(t) \/ CallDisable(t) \/ DropAdapter(t) \/ DropActivity(t)
      PROVE  ModeInv'
  BY <1>4, DisableMode, CallDisableMode, DropAdapterMode, DropActivityMode
<1>5. CASE UI
  <2>1. CASE SetAdapter \/ CheckEnabled \/ SetCallback \/ Enable
    BY <2>1, SetAdapterMode, CheckEnabledMode, SetCallbackMode, EnableMode
  <2> QED
    BY <1>4, <1>5, <2>1, ThreadsAre DEF UI
<1>6. CASE Binder
  <2>1. CASE Connect \/ Callback \/ Close
    BY <2>1, ConnectMode, CallbackMode, CloseMode
  <2>2. CASE ClientThrowsAtOnce \/ ClientBegins \/ ClientReturns \/ ClientThrows
    BY <2>2, ClientThrowsAtOnceMode, ClientBeginsMode, ClientReturnsMode, ClientThrowsMode
  <2> QED
    BY <1>4, <1>6, <2>1, <2>2, ThreadsAre DEF Binder
<1>7. CASE Switch
  BY <1>7, SwitchMode
<1>8. CASE UNCHANGED vars
  BY <1>8, StutterMode
<1> QED
  BY <1>1, <1>2, <1>3, <1>5, <1>6, <1>7, <1>8 DEF Next

LEMMA InvariantHolds == Spec => []IInv
<1>1. Init => IInv
  BY InitInv
<1> QED
  BY <1>1, StepInv, PTL DEF Spec

LEMMA ModeHolds == ASSUME OneActivity PROVE Spec => []ModeInv
<1>1. Init => ModeInv
  BY InitInv
<1>2. IInv /\ ModeInv /\ [Next]_vars => ModeInv'
  BY StepMode
<1> QED
  BY <1>1, <1>2, InvariantHolds, PTL DEF Spec

-----------------------------------------------------------------------------
(* The theorems *)

\* A field of the manager is null or refers to what it is declared for.
THEOREM TypeCorrect == Spec => []TypeOK
<1>1. IInv => TypeOK
  BY DEF IInv
<1> QED
  BY <1>1, InvariantHolds, PTL

\* Threads that keep to a manager each meet no field that has become null under them,
\* however many managers and activities there are.
THEOREM NoNullFieldHolds == Spec => []NoNullField
<1>1. IInv => NoNullField
  BY DEF IInv, Fields, NoNullField
<1> QED
  BY <1>1, InvariantHolds, PTL

\* On one activity, a session does its work on a card once, although a callback that
\* throws before its work leaves the reader mode on.
THEOREM WorkOncePerSessionHolds ==
  ASSUME OneActivity
  PROVE  Spec => []WorkOncePerSession
<1>1. ModeInv => WorkOncePerSession
  BY DEF ModeInv, Served, WorkOncePerSession
<1> QED
  BY <1>1, ModeHolds, PTL

\* On one activity, a session that waits for its tag is monitored, as long as no client
\* starts or stops one while a callback runs.
THEOREM MonitorsHolds ==
  ASSUME OneActivity
  PROVE  Spec => []Monitors
<1>1. ModeInv => Monitors
  BY DEF ModeInv, Waiting, Monitors
<1> QED
  BY <1>1, ModeHolds, PTL
===============================================================================
