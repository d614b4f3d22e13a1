----------------------- MODULE DeviceDetectorFragment -----------------------
(***************************************************************************)
(* The Kotlin side of device detection: DeviceDetectorFragment opens a     *)
(* UsbConnector for every permitted camera, tracks it in mConnectors,      *)
(* hands its file descriptor to the native DeviceDetector, and retains     *)
(* every connector it has closed in a graveyard, because UsbConnector has  *)
(* a finalizer that closes the descriptor a second time.                   *)
(*                                                                         *)
(* Three threads run this code: "main" (fragment lifecycle and             *)
(* rescanConnectedDevices), "usb" (USBMonitor's handler thread, which runs *)
(* the callbacks) and "async" (mAsyncHandler: retries and refreshes).      *)
(* They meet in mConnectors, guarded by its monitor `lock', and in         *)
(* mUSBMonitor and mAsyncHandler, which nothing guards.                    *)
(*                                                                         *)
(* External: USBMonitor, UsbConnector, the USB bus with its user, the      *)
(* Android lifecycle, and the native manager behind nativeAdd/nativeRemove.*)
(***************************************************************************)
EXTENDS Integers, Sequences, FiniteSets

CONSTANTS
    Device,         \* UsbDevice values the bus can present
    Connector,      \* UsbConnector objects openDevice can create
    NoDevice, NoConnector,
    MaxRetry,       \* addDevice retries while retryCount < MaxRetry (3 in the code)
    MaxFaults,      \* bound: IOExceptions of openDevice on a healthy device
    MaxInputs       \* bound: stimuli of the bus, of Android, of Dart and of native code

ASSUME NoneAssumption == NoDevice \notin Device /\ NoConnector \notin Connector
ASSUME BoundAssumption == MaxRetry \in Nat /\ MaxFaults \in Nat /\ MaxInputs \in Nat

Thread == {"main", "usb", "async"}
Callback == {"attach", "permission", "detach"}   \* USBMonitor.Callback, those that act

VARIABLES
    \* the bus and its user
    attached,       \* devices physically present (USBMonitor.deviceList)
    permitted,      \* devices the user has granted
    requested,      \* devices with a permission dialog open
    events,         \* callbacks USBMonitor has posted and not yet run, per device
    \* the fragment's fields
    monitor,        \* mUSBMonitor: "null", "unregistered" or "registered"
    handler,        \* mAsyncHandler # null
    retries,        \* delayed retries in mAsyncHandler, counted per device and attempt
    refreshes,      \* refresh requests posted to mAsyncHandler
    connectors,     \* mConnectors
    graveyard,      \* sGlobalGraveyard (process lifetime)
    instanceGraveyard, \* mClosedConnectorGraveyard
    \* what the fragment acts on
    status,         \* life of each UsbConnector object
    native,         \* the connector whose descriptor native code holds for a device
    \* threads
    lock,           \* owner of the mConnectors monitor, or "free"
    pc, dev, retry, conn,  \* control point and locals of each thread's call
    work,           \* main: devices its loop has still to visit
    faults, inputs  \* what has been used of the bounds

bus       == <<attached, permitted, requested, events>>
fields    == <<monitor, handler>>
tasks     == <<retries, refreshes>>
ownership == <<connectors, graveyard, instanceGraveyard, status>>
locals    == <<dev, retry, conn, work>>
bounds    == <<faults, inputs>>
vars == <<bus, fields, tasks, ownership, native, lock, pc, locals, bounds>>

NoTracked == [d \in Device |-> NoConnector]
NoRetries == [d \in Device |-> [n \in 1..MaxRetry |-> 0]]
NoEvents  == [d \in Device |-> << >>]

Init ==
    /\ attached = {} /\ permitted = {} /\ requested = {} /\ events = NoEvents
    /\ monitor = "null" /\ handler = FALSE
    /\ retries = NoRetries /\ refreshes = 0
    /\ connectors = NoTracked /\ native = NoTracked
    /\ graveyard = {} /\ instanceGraveyard = {}
    /\ status = [c \in Connector |-> "unused"]
    /\ lock = "free"
    /\ pc = [t \in Thread |-> "idle"]
    /\ dev = [t \in Thread |-> NoDevice]
    /\ retry = [t \in Thread |-> 0]
    /\ conn = [t \in Thread |-> NoConnector]
    /\ work = {}
    /\ faults = 0 /\ inputs = 0

-----------------------------------------------------------------------------
(* Threads.  A call returns to the loop that made it: on main the re-scan  *)
(* of onStart and rescanConnectedDevices (registered) or onStop's loop.    *)

Idle(t) == pc[t] = "idle"

Home(t) == IF t # "main" THEN "idle"
           ELSE IF monitor = "registered" THEN "scan" ELSE "stopLoop"

Goto(t, label) == pc' = [pc EXCEPT ![t] = label]

Call(t, d, n, label) ==
    /\ Goto(t, label)
    /\ dev' = [dev EXCEPT ![t] = d]
    /\ retry' = [retry EXCEPT ![t] = n]
    /\ UNCHANGED conn

Return(t) ==
    /\ Goto(t, Home(t))
    /\ dev' = [dev EXCEPT ![t] = NoDevice]
    /\ retry' = [retry EXCEPT ![t] = 0]
    /\ conn' = [conn EXCEPT ![t] = NoConnector]

Crashed == pc["main"] = "crashed"
Stimulus == ~Crashed /\ inputs < MaxInputs /\ inputs' = inputs + 1

\* mUSBMonitor!! on a null field: the uncaught NullPointerException ends the process.
NullDereference ==
    /\ monitor = "null"
    /\ pc' = [t \in Thread |-> "crashed"]
    /\ UNCHANGED <<bus, fields, tasks, ownership, native, lock, locals, bounds>>

Post(d, callback) == [events EXCEPT ![d] = Append(@, callback)]
Broadcast(d, callback) == IF monitor = "registered" THEN Post(d, callback) ELSE events

-----------------------------------------------------------------------------
(* The bus and its user (external).                                        *)

PlugIn(d) ==
    /\ d \notin attached
    /\ attached' = attached \cup {d}
    /\ permitted' \in {permitted, permitted \cup {d}}
    /\ events' = Broadcast(d, "attach")
    /\ Stimulus
    /\ UNCHANGED <<requested, fields, tasks, ownership, native, lock, pc, locals, faults>>

Unplug(d) ==
    /\ d \in attached
    /\ attached' = attached \ {d}
    /\ permitted' = permitted \ {d}
    /\ requested' = requested \ {d}
    /\ events' = Broadcast(d, "detach")
    /\ Stimulus
    /\ UNCHANGED <<fields, tasks, ownership, native, lock, pc, locals, faults>>

GrantPermission(d) ==
    /\ d \in requested
    /\ requested' = requested \ {d}
    /\ permitted' = permitted \cup {d}
    /\ events' = Broadcast(d, "permission")
    /\ UNCHANGED <<attached, fields, tasks, ownership, native, lock, pc, locals, bounds>>

\* The garbage collector finalizes an object nothing refers to any more:
\* UsbConnector.finalize calls close() without looking whether it is closed.
Reachable == {connectors[d] : d \in Device} \cup graveyard \cup instanceGraveyard
                \cup {conn[t] : t \in Thread}

Finalize(c) ==
    /\ ~Crashed
    /\ c \notin Reachable
    /\ status[c] \in {"open", "closed"}
    /\ status' = [status EXCEPT ![c] = IF @ = "open" THEN "finalized" ELSE "aborted"]
    /\ UNCHANGED <<bus, fields, tasks, connectors, graveyard, instanceGraveyard,
                   native, lock, pc, locals, bounds>>

-----------------------------------------------------------------------------
(* addDevice, on any of the three threads.                                 *)

CheckPermission(t) ==
    /\ pc[t] = "check"
    /\ \/ NullDereference
       \/ /\ monitor # "null"
          /\ IF dev[t] \in permitted THEN Goto(t, "open") /\ UNCHANGED <<dev, retry, conn>>
                                     ELSE Return(t)
          /\ UNCHANGED <<bus, fields, tasks, ownership, native, lock, work, bounds>>

\* openDevice returns an object that did not exist before.
FreshConnector == CHOOSE c \in Connector : status[c] = "unused"

OpenDevice(t) ==
    /\ pc[t] = "open"
    /\ monitor # "null"
    /\ dev[t] \in permitted
    /\ \E c \in Connector : status[c] = "unused"
    /\ status' = [status EXCEPT ![FreshConnector] = "open"]
    /\ conn' = [conn EXCEPT ![t] = FreshConnector]
    /\ Goto(t, "put")
    /\ UNCHANGED <<bus, fields, tasks, connectors, graveyard, instanceGraveyard, native,
                   lock, dev, retry, work, bounds>>

\* openDevice throws IOException: the device is gone, or the bus is settling.
\* connector is still null, and the retry is posted if there is a handler.
RetryOnceLess(d, n) ==      \* mutant: the retry budget is one short
    retries' = IF n + 1 < MaxRetry /\ handler THEN [retries EXCEPT ![d][n + 1] = @ + 1] ELSE retries

ScheduleRetry(d, n) ==
    retries' = IF n < MaxRetry /\ handler THEN [retries EXCEPT ![d][n + 1] = @ + 1] ELSE retries

OpenIOException(t) ==
    /\ pc[t] = "open"
    /\ monitor # "null"
    /\ \/ dev[t] \notin permitted /\ UNCHANGED faults
       \/ dev[t] \in permitted /\ faults < MaxFaults /\ faults' = faults + 1
    /\ ScheduleRetry(dev[t], retry[t])
    /\ Return(t)
    /\ UNCHANGED <<bus, fields, refreshes, ownership, native, lock, work, inputs>>

\* openDevice throws anything else (permission revoked, mUSBMonitor!! is null).
OpenOtherException(t) ==
    /\ pc[t] = "open"
    /\ monitor = "null" \/ dev[t] \notin permitted
    /\ Return(t)
    /\ UNCHANGED <<bus, fields, tasks, ownership, native, lock, work, bounds>>

PutUnlocked(t) ==           \* mutant: put without synchronized
    /\ pc[t] = "put"
    /\ connectors' = [connectors EXCEPT ![dev[t]] = conn[t]]
    /\ Goto(t, "nativeAdd")
    /\ UNCHANGED <<bus, fields, tasks, graveyard, instanceGraveyard, status, native, lock,
                   locals, bounds>>

PutIfAbsent(t) ==           \* mutant: putIfAbsent for put
    /\ pc[t] = "put"
    /\ lock \in {"free", t}
    /\ connectors' = [connectors EXCEPT ![dev[t]] = IF @ = NoConnector THEN conn[t] ELSE @]
    /\ Goto(t, "nativeAdd")
    /\ UNCHANGED <<bus, fields, tasks, graveyard, instanceGraveyard, status, native, lock,
                   locals, bounds>>

\* mConnectors.put under the lock, which main already owns inside a re-scan.
PutConnector(t) ==
    /\ pc[t] = "put"
    /\ lock \in {"free", t}
    /\ connectors' = [connectors EXCEPT ![dev[t]] = conn[t]]
    /\ Goto(t, "nativeAdd")
    /\ UNCHANGED <<bus, fields, tasks, graveyard, instanceGraveyard, status, native, lock,
                   locals, bounds>>

\* mDeviceDetector.add(device, connector.fileDescriptor)
NativeAdd(t) ==
    /\ pc[t] = "nativeAdd"
    /\ native' = [native EXCEPT ![dev[t]] = conn[t]]
    /\ Return(t)
    /\ UNCHANGED <<bus, fields, tasks, ownership, lock, work, bounds>>

\* The same line when another thread has closed the connector: the descriptor
\* getter throws, and whatever the map holds for the device is taken out of it.
NativeAddException(t) ==
    /\ pc[t] = "nativeAdd"
    /\ status[conn[t]] # "open"
    /\ lock \in {"free", t}
    /\ connectors' = [connectors EXCEPT ![dev[t]] = NoConnector]
    /\ IF connectors[dev[t]] = NoConnector
       THEN Return(t)
       ELSE /\ conn' = [conn EXCEPT ![t] = connectors[dev[t]]]
            /\ Goto(t, "close")
            /\ UNCHANGED <<dev, retry>>
    /\ UNCHANGED <<bus, fields, tasks, graveyard, instanceGraveyard, status, native, lock,
                   work, bounds>>

-----------------------------------------------------------------------------
(* removeDevice, on main (onStop) or usb (onDetach), and the clean-up it   *)
(* shares with addDevice: close, then retain in the graveyard.             *)

\* mDeviceDetector.remove(device), outside the lock.
NativeRemove(t) ==
    /\ pc[t] = "nativeRemove"
    /\ native' = [native EXCEPT ![dev[t]] = NoConnector]
    /\ Goto(t, "take")
    /\ UNCHANGED <<bus, fields, tasks, ownership, lock, locals, bounds>>

GetConnector(t) ==          \* mutant: get for remove
    /\ pc[t] = "take"
    /\ lock = "free"
    /\ IF connectors[dev[t]] = NoConnector
       THEN Return(t) /\ UNCHANGED lock
       ELSE /\ lock' = t
            /\ conn' = [conn EXCEPT ![t] = connectors[dev[t]]]
            /\ Goto(t, "closeLocked")
            /\ UNCHANGED <<dev, retry>>
    /\ UNCHANGED <<bus, fields, tasks, connectors, graveyard, instanceGraveyard, status, native,
                   work, bounds>>

TakeConnector(t) ==
    /\ pc[t] = "take"
    /\ lock = "free"
    /\ connectors' = [connectors EXCEPT ![dev[t]] = NoConnector]
    /\ IF connectors[dev[t]] = NoConnector
       THEN Return(t) /\ UNCHANGED lock
       ELSE /\ lock' = t
            /\ conn' = [conn EXCEPT ![t] = connectors[dev[t]]]
            /\ Goto(t, "closeLocked")
            /\ UNCHANGED <<dev, retry>>
    /\ UNCHANGED <<bus, fields, tasks, graveyard, instanceGraveyard, status, native, work,
                   bounds>>

CloseConnector(t) ==
    /\ pc[t] \in {"close", "closeLocked"}
    /\ status' = [status EXCEPT ![conn[t]] = IF @ = "open" THEN "closed" ELSE "aborted"]
    /\ Goto(t, IF pc[t] = "close" THEN "retain" ELSE "retainLocked")
    /\ UNCHANGED <<bus, fields, tasks, connectors, graveyard, instanceGraveyard, native, lock,
                   locals, bounds>>

RetainNothing(c) == graveyard' = graveyard      \* mutant: no process-lifetime graveyard

retainClosedConnector(c) == graveyard' = graveyard \cup {c}

\* The end of addDevice's catch block.
RetainAfterException(t) ==
    /\ pc[t] = "retain"
    /\ retainClosedConnector(conn[t])
    /\ Return(t)
    /\ UNCHANGED <<bus, fields, tasks, connectors, instanceGraveyard, status, native, lock,
                   work, bounds>>

RetainInInstance(t) ==      \* mutant: only mClosedConnectorGraveyard
    /\ pc[t] = "retainLocked"
    /\ instanceGraveyard' = instanceGraveyard \cup {conn[t]}
    /\ lock' = "free"
    /\ Return(t)
    /\ UNCHANGED <<bus, fields, tasks, connectors, graveyard, status, native, work, bounds>>

\* The end of removeDevice, which leaves the lock.
RetainAfterRemove(t) ==
    /\ pc[t] = "retainLocked"
    /\ retainClosedConnector(conn[t])
    /\ instanceGraveyard' = instanceGraveyard \cup {conn[t]}
    /\ lock' = "free"
    /\ Return(t)
    /\ UNCHANGED <<bus, fields, tasks, connectors, status, native, work, bounds>>

-----------------------------------------------------------------------------
(* main: the fragment's lifecycle and rescanConnectedDevices.              *)

\* onAttach: new handler thread, new USBMonitor.
OnAttach ==
    /\ Idle("main")
    /\ monitor = "null"
    /\ handler' = TRUE
    /\ monitor' = "unregistered"
    /\ Stimulus
    /\ UNCHANGED <<bus, tasks, ownership, native, lock, pc, locals, faults>>

OnStart ==
    /\ Idle("main")
    /\ monitor = "unregistered"
    /\ monitor' = "registered"
    /\ Goto("main", "lockScan")
    /\ Stimulus
    /\ UNCHANGED <<bus, handler, tasks, ownership, native, lock, locals, faults>>

\* DeviceDetector.rescanUvcDevices; it returns at once when not registered.
RescanConnectedDevices ==
    /\ Idle("main")
    /\ monitor = "registered"
    /\ Goto("main", "lockScan")
    /\ Stimulus
    /\ UNCHANGED <<bus, fields, tasks, ownership, native, lock, locals, faults>>

\* synchronized(mConnectors) { for (device in deviceList.toList()) ... }
LockScan ==
    /\ pc["main"] = "lockScan"
    /\ lock = "free"
    /\ lock' = "main"
    /\ work' = attached
    /\ Goto("main", "scan")
    /\ UNCHANGED <<bus, fields, tasks, ownership, native, dev, retry, conn, bounds>>

ScanAsksOnly(d) ==          \* mutant: the re-scan asks for permissions and adds nothing
    /\ pc["main"] = "scan"
    /\ d \in work
    /\ work' = work \ {d}
    /\ requested' = IF connectors[d] = NoConnector THEN requested \cup ({d} \cap (attached \ permitted))
                                                   ELSE requested
    /\ UNCHANGED <<attached, permitted, events, fields, tasks, ownership, native, lock, pc,
                   dev, retry, conn, bounds>>

ScanDevice(d) ==
    /\ pc["main"] = "scan"
    /\ d \in work
    /\ work' = work \ {d}
    /\ IF connectors[d] = NoConnector /\ d \in permitted
       THEN Call("main", d, 0, "check")
       ELSE UNCHANGED <<pc, dev, retry, conn>>
    /\ requested' = IF connectors[d] = NoConnector THEN requested \cup ({d} \cap (attached \ permitted))
                                                   ELSE requested
    /\ UNCHANGED <<attached, permitted, events, fields, tasks, ownership, native, lock,
                   bounds>>

UnlockScan ==
    /\ pc["main"] = "scan"
    /\ work = {}
    /\ lock' = "free"
    /\ Goto("main", "idle")
    /\ UNCHANGED <<bus, fields, tasks, ownership, native, locals, bounds>>

OnStop ==
    /\ Idle("main")
    /\ monitor = "registered"
    /\ monitor' = "unregistered"
    /\ Goto("main", "snapshot")
    /\ Stimulus
    /\ UNCHANGED <<bus, handler, tasks, ownership, native, lock, locals, faults>>

\* devicesToRemove = ArrayList(mConnectors.keys), under the lock.
SnapshotConnectors ==
    /\ pc["main"] = "snapshot"
    /\ lock = "free"
    /\ work' = {d \in Device : connectors[d] # NoConnector}
    /\ Goto("main", "stopLoop")
    /\ UNCHANGED <<bus, fields, tasks, ownership, native, lock, dev, retry, conn, bounds>>

StopDevice(d) ==
    /\ pc["main"] = "stopLoop"
    /\ d \in work
    /\ work' = work \ {d}
    /\ Call("main", d, 0, "nativeRemove")
    /\ UNCHANGED <<bus, fields, tasks, ownership, native, lock, bounds>>

FinishStop ==
    /\ pc["main"] = "stopLoop"
    /\ work = {}
    /\ Goto("main", "idle")
    /\ UNCHANGED <<bus, fields, tasks, ownership, native, lock, locals, bounds>>

\* onDetach: destroy() drops USBMonitor's posted callbacks, then the field is null.
OnDetach ==
    /\ Idle("main")
    /\ monitor = "unregistered"
    /\ monitor' = "null"
    /\ events' = NoEvents
    /\ Goto("main", "quit")
    /\ Stimulus
    /\ UNCHANGED <<attached, permitted, requested, handler, tasks, ownership, native, lock,
                   locals, faults>>

\* The rest of onDetach: the instance graveyard and the handler thread go.
QuitHandler ==
    /\ pc["main"] = "quit"
    /\ instanceGraveyard' = {}
    /\ handler' = FALSE
    /\ retries' = NoRetries /\ refreshes' = 0
    /\ Goto("main", "idle")
    /\ UNCHANGED <<bus, monitor, connectors, graveyard, status, native, lock, locals, bounds>>

\* releaseDeviceDetector has removed the fragment and initDeviceDetector makes
\* another one: every field starts afresh, the global graveyard stays.
NewFragment ==
    /\ \A t \in Thread : Idle(t)
    /\ monitor = "null"
    /\ connectors' = NoTracked
    /\ instanceGraveyard' = {}
    /\ UNCHANGED <<bus, fields, tasks, graveyard, status, native, lock, pc, locals,
                   bounds>>

-----------------------------------------------------------------------------
(* usb: the callbacks USBMonitor runs on its handler thread.               *)

RunCallback(d) ==
    /\ Idle("usb")
    /\ monitor # "null"
    /\ events[d] # << >>
    /\ events' = [events EXCEPT ![d] = Tail(@)]
    /\ Call("usb", d, 0, CASE Head(events[d]) = "attach"     -> "onAttach"
                           [] Head(events[d]) = "permission" -> "check"
                           [] Head(events[d]) = "detach"     -> "nativeRemove")
    /\ UNCHANGED <<attached, permitted, requested, fields, tasks, ownership, native, lock,
                   work, bounds>>

\* Callback.onAttach: addDevice, or ask for the permission.
AttachCallback ==
    /\ pc["usb"] = "onAttach"
    /\ \/ NullDereference
       \/ /\ monitor # "null"
          /\ IF dev["usb"] \in permitted
             THEN Goto("usb", "check") /\ UNCHANGED <<requested, dev, retry, conn>>
             ELSE Return("usb") /\ requested' = requested \cup ({dev["usb"]} \cap attached)
          /\ UNCHANGED <<attached, permitted, events, fields, tasks, ownership, native, lock,
                         work, bounds>>

-----------------------------------------------------------------------------
(* async: what mAsyncHandler runs.                                         *)

RetryCountedTwice(d, n) ==  \* mutant: the retry is counted when it is posted and when it runs
    /\ Idle("async")
    /\ retries[d][n] > 0
    /\ retries' = [retries EXCEPT ![d][n] = @ - 1]
    /\ IF monitor # "null" THEN Call("async", d, n + 1, "retryGuard")
                           ELSE UNCHANGED <<pc, dev, retry, conn>>
    /\ UNCHANGED <<bus, fields, refreshes, ownership, native, lock, work, bounds>>

\* The posted retry: mUSBMonitor != null ...
RunRetry(d, n) ==
    /\ Idle("async")
    /\ retries[d][n] > 0
    /\ retries' = [retries EXCEPT ![d][n] = @ - 1]
    /\ IF monitor # "null" THEN Call("async", d, n, "retryGuard")
                           ELSE UNCHANGED <<pc, dev, retry, conn>>
    /\ UNCHANGED <<bus, fields, refreshes, ownership, native, lock, work, bounds>>

\* ... && mUSBMonitor!!.hasPermission(device), which reads the field again.
RetryGuard ==
    /\ pc["async"] = "retryGuard"
    /\ \/ NullDereference
       \/ /\ monitor # "null"
          /\ IF dev["async"] \in permitted THEN Goto("async", "check") /\ UNCHANGED <<dev, retry, conn>>
                                           ELSE Return("async")
          /\ UNCHANGED <<bus, fields, tasks, ownership, native, lock, work, bounds>>

\* onRequestRefreshDevices, called by native code while the callback is registered.
RequestRefresh ==
    /\ handler
    /\ monitor # "null"
    /\ refreshes' = refreshes + 1
    /\ Stimulus
    /\ UNCHANGED <<bus, fields, retries, ownership, native, lock, pc, locals, faults>>

\* The posted refresh: native code forgets every device, mConnectors does not.
RunRefresh ==
    /\ Idle("async")
    /\ refreshes > 0
    /\ refreshes' = refreshes - 1
    /\ native' = NoTracked
    /\ Goto("async", "refreshGuard")
    /\ UNCHANGED <<bus, fields, retries, ownership, lock, locals, bounds>>

\* mUSBMonitor != null ...
RefreshGuard ==
    /\ pc["async"] = "refreshGuard"
    /\ Goto("async", IF monitor # "null" THEN "refreshRegistered" ELSE "idle")
    /\ UNCHANGED <<bus, fields, tasks, ownership, native, lock, locals, bounds>>

\* ... && mUSBMonitor!!.isRegistered, which reads the field again.
RefreshRegistered ==
    /\ pc["async"] = "refreshRegistered"
    /\ \/ NullDereference
       \/ /\ monitor # "null"
          /\ Goto("async", IF monitor = "registered" THEN "refresh" ELSE "idle")
          /\ UNCHANGED <<bus, fields, tasks, ownership, native, lock, locals, bounds>>

\* refreshDevices posts onAttach for every device present.
RefreshDevices ==
    /\ pc["async"] = "refresh"
    /\ \/ NullDereference
       \/ /\ monitor # "null"
          /\ events' = [d \in Device |-> IF d \in attached THEN Append(events[d], "attach")
                                                           ELSE events[d]]
          /\ Goto("async", "idle")
          /\ UNCHANGED <<attached, permitted, requested, fields, tasks, ownership, native, lock,
                         locals, bounds>>

-----------------------------------------------------------------------------
AddDevice(t) ==
    \/ CheckPermission(t) \/ OpenDevice(t) \/ OpenIOException(t) \/ OpenOtherException(t)
    \/ PutConnector(t) \/ NativeAdd(t) \/ NativeAddException(t) \/ RetainAfterException(t)

RemoveDevice(t) == NativeRemove(t) \/ TakeConnector(t) \/ RetainAfterRemove(t)

ThreadStep(t) == AddDevice(t) \/ CloseConnector(t) \/ RemoveDevice(t)

MainStep ==
    \/ LockScan \/ UnlockScan \/ SnapshotConnectors \/ FinishStop \/ QuitHandler
    \/ \E d \in Device : ScanDevice(d) \/ StopDevice(d)

UsbStep == AttachCallback \/ \E d \in Device : RunCallback(d)

AsyncStep ==
    \/ RetryGuard \/ RunRefresh \/ RefreshGuard \/ RefreshRegistered \/ RefreshDevices
    \/ \E d \in Device, n \in 1..MaxRetry : RunRetry(d, n)

Lifecycle == OnAttach \/ OnStart \/ OnStop \/ OnDetach \/ NewFragment

Environment ==
    \/ RescanConnectedDevices \/ RequestRefresh
    \/ \E d \in Device : PlugIn(d) \/ Unplug(d) \/ GrantPermission(d)
    \/ \E c \in Connector : Finalize(c)

Next ==
    \/ \E t \in Thread : ThreadStep(t)
    \/ MainStep \/ UsbStep \/ AsyncStep
    \/ Lifecycle \/ Environment

\* Each thread runs what it has been given: a Looper always takes its next
\* message, and a monitor that is released is taken by a waiting thread.
Fairness ==
    /\ \A t \in Thread : WF_vars(ThreadStep(t))
    /\ WF_vars(MainStep)
    /\ WF_vars(UsbStep)
    /\ WF_vars(AsyncStep)

Spec == Init /\ [][Next]_vars
FairSpec == Spec /\ Fairness

-----------------------------------------------------------------------------
(* Properties.                                                             *)

Label == {"idle", "check", "open", "put", "nativeAdd", "close", "retain",
          "nativeRemove", "take", "closeLocked", "retainLocked",
          "lockScan", "scan", "snapshot", "stopLoop", "quit",
          "onAttach", "retryGuard", "refreshGuard", "refreshRegistered", "refresh", "crashed"}

ThreadTypeOK ==
    /\ pc \in [Thread -> Label]
    /\ dev \in [Thread -> Device \cup {NoDevice}]
    /\ retry \in [Thread -> 0..MaxRetry]
    /\ conn \in [Thread -> Connector \cup {NoConnector}]

\* Every variable has its type.
TypeOK ==
    /\ attached \in SUBSET Device /\ permitted \in SUBSET Device /\ requested \in SUBSET Device
    /\ events \in [Device -> Seq(Callback)]
    /\ monitor \in {"null", "unregistered", "registered"} /\ handler \in BOOLEAN
    /\ retries \in [Device -> [1..MaxRetry -> Nat]] /\ refreshes \in Nat
    /\ connectors \in [Device -> Connector \cup {NoConnector}]
    /\ native \in [Device -> Connector \cup {NoConnector}]
    /\ graveyard \in SUBSET Connector /\ instanceGraveyard \in SUBSET Connector
    /\ status \in [Connector -> {"unused", "open", "closed", "finalized", "aborted"}]
    /\ lock \in Thread \cup {"free"}
    /\ ThreadTypeOK
    /\ work \in SUBSET Device
    /\ faults \in 0..MaxFaults /\ inputs \in 0..MaxInputs

\* No descriptor is closed twice: neither by two of addDevice's and removeDevice's
\* clean-ups nor by one of them and the connector's finalizer (the fdsan abort that
\* the comment on mClosedConnectorGraveyard describes).
NoDoubleClose == \A c \in Connector : status[c] # "aborted"

\* Why: a closed connector is in the process-lifetime graveyard, or in the hands of
\* the thread that is about to put it there, so its finalizer cannot run.
ClosedRetained ==
    ~Crashed => \A c \in Connector : status[c] = "closed" =>
        \/ c \in graveyard
        \/ \E t \in Thread : pc[t] \in {"retain", "retainLocked"} /\ conn[t] = c

\* Whatever the threads do, mConnectors maps devices to connectors that are open,
\* and no two devices to the same one: onRequestClaimInterfaces never reaches a
\* closed connector.
TrackedOpen ==
    /\ \A d \in Device : connectors[d] # NoConnector => status[connectors[d]] = "open"
    /\ \A d, e \in Device : connectors[d] = connectors[e] /\ connectors[d] # NoConnector => d = e

\* onStart and rescanConnectedDevices hold mConnectors from containsKey to put, so
\* a re-scan never replaces the connector of a device that is tracked already.
ScanNeverReplaces ==
    pc["main"] \in {"check", "open", "put"} => connectors[dev["main"]] = NoConnector

AllIdle == \A t \in Thread : Idle(t)

\* Between handlers, native code reads a tracked device through the connector that
\* mConnectors holds for it.  (With overlapping handlers this fails.)
Agreement ==
    AllIdle => \A d \in Device :
        connectors[d] # NoConnector /\ native[d] # NoConnector => native[d] = connectors[d]

Excused(d) == d \notin permitted \/ monitor # "registered" \/ Crashed

\* A callback for a permitted device leads to its connector being tracked although
\* openDevice still fails up to MaxRetry times: "the device still appears without
\* requiring a physical replug" (the comment in addDevice).
AttachServed ==
    \A d \in Device :
        (~Excused(d) /\ pc["usb"] = "check" /\ dev["usb"] = d /\ MaxFaults - faults <= MaxRetry)
            ~> (connectors[d] # NoConnector \/ Excused(d))

\* After the retries have been used up, rescanConnectedDevices recovers the device
\* once openDevice works again.
RescanRecovers ==
    \A d \in Device :
        (~Excused(d) /\ pc["main"] = "lockScan" /\ faults = MaxFaults)
            ~> (connectors[d] # NoConnector \/ Excused(d))

\* Claimed by the comment in addDevice, "so we never leave a connector reachable only
\* by GC finalizer": a connector that is still open is referred to by the fragment.
NeverOrphaned == \A c \in Connector : status[c] = "open" => c \in Reachable

\* Claimed by the comment in onStart, "onStop() removed all devices via
\* removeDevice()": no device is tracked while the fragment is stopped and idle.
StoppedIsEmpty == AllIdle /\ monitor = "unregistered" => connectors = NoTracked
=============================================================================
