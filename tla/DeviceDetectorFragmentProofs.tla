-------------------- MODULE DeviceDetectorFragmentProofs --------------------
(***************************************************************************)
(* No UsbConnector is closed twice, for any number of devices, connectors, *)
(* retries and stimuli.  The invariant is about ownership: a connector is  *)
(* tracked in mConnectors, or held by the one thread that may close it, or *)
(* closed and on its way to the graveyard, or there, or reachable only by  *)
(* its finalizer and then still open.                                      *)
(***************************************************************************)
EXTENDS DeviceDetectorFragment, TLAPS

Adding   == {"check", "open", "put", "nativeAdd", "close", "retain"}
Removing == {"nativeRemove", "take", "closeLocked", "retainLocked"}
Holding  == {"put", "nativeAdd", "close", "retain", "closeLocked", "retainLocked"}
Closing  == {"put", "close", "closeLocked"}   \* the connector is this thread's alone
Retaining == {"retain", "retainLocked"}

\* A thread inside a call has a device, and a connector exactly when it should.
LocalsInv ==
    \A t \in Thread :
        /\ pc[t] \in Adding \cup Removing \cup {"onAttach", "retryGuard"} => dev[t] \in Device
        /\ pc[t] \in Holding => conn[t] \in Connector
        /\ pc[t] \notin Holding \cup {"crashed"} => conn[t] = NoConnector
        /\ pc[t] = "crashed" <=> Crashed

\* Who owns the mConnectors monitor, and which loop main's calls return to.
LockInv ==
    /\ \A t \in Thread : pc[t] \in {"closeLocked", "retainLocked"} => lock = t
    /\ pc["main"] \in Adding \cup {"scan"} => lock = "main"
    /\ pc["main"] \in Adding \cup {"scan", "lockScan"} => monitor = "registered"
    /\ pc["main"] \in Removing \cup {"snapshot", "stopLoop"} => monitor # "registered"

\* A thread about to track or close a connector is its only owner; another thread
\* can at most be about to read its descriptor.
OwnerInv ==
    \A t \in Thread :
        /\ conn[t] # NoConnector => status[conn[t]] \in {"open", "closed"}
        /\ pc[t] \in Retaining => status[conn[t]] = "closed"
        /\ pc[t] \in Closing =>
              /\ status[conn[t]] = "open"
              /\ \A d \in Device : connectors[d] # conn[t]
              /\ \A u \in Thread \ {t} : conn[u] = conn[t] => pc[u] = "nativeAdd"

\* A tracked connector is held only by threads about to read its descriptor.
MapInv ==
    \A d \in Device, t \in Thread :
        connectors[d] # NoConnector /\ conn[t] = connectors[d] => pc[t] \in {"nativeAdd", "crashed"}

GraveyardInv == \A c \in graveyard \cup instanceGraveyard : status[c] = "closed"

IInv ==
    /\ TypeOK
    /\ LocalsInv /\ LockInv /\ OwnerInv /\ MapInv /\ GraveyardInv
    /\ TrackedOpen /\ ScanNeverReplaces
    /\ ClosedRetained /\ NoDoubleClose
-----------------------------------------------------------------------------
(* What the steps have in common.                                          *)

\* Posting a callback keeps the queues well typed.
LEMMA PostType ==
    ASSUME TypeOK, NEW d \in Device, NEW k \in Callback
    PROVE  Post(d, k) \in [Device -> Seq(Callback)] /\ Broadcast(d, k) \in [Device -> Seq(Callback)]
<1>1. Append(events[d], k) \in Seq(Callback)
    BY DEF TypeOK
<1>. QED BY <1>1 DEF TypeOK, Post, Broadcast

\* So does taking one off.
LEMMA TakeType ==
    ASSUME TypeOK, NEW d \in Device, events[d] # << >>
    PROVE  Head(events[d]) \in Callback /\ [events EXCEPT ![d] = Tail(@)] \in [Device -> Seq(Callback)]
<1>1. Tail(events[d]) \in Seq(Callback) /\ Head(events[d]) \in Callback
    BY DEF TypeOK
<1>. QED BY <1>1 DEF TypeOK

\* Counting a retry keeps the counts well typed.
LEMMA RetriesType ==
    ASSUME NEW f \in [1..MaxRetry -> Nat], NEW n, NEW k \in Nat
    PROVE  [f EXCEPT ![n] = k] \in [1..MaxRetry -> Nat]
OBVIOUS

\* So does posting a retry.
LEMMA ScheduleType ==
    ASSUME TypeOK, NEW d \in Device, NEW n \in Nat, ScheduleRetry(d, n)
    PROVE  retries' \in [Device -> [1..MaxRetry -> Nat]]
<1>1. CASE n < MaxRetry /\ handler
  <2>1. retries[d][n + 1] + 1 \in Nat
    BY <1>1, BoundAssumption DEF TypeOK
  <2>2. retries' = [retries EXCEPT ![d] = [retries[d] EXCEPT ![n + 1] = retries[d][n + 1] + 1]]
    BY <1>1 DEF ScheduleRetry, TypeOK
  <2>. QED BY <2>1, <2>2, RetriesType DEF TypeOK
<1>. QED BY <1>1 DEF ScheduleRetry, TypeOK

\* The ways a thread's control point and locals change keep them well typed.
LEMMA GotoType ==
    ASSUME ThreadTypeOK, NEW t \in Thread, NEW label \in Label, Goto(t, label)
    PROVE  pc' \in [Thread -> Label]
BY DEF ThreadTypeOK, Goto

\* Returning from a call.
LEMMA ReturnType == ASSUME ThreadTypeOK, NEW t \in Thread, Return(t) PROVE ThreadTypeOK'
<1>1. Home(t) \in Label
    BY DEF Home, Label
<1>2. pc' \in [Thread -> Label]
    BY <1>1, GotoType DEF Return
<1>3. dev' \in [Thread -> Device \cup {NoDevice}]
    BY DEF ThreadTypeOK, Return
<1>4. retry' \in [Thread -> 0..MaxRetry]
    BY BoundAssumption DEF ThreadTypeOK, Return
<1>5. conn' \in [Thread -> Connector \cup {NoConnector}]
    BY DEF ThreadTypeOK, Return
<1>. QED BY <1>2, <1>3, <1>4, <1>5 DEF ThreadTypeOK

\* Starting one.
LEMMA CallType ==
    ASSUME ThreadTypeOK, NEW t \in Thread, NEW d \in Device, NEW n \in 0..MaxRetry,
           NEW label \in Label, Call(t, d, n, label)
    PROVE  ThreadTypeOK'
<1>1. pc' \in [Thread -> Label]
    BY GotoType DEF Call
<1>. QED BY <1>1 DEF ThreadTypeOK, Call

\* A step that neither moves a connector nor enters or leaves a call that holds
\* one, except to give it up, preserves the ownership part of the invariant.
LEMMA Quiet ==
    ASSUME IInv, TypeOK', LocalsInv', LockInv', ScanNeverReplaces',
           UNCHANGED ownership, Crashed => Crashed',
           \A t \in Thread :
              \/ pc'[t] = pc[t] /\ conn'[t] = conn[t]
              \/ /\ pc'[t] \notin Holding
                 /\ conn'[t] \in {conn[t], NoConnector}
                 /\ pc[t] \notin Retaining \/ Crashed'
    PROVE  IInv'
<1>. USE DEF ownership
<1>a. \A t \in Thread : pc'[t] \in Holding => pc'[t] = pc[t] /\ conn'[t] = conn[t]
    OBVIOUS
<1>b. \A t \in Thread : conn'[t] # NoConnector => conn'[t] = conn[t] /\ (pc'[t] = pc[t] \/ Crashed')
    BY DEF LocalsInv
<1>1. OwnerInv'
  <2>. SUFFICES ASSUME NEW t \in Thread
       PROVE /\ conn'[t] # NoConnector => status'[conn'[t]] \in {"open", "closed"}
             /\ pc'[t] \in Retaining => status'[conn'[t]] = "closed"
             /\ pc'[t] \in Closing =>
                  /\ status'[conn'[t]] = "open"
                  /\ \A d \in Device : connectors'[d] # conn'[t]
                  /\ \A u \in Thread \ {t} : conn'[u] = conn'[t] => pc'[u] = "nativeAdd"
    BY DEF OwnerInv
  <2>1. conn'[t] # NoConnector => status'[conn'[t]] \in {"open", "closed"}
    BY <1>b DEF IInv, OwnerInv
  <2>2. pc'[t] \in Retaining => status'[conn'[t]] = "closed"
    BY <1>a DEF IInv, OwnerInv, Holding, Retaining
  <2>3. ASSUME pc'[t] \in Closing
        PROVE /\ status'[conn'[t]] = "open"
              /\ \A d \in Device : connectors'[d] # conn'[t]
    BY <1>a, <2>3 DEF IInv, OwnerInv, Holding, Closing
  <2>4. ASSUME pc'[t] \in Closing, NEW u \in Thread \ {t}, conn'[u] = conn'[t]
        PROVE  pc'[u] = "nativeAdd"
    <3>1. pc'[t] = pc[t] /\ conn'[t] = conn[t] /\ conn[t] # NoConnector
        BY <1>a, <2>4, NoneAssumption DEF IInv, LocalsInv, Holding, Closing
    <3>2. ~Crashed'
        BY <2>4 DEF LocalsInv, Closing
    <3>3. conn'[u] = conn[u] /\ pc'[u] = pc[u]
        BY <1>b, <2>4, <3>1, <3>2
    <3>. QED BY <2>4, <3>1, <3>3 DEF IInv, OwnerInv
  <2>. QED BY <2>1, <2>2, <2>3, <2>4
<1>2. MapInv'
    BY <1>b DEF IInv, LocalsInv, MapInv
<1>3. ClosedRetained'
    BY <1>a DEF IInv, LocalsInv, ClosedRetained, Holding, Retaining, Crashed, Thread
<1>4. GraveyardInv' /\ TrackedOpen' /\ NoDoubleClose'
    BY DEF IInv, GraveyardInv, TrackedOpen, NoDoubleClose
<1>. QED BY <1>1, <1>2, <1>3, <1>4 DEF IInv

\* A NullPointerException stops every thread where it is.
LEMMA CrashStep == ASSUME IInv, NullDereference PROVE IInv'
<1>. USE DEF NullDereference, bus, fields, tasks, ownership, locals, bounds
<1>1. TypeOK'
  <2>1. ThreadTypeOK'
    BY DEF IInv, TypeOK, ThreadTypeOK, Label
  <2>. QED BY <2>1 DEF IInv, TypeOK
<1>2. LocalsInv' /\ LockInv' /\ ScanNeverReplaces'
    BY DEF IInv, LocalsInv, LockInv, ScanNeverReplaces, Adding, Removing, Holding, Crashed, Thread
<1>3. \A t \in Thread : pc'[t] \notin Holding /\ conn'[t] = conn[t]
    BY DEF Holding
<1>. QED BY <1>1, <1>2, <1>3, Quiet DEF Crashed, Thread

-----------------------------------------------------------------------------
(* Steps that move no connector.                                           *)

\* Plugging in changes the bus only.
LEMMA PlugInStep == ASSUME IInv, NEW d \in Device, PlugIn(d) PROVE IInv'
<1>1. ThreadTypeOK'
    BY BoundAssumption DEF IInv, TypeOK, ThreadTypeOK, PlugIn, locals, Label, Thread
<1>2. TypeOK'
  <2>1. events' \in [Device -> Seq(Callback)]
    BY PostType DEF IInv, PlugIn, Callback
  <2>2. attached' \in SUBSET Device /\ permitted' \in SUBSET Device /\ requested' \in SUBSET Device
    BY DEF IInv, TypeOK, PlugIn
  <2>3. inputs' \in 0..MaxInputs
    BY BoundAssumption DEF IInv, TypeOK, PlugIn, Stimulus
  <2>. QED BY <1>1, <2>1, <2>2, <2>3 DEF IInv, TypeOK, PlugIn, fields, tasks, ownership, locals
<1>. USE DEF PlugIn, Stimulus, bus, fields, tasks, ownership, locals, bounds
<1>3. LocalsInv'
    BY DEF IInv, TypeOK, ThreadTypeOK, LocalsInv, Adding, Removing, Holding, Crashed, Thread
<1>4. LockInv' /\ ScanNeverReplaces'
    BY DEF IInv, TypeOK, ThreadTypeOK, LocalsInv, LockInv, ScanNeverReplaces, Adding, Removing, Thread
<1>. QED
    BY <1>2, <1>3, <1>4, Quiet DEF IInv, TypeOK, ThreadTypeOK, LocalsInv, Holding, Retaining, Crashed, Thread

\* Unplugging leaves the connector to the detach callback.
LEMMA UnplugStep == ASSUME IInv, NEW d \in Device, Unplug(d) PROVE IInv'
<1>1. ThreadTypeOK'
    BY BoundAssumption DEF IInv, TypeOK, ThreadTypeOK, Unplug, locals, Label, Thread
<1>2. TypeOK'
  <2>1. events' \in [Device -> Seq(Callback)]
    BY PostType DEF IInv, Unplug, Callback
  <2>2. attached' \in SUBSET Device /\ permitted' \in SUBSET Device /\ requested' \in SUBSET Device
    BY DEF IInv, TypeOK, Unplug
  <2>3. inputs' \in 0..MaxInputs
    BY BoundAssumption DEF IInv, TypeOK, Unplug, Stimulus
  <2>. QED BY <1>1, <2>1, <2>2, <2>3 DEF IInv, TypeOK, Unplug, fields, tasks, ownership, locals
<1>. USE DEF Unplug, Stimulus, bus, fields, tasks, ownership, locals, bounds
<1>3. LocalsInv'
    BY DEF IInv, TypeOK, ThreadTypeOK, LocalsInv, Adding, Removing, Holding, Crashed, Thread
<1>4. LockInv' /\ ScanNeverReplaces'
    BY DEF IInv, TypeOK, ThreadTypeOK, LocalsInv, LockInv, ScanNeverReplaces, Adding, Removing, Thread
<1>. QED
    BY <1>2, <1>3, <1>4, Quiet DEF IInv, TypeOK, ThreadTypeOK, LocalsInv, Holding, Retaining, Crashed, Thread

\* A grant changes the bus only.
LEMMA GrantPermissionStep == ASSUME IInv, NEW d \in Device, GrantPermission(d) PROVE IInv'
<1>1. ThreadTypeOK'
    BY BoundAssumption DEF IInv, TypeOK, ThreadTypeOK, GrantPermission, locals, Label, Thread
<1>2. TypeOK'
    BY <1>1, BoundAssumption, PostType DEF IInv, TypeOK, GrantPermission, bus, fields, tasks, ownership, locals, bounds, Callback
<1>. USE DEF GrantPermission, bus, fields, tasks, ownership, locals, bounds
<1>3. LocalsInv'
    BY DEF IInv, TypeOK, ThreadTypeOK, LocalsInv, Adding, Removing, Holding, Crashed, Thread
<1>4. LockInv' /\ ScanNeverReplaces'
    BY DEF IInv, TypeOK, ThreadTypeOK, LocalsInv, LockInv, ScanNeverReplaces, Adding, Removing, Thread
<1>. QED
    BY <1>2, <1>3, <1>4, Quiet DEF IInv, TypeOK, ThreadTypeOK, LocalsInv, Holding, Retaining, Crashed, Thread

\* The permission check moves to the opening or returns; no connector is held yet.
LEMMA CheckPermissionStep == ASSUME IInv, NEW t \in Thread, CheckPermission(t) PROVE IInv'
<1>. SUFFICES ASSUME monitor # "null" PROVE IInv'
    BY CrashStep DEF CheckPermission
<1>1. ThreadTypeOK'
    BY ReturnType, GotoType, BoundAssumption DEF IInv, TypeOK, ThreadTypeOK, CheckPermission, NullDereference, locals, Label, Thread
<1>2. TypeOK'
    BY <1>1, BoundAssumption DEF IInv, TypeOK, CheckPermission, NullDereference, bus, fields, tasks, ownership, locals, bounds
<1>. USE DEF CheckPermission, Goto, Return, Home, NullDereference, bus, fields, tasks, ownership, locals, bounds
<1>3. LocalsInv'
    BY DEF IInv, TypeOK, ThreadTypeOK, LocalsInv, Adding, Removing, Holding, Crashed, Thread
<1>4. LockInv' /\ ScanNeverReplaces'
    BY DEF IInv, TypeOK, ThreadTypeOK, LocalsInv, LockInv, ScanNeverReplaces, Adding, Removing, Thread
<1>. QED
    BY <1>2, <1>3, <1>4, Quiet DEF IInv, TypeOK, ThreadTypeOK, LocalsInv, Holding, Retaining, Crashed, Thread

\* A failed openDevice leaves no connector and posts a retry.
LEMMA OpenIOExceptionStep == ASSUME IInv, NEW t \in Thread, OpenIOException(t) PROVE IInv'
<1>1. ThreadTypeOK'
    BY ReturnType, GotoType, BoundAssumption DEF IInv, TypeOK, ThreadTypeOK, OpenIOException, locals, Label, Thread
<1>2. TypeOK'
  <2>1. dev[t] \in Device /\ retry[t] \in Nat
    BY BoundAssumption DEF IInv, TypeOK, ThreadTypeOK, LocalsInv, OpenIOException, Adding
  <2>2. retries' \in [Device -> [1..MaxRetry -> Nat]]
    BY <2>1, ScheduleType DEF IInv, OpenIOException
  <2>3. faults' \in 0..MaxFaults
    BY BoundAssumption DEF IInv, TypeOK, OpenIOException
  <2>. QED BY <1>1, <2>2, <2>3 DEF IInv, TypeOK, OpenIOException, bus, fields, ownership
<1>. USE DEF OpenIOException, ScheduleRetry, Return, Goto, Home, bus, fields, tasks, ownership, locals, bounds
<1>3. LocalsInv'
    BY DEF IInv, TypeOK, ThreadTypeOK, LocalsInv, Adding, Removing, Holding, Crashed, Thread
<1>4. LockInv' /\ ScanNeverReplaces'
    BY DEF IInv, TypeOK, ThreadTypeOK, LocalsInv, LockInv, ScanNeverReplaces, Adding, Removing, Thread
<1>. QED
    BY <1>2, <1>3, <1>4, Quiet DEF IInv, TypeOK, ThreadTypeOK, LocalsInv, Holding, Retaining, Crashed, Thread

\* So does any other exception of openDevice, without the retry.
LEMMA OpenOtherExceptionStep == ASSUME IInv, NEW t \in Thread, OpenOtherException(t) PROVE IInv'
<1>1. ThreadTypeOK'
    BY ReturnType, GotoType, BoundAssumption DEF IInv, TypeOK, ThreadTypeOK, OpenOtherException, locals, Label, Thread
<1>2. TypeOK'
    BY <1>1, BoundAssumption DEF IInv, TypeOK, OpenOtherException, bus, fields, tasks, ownership, locals, bounds
<1>. USE DEF OpenOtherException, Return, Goto, Home, bus, fields, tasks, ownership, locals, bounds
<1>3. LocalsInv'
    BY DEF IInv, TypeOK, ThreadTypeOK, LocalsInv, Adding, Removing, Holding, Crashed, Thread
<1>4. LockInv' /\ ScanNeverReplaces'
    BY DEF IInv, TypeOK, ThreadTypeOK, LocalsInv, LockInv, ScanNeverReplaces, Adding, Removing, Thread
<1>. QED
    BY <1>2, <1>3, <1>4, Quiet DEF IInv, TypeOK, ThreadTypeOK, LocalsInv, Holding, Retaining, Crashed, Thread

\* After nativeAdd the map is the only holder.
LEMMA NativeAddStep == ASSUME IInv, NEW t \in Thread, NativeAdd(t) PROVE IInv'
<1>1. ThreadTypeOK'
    BY ReturnType, GotoType, BoundAssumption DEF IInv, TypeOK, ThreadTypeOK, NativeAdd, locals, Label, Thread
<1>2. TypeOK'
  <2>1. native' \in [Device -> Connector \cup {NoConnector}]
    BY DEF IInv, TypeOK, ThreadTypeOK, NativeAdd
  <2>. QED BY <1>1, <2>1 DEF IInv, TypeOK, NativeAdd, bus, fields, tasks, ownership, bounds
<1>. USE DEF NativeAdd, Return, Goto, Home, bus, fields, tasks, ownership, locals, bounds
<1>3. LocalsInv'
    BY DEF IInv, TypeOK, ThreadTypeOK, LocalsInv, Adding, Removing, Holding, Crashed, Thread
<1>4. LockInv' /\ ScanNeverReplaces'
    BY DEF IInv, TypeOK, ThreadTypeOK, LocalsInv, LockInv, ScanNeverReplaces, Adding, Removing, Thread
<1>. QED
    BY <1>2, <1>3, <1>4, Quiet DEF IInv, TypeOK, ThreadTypeOK, LocalsInv, Holding, Retaining, Crashed, Thread

\* nativeRemove touches no connector.
LEMMA NativeRemoveStep == ASSUME IInv, NEW t \in Thread, NativeRemove(t) PROVE IInv'
<1>1. ThreadTypeOK'
    BY GotoType, BoundAssumption DEF IInv, TypeOK, ThreadTypeOK, NativeRemove, locals, Label, Thread
<1>2. TypeOK'
    BY <1>1, BoundAssumption DEF IInv, TypeOK, NativeRemove, bus, fields, tasks, ownership, locals, bounds
<1>. USE DEF NativeRemove, Goto, bus, fields, tasks, ownership, locals, bounds
<1>3. LocalsInv'
    BY DEF IInv, TypeOK, ThreadTypeOK, LocalsInv, Adding, Removing, Holding, Crashed, Thread
<1>4. LockInv' /\ ScanNeverReplaces'
    BY DEF IInv, TypeOK, ThreadTypeOK, LocalsInv, LockInv, ScanNeverReplaces, Adding, Removing, Thread
<1>. QED
    BY <1>2, <1>3, <1>4, Quiet DEF IInv, TypeOK, ThreadTypeOK, LocalsInv, Holding, Retaining, Crashed, Thread

\* A new monitor and handler: nothing is tracked yet by this call.
LEMMA OnAttachStep == ASSUME IInv, OnAttach PROVE IInv'
<1>1. ThreadTypeOK'
    BY BoundAssumption DEF IInv, TypeOK, ThreadTypeOK, OnAttach, locals, Label, Thread
<1>2. TypeOK'
    BY <1>1, BoundAssumption DEF IInv, TypeOK, OnAttach, Stimulus, bus, fields, tasks, ownership, locals, bounds
<1>. USE DEF OnAttach, Idle, Stimulus, bus, fields, tasks, ownership, locals, bounds
<1>3. LocalsInv'
    BY DEF IInv, TypeOK, ThreadTypeOK, LocalsInv, Adding, Removing, Holding, Crashed, Thread
<1>4. LockInv' /\ ScanNeverReplaces'
    BY DEF IInv, TypeOK, ThreadTypeOK, LocalsInv, LockInv, ScanNeverReplaces, Adding, Removing, Thread
<1>. QED
    BY <1>2, <1>3, <1>4, Quiet DEF IInv, TypeOK, ThreadTypeOK, LocalsInv, Holding, Retaining, Crashed, Thread

\* onStart enters the re-scan with the monitor registered.
LEMMA OnStartStep == ASSUME IInv, OnStart PROVE IInv'
<1>1. ThreadTypeOK'
    BY GotoType, BoundAssumption DEF IInv, TypeOK, ThreadTypeOK, OnStart, locals, Label, Thread
<1>2. TypeOK'
    BY <1>1, BoundAssumption DEF IInv, TypeOK, OnStart, Stimulus, bus, fields, tasks, ownership, locals, bounds
<1>. USE DEF OnStart, Idle, Stimulus, Goto, bus, fields, tasks, ownership, locals, bounds
<1>3. LocalsInv'
    BY DEF IInv, TypeOK, ThreadTypeOK, LocalsInv, Adding, Removing, Holding, Crashed, Thread
<1>4. LockInv' /\ ScanNeverReplaces'
    BY DEF IInv, TypeOK, ThreadTypeOK, LocalsInv, LockInv, ScanNeverReplaces, Adding, Removing, Thread
<1>. QED
    BY <1>2, <1>3, <1>4, Quiet DEF IInv, TypeOK, ThreadTypeOK, LocalsInv, Holding, Retaining, Crashed, Thread

\* rescanConnectedDevices enters the same loop.
LEMMA RescanConnectedDevicesStep == ASSUME IInv, RescanConnectedDevices PROVE IInv'
<1>1. ThreadTypeOK'
    BY GotoType, BoundAssumption DEF IInv, TypeOK, ThreadTypeOK, RescanConnectedDevices, locals, Label, Thread
<1>2. TypeOK'
    BY <1>1, BoundAssumption DEF IInv, TypeOK, RescanConnectedDevices, Stimulus, bus, fields, tasks, ownership, locals, bounds
<1>. USE DEF RescanConnectedDevices, Idle, Stimulus, Goto, bus, fields, tasks, ownership, locals, bounds
<1>3. LocalsInv'
    BY DEF IInv, TypeOK, ThreadTypeOK, LocalsInv, Adding, Removing, Holding, Crashed, Thread
<1>4. LockInv' /\ ScanNeverReplaces'
    BY DEF IInv, TypeOK, ThreadTypeOK, LocalsInv, LockInv, ScanNeverReplaces, Adding, Removing, Thread
<1>. QED
    BY <1>2, <1>3, <1>4, Quiet DEF IInv, TypeOK, ThreadTypeOK, LocalsInv, Holding, Retaining, Crashed, Thread

\* The re-scan takes the mConnectors monitor.
LEMMA LockScanStep == ASSUME IInv, LockScan PROVE IInv'
<1>1. ThreadTypeOK'
    BY GotoType, BoundAssumption DEF IInv, TypeOK, ThreadTypeOK, LockScan, locals, Label, Thread
<1>2. TypeOK'
  <2>1. lock' \in Thread \cup {"free"}
    BY DEF LockScan, Thread
  <2>. QED BY <1>1, <2>1 DEF IInv, TypeOK, LockScan, bus, fields, tasks, ownership, bounds
<1>. USE DEF LockScan, Goto, bus, fields, tasks, ownership, locals, bounds
<1>3. LocalsInv'
    BY DEF IInv, TypeOK, ThreadTypeOK, LocalsInv, Adding, Removing, Holding, Crashed, Thread
<1>4. LockInv' /\ ScanNeverReplaces'
    BY DEF IInv, TypeOK, ThreadTypeOK, LocalsInv, LockInv, ScanNeverReplaces, Adding, Removing, Thread
<1>. QED
    BY <1>2, <1>3, <1>4, Quiet DEF IInv, TypeOK, ThreadTypeOK, LocalsInv, Holding, Retaining, Crashed, Thread

\* The re-scan calls addDevice only for a device that is not tracked.
LEMMA ScanDeviceStep == ASSUME IInv, NEW d \in Device, ScanDevice(d) PROVE IInv'
<1>1. ThreadTypeOK'
  <2>1. ThreadTypeOK /\ "main" \in Thread /\ "check" \in Label /\ 0 \in 0..MaxRetry
    BY BoundAssumption DEF IInv, TypeOK, Thread, Label
  <2>2. CASE Call("main", d, 0, "check")
    BY <2>1, <2>2, CallType
  <2>3. CASE UNCHANGED <<pc, dev, retry, conn>>
    BY <2>1, <2>3 DEF ThreadTypeOK
  <2>. QED BY <2>2, <2>3 DEF ScanDevice
<1>2. TypeOK'
    BY <1>1, BoundAssumption DEF IInv, TypeOK, ScanDevice, bus, fields, tasks, ownership, locals, bounds
<1>. USE DEF ScanDevice, Call, Goto, bus, fields, tasks, ownership, locals, bounds
<1>3. LocalsInv'
    BY DEF IInv, TypeOK, ThreadTypeOK, LocalsInv, Adding, Removing, Holding, Crashed, Thread
<1>4. LockInv' /\ ScanNeverReplaces'
    BY DEF IInv, TypeOK, ThreadTypeOK, LocalsInv, LockInv, ScanNeverReplaces, Adding, Removing, Thread
<1>. QED
    BY <1>2, <1>3, <1>4, Quiet DEF IInv, TypeOK, ThreadTypeOK, LocalsInv, Holding, Retaining, Crashed, Thread

\* The re-scan gives the monitor back.
LEMMA UnlockScanStep == ASSUME IInv, UnlockScan PROVE IInv'
<1>1. ThreadTypeOK'
    BY GotoType, BoundAssumption DEF IInv, TypeOK, ThreadTypeOK, UnlockScan, locals, Label, Thread
<1>2. TypeOK'
    BY <1>1, BoundAssumption DEF IInv, TypeOK, UnlockScan, bus, fields, tasks, ownership, locals, bounds
<1>. USE DEF UnlockScan, Goto, bus, fields, tasks, ownership, locals, bounds
<1>3. LocalsInv'
    BY DEF IInv, TypeOK, ThreadTypeOK, LocalsInv, Adding, Removing, Holding, Crashed, Thread
<1>4. LockInv' /\ ScanNeverReplaces'
    BY DEF IInv, TypeOK, ThreadTypeOK, LocalsInv, LockInv, ScanNeverReplaces, Adding, Removing, Thread
<1>. QED
    BY <1>2, <1>3, <1>4, Quiet DEF IInv, TypeOK, ThreadTypeOK, LocalsInv, Holding, Retaining, Crashed, Thread

\* onStop starts with the monitor unregistered.
LEMMA OnStopStep == ASSUME IInv, OnStop PROVE IInv'
<1>1. ThreadTypeOK'
    BY GotoType, BoundAssumption DEF IInv, TypeOK, ThreadTypeOK, OnStop, locals, Label, Thread
<1>2. TypeOK'
    BY <1>1, BoundAssumption DEF IInv, TypeOK, OnStop, Stimulus, bus, fields, tasks, ownership, locals, bounds
<1>. USE DEF OnStop, Idle, Stimulus, Goto, bus, fields, tasks, ownership, locals, bounds
<1>3. LocalsInv'
    BY DEF IInv, TypeOK, ThreadTypeOK, LocalsInv, Adding, Removing, Holding, Crashed, Thread
<1>4. LockInv' /\ ScanNeverReplaces'
    BY DEF IInv, TypeOK, ThreadTypeOK, LocalsInv, LockInv, ScanNeverReplaces, Adding, Removing, Thread
<1>. QED
    BY <1>2, <1>3, <1>4, Quiet DEF IInv, TypeOK, ThreadTypeOK, LocalsInv, Holding, Retaining, Crashed, Thread

\* The snapshot only reads the map.
LEMMA SnapshotConnectorsStep == ASSUME IInv, SnapshotConnectors PROVE IInv'
<1>1. ThreadTypeOK'
    BY GotoType, BoundAssumption DEF IInv, TypeOK, ThreadTypeOK, SnapshotConnectors, locals, Label, Thread
<1>2. TypeOK'
    BY <1>1, BoundAssumption DEF IInv, TypeOK, SnapshotConnectors, bus, fields, tasks, ownership, locals, bounds
<1>. USE DEF SnapshotConnectors, Goto, bus, fields, tasks, ownership, locals, bounds
<1>3. LocalsInv'
    BY DEF IInv, TypeOK, ThreadTypeOK, LocalsInv, Adding, Removing, Holding, Crashed, Thread
<1>4. LockInv' /\ ScanNeverReplaces'
    BY DEF IInv, TypeOK, ThreadTypeOK, LocalsInv, LockInv, ScanNeverReplaces, Adding, Removing, Thread
<1>. QED
    BY <1>2, <1>3, <1>4, Quiet DEF IInv, TypeOK, ThreadTypeOK, LocalsInv, Holding, Retaining, Crashed, Thread

\* The loop of onStop calls removeDevice.
LEMMA StopDeviceStep == ASSUME IInv, NEW d \in Device, StopDevice(d) PROVE IInv'
<1>1. ThreadTypeOK'
  <2>1. ThreadTypeOK /\ "main" \in Thread /\ "nativeRemove" \in Label /\ 0 \in 0..MaxRetry
    BY BoundAssumption DEF IInv, TypeOK, Thread, Label
  <2>2. Call("main", d, 0, "nativeRemove")
    BY DEF StopDevice
  <2>. QED BY <2>1, <2>2, CallType
<1>2. TypeOK'
    BY <1>1, BoundAssumption DEF IInv, TypeOK, StopDevice, bus, fields, tasks, ownership, locals, bounds
<1>. USE DEF StopDevice, Call, Goto, bus, fields, tasks, ownership, locals, bounds
<1>3. LocalsInv'
    BY DEF IInv, TypeOK, ThreadTypeOK, LocalsInv, Adding, Removing, Holding, Crashed, Thread
<1>4. LockInv' /\ ScanNeverReplaces'
    BY DEF IInv, TypeOK, ThreadTypeOK, LocalsInv, LockInv, ScanNeverReplaces, Adding, Removing, Thread
<1>. QED
    BY <1>2, <1>3, <1>4, Quiet DEF IInv, TypeOK, ThreadTypeOK, LocalsInv, Holding, Retaining, Crashed, Thread

\* It ends when it has visited the snapshot.
LEMMA FinishStopStep == ASSUME IInv, FinishStop PROVE IInv'
<1>1. ThreadTypeOK'
    BY GotoType, BoundAssumption DEF IInv, TypeOK, ThreadTypeOK, FinishStop, locals, Label, Thread
<1>2. TypeOK'
    BY <1>1, BoundAssumption DEF IInv, TypeOK, FinishStop, bus, fields, tasks, ownership, locals, bounds
<1>. USE DEF FinishStop, Goto, bus, fields, tasks, ownership, locals, bounds
<1>3. LocalsInv'
    BY DEF IInv, TypeOK, ThreadTypeOK, LocalsInv, Adding, Removing, Holding, Crashed, Thread
<1>4. LockInv' /\ ScanNeverReplaces'
    BY DEF IInv, TypeOK, ThreadTypeOK, LocalsInv, LockInv, ScanNeverReplaces, Adding, Removing, Thread
<1>. QED
    BY <1>2, <1>3, <1>4, Quiet DEF IInv, TypeOK, ThreadTypeOK, LocalsInv, Holding, Retaining, Crashed, Thread

\* onDetach nulls the monitor and drops the callbacks that wait.
LEMMA OnDetachStep == ASSUME IInv, OnDetach PROVE IInv'
<1>1. ThreadTypeOK'
    BY GotoType, BoundAssumption DEF IInv, TypeOK, ThreadTypeOK, OnDetach, locals, Label, Thread
<1>2. TypeOK'
    BY <1>1, BoundAssumption DEF IInv, TypeOK, OnDetach, Stimulus, bus, fields, tasks, ownership, locals, bounds, NoEvents
<1>. USE DEF OnDetach, Idle, Stimulus, Goto, bus, fields, tasks, ownership, locals, bounds
<1>3. LocalsInv'
    BY DEF IInv, TypeOK, ThreadTypeOK, LocalsInv, Adding, Removing, Holding, Crashed, Thread
<1>4. LockInv' /\ ScanNeverReplaces'
    BY DEF IInv, TypeOK, ThreadTypeOK, LocalsInv, LockInv, ScanNeverReplaces, Adding, Removing, Thread
<1>. QED
    BY <1>2, <1>3, <1>4, Quiet DEF IInv, TypeOK, ThreadTypeOK, LocalsInv, Holding, Retaining, Crashed, Thread

\* A callback starts on usb with a device and no connector.
LEMMA RunCallbackStep == ASSUME IInv, NEW d \in Device, RunCallback(d) PROVE IInv'
<1>1. ThreadTypeOK'
  <2>1. Head(events[d]) \in Callback
    BY TakeType DEF IInv, RunCallback
  <2>2. \E label \in {"onAttach", "check", "nativeRemove"} : Call("usb", d, 0, label)
    BY <2>1 DEF RunCallback, Callback
  <2>. QED BY <2>2, CallType, BoundAssumption DEF IInv, TypeOK, Label, Thread
<1>2. TypeOK'
  <2>1. events' \in [Device -> Seq(Callback)]
    BY TakeType DEF IInv, RunCallback
  <2>. QED BY <1>1, <2>1 DEF IInv, TypeOK, RunCallback, fields, tasks, ownership, bounds
<1>. USE DEF RunCallback, Idle, Call, Goto, bus, fields, tasks, ownership, locals, bounds
<1>3. LocalsInv'
    BY DEF IInv, TypeOK, ThreadTypeOK, LocalsInv, Adding, Removing, Holding, Crashed, Thread, Callback
<1>4. LockInv' /\ ScanNeverReplaces'
    BY DEF IInv, TypeOK, ThreadTypeOK, LocalsInv, LockInv, ScanNeverReplaces, Adding, Removing, Thread, Callback
<1>5. PICK label \in {"onAttach", "check", "nativeRemove"} : Call("usb", d, 0, label)
    <2>1. Head(events[d]) \in Callback
      BY TakeType DEF IInv, TypeOK
    <2>. QED BY <2>1 DEF Callback
<1>6. pc' = [pc EXCEPT !["usb"] = label] /\ conn' = conn
    BY <1>5
<1>7. \A t \in Thread :
         \/ pc'[t] = pc[t] /\ conn'[t] = conn[t]
         \/ /\ pc'[t] \notin Holding
            /\ conn'[t] \in {conn[t], NoConnector}
            /\ pc[t] \notin Retaining
    BY <1>6 DEF IInv, TypeOK, ThreadTypeOK, Holding, Retaining, Thread
<1>8. UNCHANGED ownership /\ (Crashed => Crashed')
    BY DEF Crashed
<1>. QED
    BY <1>2, <1>3, <1>4, <1>7, <1>8, Quiet

\* onAttach calls addDevice, asks for the permission or crashes.
LEMMA AttachCallbackStep == ASSUME IInv, AttachCallback PROVE IInv'
<1>. SUFFICES ASSUME monitor # "null" PROVE IInv'
    BY CrashStep DEF AttachCallback
<1>1. ThreadTypeOK'
    BY ReturnType, GotoType, BoundAssumption DEF IInv, TypeOK, ThreadTypeOK, AttachCallback, NullDereference, locals, Label, Thread
<1>2. TypeOK'
    BY <1>1, BoundAssumption DEF IInv, TypeOK, AttachCallback, NullDereference, bus, fields, tasks, ownership, locals, bounds
<1>. USE DEF AttachCallback, Goto, Return, Home, NullDereference, bus, fields, tasks, ownership, locals, bounds
<1>3. LocalsInv'
    BY DEF IInv, TypeOK, ThreadTypeOK, LocalsInv, Adding, Removing, Holding, Crashed, Thread
<1>4. LockInv' /\ ScanNeverReplaces'
    BY DEF IInv, TypeOK, ThreadTypeOK, LocalsInv, LockInv, ScanNeverReplaces, Adding, Removing, Thread
<1>. QED
    BY <1>2, <1>3, <1>4, Quiet DEF IInv, TypeOK, ThreadTypeOK, LocalsInv, Holding, Retaining, Crashed, Thread

\* A retry starts on async with a device and no connector.
LEMMA RunRetryStep == ASSUME IInv, NEW d \in Device, NEW n \in 1..MaxRetry, RunRetry(d, n) PROVE IInv'
<1>1. ThreadTypeOK'
  <2>1. n \in 0..MaxRetry
    BY BoundAssumption
  <2>2. CASE monitor # "null"
    BY <2>1, <2>2, CallType DEF IInv, TypeOK, RunRetry, Label, Thread
  <2>3. CASE monitor = "null"
    BY <2>3 DEF IInv, TypeOK, ThreadTypeOK, RunRetry
  <2>. QED BY <2>2, <2>3
<1>2. TypeOK'
    BY <1>1, BoundAssumption DEF IInv, TypeOK, RunRetry, bus, fields, tasks, ownership, locals, bounds
<1>. USE DEF RunRetry, Idle, Call, Goto, bus, fields, tasks, ownership, locals, bounds
<1>3. LocalsInv'
    BY DEF IInv, TypeOK, ThreadTypeOK, LocalsInv, Adding, Removing, Holding, Crashed, Thread
<1>4. LockInv' /\ ScanNeverReplaces'
    BY DEF IInv, TypeOK, ThreadTypeOK, LocalsInv, LockInv, ScanNeverReplaces, Adding, Removing, Thread
<1>5. \A t \in Thread :
            \/ pc'[t] = pc[t] /\ conn'[t] = conn[t]
            \/ pc'[t] \notin Holding /\ conn'[t] = conn[t] /\ pc[t] \notin Retaining
    BY DEF IInv, TypeOK, ThreadTypeOK, Holding, Retaining, Thread
<1>. QED
    BY <1>2, <1>3, <1>4, <1>5, Quiet DEF IInv, TypeOK, ThreadTypeOK, Crashed, Thread

\* Its guard calls addDevice, returns or crashes.
LEMMA RetryGuardStep == ASSUME IInv, RetryGuard PROVE IInv'
<1>. SUFFICES ASSUME monitor # "null" PROVE IInv'
    BY CrashStep DEF RetryGuard
<1>1. ThreadTypeOK'
    BY ReturnType, GotoType, BoundAssumption DEF IInv, TypeOK, ThreadTypeOK, RetryGuard, NullDereference, locals, Label, Thread
<1>2. TypeOK'
    BY <1>1, BoundAssumption DEF IInv, TypeOK, RetryGuard, NullDereference, bus, fields, tasks, ownership, locals, bounds
<1>. USE DEF RetryGuard, Goto, Return, Home, NullDereference, bus, fields, tasks, ownership, locals, bounds
<1>3. LocalsInv'
    BY DEF IInv, TypeOK, ThreadTypeOK, LocalsInv, Adding, Removing, Holding, Crashed, Thread
<1>4. LockInv' /\ ScanNeverReplaces'
    BY DEF IInv, TypeOK, ThreadTypeOK, LocalsInv, LockInv, ScanNeverReplaces, Adding, Removing, Thread
<1>5. \A t \in Thread :
            \/ pc'[t] = pc[t] /\ conn'[t] = conn[t]
            \/ /\ pc'[t] \notin Holding
               /\ conn'[t] \in {conn[t], NoConnector}
               /\ pc[t] \notin Retaining
    BY DEF IInv, TypeOK, ThreadTypeOK, Holding, Retaining, Thread
<1>. QED
    BY <1>2, <1>3, <1>4, <1>5, Quiet DEF IInv, TypeOK, ThreadTypeOK, Crashed, Thread

\* A refresh request is only counted.
LEMMA RequestRefreshStep == ASSUME IInv, RequestRefresh PROVE IInv'
<1>1. ThreadTypeOK'
    BY BoundAssumption DEF IInv, TypeOK, ThreadTypeOK, RequestRefresh, locals, Label, Thread
<1>2. TypeOK'
    BY <1>1, BoundAssumption DEF IInv, TypeOK, RequestRefresh, Stimulus, bus, fields, tasks, ownership, locals, bounds
<1>. USE DEF RequestRefresh, Stimulus, bus, fields, tasks, ownership, locals, bounds
<1>3. LocalsInv'
    BY DEF IInv, TypeOK, ThreadTypeOK, LocalsInv, Adding, Removing, Holding, Crashed, Thread
<1>4. LockInv' /\ ScanNeverReplaces'
    BY DEF IInv, TypeOK, ThreadTypeOK, LocalsInv, LockInv, ScanNeverReplaces, Adding, Removing, Thread
<1>. QED
    BY <1>2, <1>3, <1>4, Quiet DEF IInv, TypeOK, ThreadTypeOK, LocalsInv, Holding, Retaining, Crashed, Thread

\* A refresh clears what native code holds.
LEMMA RunRefreshStep == ASSUME IInv, RunRefresh PROVE IInv'
<1>1. ThreadTypeOK'
    BY GotoType, BoundAssumption DEF IInv, TypeOK, ThreadTypeOK, RunRefresh, locals, Label, Thread
<1>2. TypeOK'
    BY <1>1, BoundAssumption DEF IInv, TypeOK, RunRefresh, bus, fields, tasks, ownership, locals, bounds, NoTracked
<1>. USE DEF RunRefresh, Idle, Goto, bus, fields, tasks, ownership, locals, bounds
<1>3. LocalsInv'
    BY DEF IInv, TypeOK, ThreadTypeOK, LocalsInv, Adding, Removing, Holding, Crashed, Thread
<1>4. LockInv' /\ ScanNeverReplaces'
    BY DEF IInv, TypeOK, ThreadTypeOK, LocalsInv, LockInv, ScanNeverReplaces, Adding, Removing, Thread
<1>. QED
    BY <1>2, <1>3, <1>4, Quiet DEF IInv, TypeOK, ThreadTypeOK, LocalsInv, Holding, Retaining, Crashed, Thread

\* Its guard reads the monitor.
LEMMA RefreshGuardStep == ASSUME IInv, RefreshGuard PROVE IInv'
<1>1. ThreadTypeOK'
    BY GotoType, BoundAssumption DEF IInv, TypeOK, ThreadTypeOK, RefreshGuard, locals, Label, Thread
<1>2. TypeOK'
    BY <1>1, BoundAssumption DEF IInv, TypeOK, RefreshGuard, bus, fields, tasks, ownership, locals, bounds
<1>. USE DEF RefreshGuard, Goto, bus, fields, tasks, ownership, locals, bounds
<1>3. LocalsInv'
    BY DEF IInv, TypeOK, ThreadTypeOK, LocalsInv, Adding, Removing, Holding, Crashed, Thread
<1>4. LockInv' /\ ScanNeverReplaces'
    BY DEF IInv, TypeOK, ThreadTypeOK, LocalsInv, LockInv, ScanNeverReplaces, Adding, Removing, Thread
<1>. QED
    BY <1>2, <1>3, <1>4, Quiet DEF IInv, TypeOK, ThreadTypeOK, LocalsInv, Holding, Retaining, Crashed, Thread

\* And reads it again.
LEMMA RefreshRegisteredStep == ASSUME IInv, RefreshRegistered PROVE IInv'
<1>. SUFFICES ASSUME monitor # "null" PROVE IInv'
    BY CrashStep DEF RefreshRegistered
<1>1. ThreadTypeOK'
    BY GotoType, BoundAssumption DEF IInv, TypeOK, ThreadTypeOK, RefreshRegistered, NullDereference, locals, Label, Thread
<1>2. TypeOK'
    BY <1>1, BoundAssumption DEF IInv, TypeOK, RefreshRegistered, NullDereference, bus, fields, tasks, ownership, locals,
       bounds
<1>. USE DEF RefreshRegistered, Goto, NullDereference, bus, fields, tasks, ownership, locals, bounds
<1>3. LocalsInv'
    BY DEF IInv, TypeOK, ThreadTypeOK, LocalsInv, Adding, Removing, Holding, Crashed, Thread
<1>4. LockInv' /\ ScanNeverReplaces'
    BY DEF IInv, TypeOK, ThreadTypeOK, LocalsInv, LockInv, ScanNeverReplaces, Adding, Removing, Thread
<1>. QED
    BY <1>2, <1>3, <1>4, Quiet DEF IInv, TypeOK, ThreadTypeOK, LocalsInv, Holding, Retaining, Crashed, Thread

\* refreshDevices posts callbacks.
LEMMA RefreshDevicesStep == ASSUME IInv, RefreshDevices PROVE IInv'
<1>. SUFFICES ASSUME monitor # "null" PROVE IInv'
    BY CrashStep DEF RefreshDevices
<1>1. ThreadTypeOK'
    BY GotoType, BoundAssumption DEF IInv, TypeOK, ThreadTypeOK, RefreshDevices, NullDereference, locals, Label, Thread
<1>2. TypeOK'
  <2>1. \A d \in Device : Append(events[d], "attach") \in Seq(Callback)
    BY DEF IInv, TypeOK, Callback
  <2>2. events' \in [Device -> Seq(Callback)]
    BY <2>1 DEF IInv, TypeOK, RefreshDevices, NullDereference
  <2>. QED BY <1>1, <2>2 DEF IInv, TypeOK, RefreshDevices, NullDereference, fields, tasks, ownership, locals, bounds
<1>. USE DEF RefreshDevices, Goto, NullDereference, bus, fields, tasks, ownership, locals, bounds
<1>3. LocalsInv'
    BY DEF IInv, TypeOK, ThreadTypeOK, LocalsInv, Adding, Removing, Holding, Crashed, Thread
<1>4. LockInv' /\ ScanNeverReplaces'
    BY DEF IInv, TypeOK, ThreadTypeOK, LocalsInv, LockInv, ScanNeverReplaces, Adding, Removing, Thread
<1>. QED
    BY <1>2, <1>3, <1>4, Quiet DEF IInv, TypeOK, ThreadTypeOK, LocalsInv, Holding, Retaining, Crashed, Thread

-----------------------------------------------------------------------------
(* Steps that move a connector.                                            *)

\* The finalizer sees only connectors nobody refers to, and those are open.
LEMMA FinalizeStep == ASSUME IInv, NEW c \in Connector, Finalize(c) PROVE IInv'
<1>. USE DEF Finalize, bus, fields, tasks, locals, bounds
<1>1. status[c] = "open" /\ \A t \in Thread : conn[t] # c
    BY DEF IInv, ClosedRetained, Reachable
<1>2. \A d \in Device : connectors[d] # c
    BY DEF Reachable
<1>3. TypeOK' /\ LocalsInv' /\ LockInv' /\ ScanNeverReplaces' /\ MapInv'
    BY DEF IInv, TypeOK, ThreadTypeOK, LocalsInv, LockInv, ScanNeverReplaces, MapInv, Crashed
<1>4. OwnerInv'
    BY <1>1 DEF IInv, TypeOK, ThreadTypeOK, LocalsInv, OwnerInv, Holding, Closing, Retaining
<1>5. GraveyardInv' /\ ClosedRetained' /\ NoDoubleClose'
    BY <1>1 DEF IInv, TypeOK, GraveyardInv, ClosedRetained, NoDoubleClose, Crashed
<1>6. TrackedOpen'
    BY <1>2 DEF IInv, TypeOK, TrackedOpen
<1>. QED BY <1>3, <1>4, <1>5, <1>6 DEF IInv

\* The new connector is nowhere yet: everything the invariant places is not unused.
LEMMA OpenDeviceStep == ASSUME IInv, NEW t \in Thread, OpenDevice(t) PROVE IInv'
<1>. DEFINE c == FreshConnector
<1>1. c \in Connector /\ status[c] = "unused"
    BY DEF OpenDevice, FreshConnector
<1>2. /\ \A u \in Thread : conn[u] # c
      /\ \A d \in Device : connectors[d] # c
      /\ c \notin graveyard \cup instanceGraveyard
    BY <1>1, NoneAssumption DEF IInv, OwnerInv, TrackedOpen, GraveyardInv
<1>. HIDE DEF c
<1>3. /\ pc[t] = "open"
      /\ status' = [status EXCEPT ![c] = "open"]
      /\ conn' = [conn EXCEPT ![t] = c]
      /\ pc' = [pc EXCEPT ![t] = "put"]
      /\ UNCHANGED <<bus, fields, tasks, connectors, graveyard, instanceGraveyard, native,
                     lock, dev, retry, work, bounds>>
    BY DEF OpenDevice, Goto, c
<1>. USE <1>1, <1>2, <1>3 DEF bus, fields, tasks, bounds
<1>4. TypeOK' /\ LocalsInv'
    BY DEF IInv, TypeOK, ThreadTypeOK, Label, LocalsInv, Adding, Removing, Holding, Crashed, Thread
<1>5. LockInv' /\ ScanNeverReplaces'
    BY DEF IInv, TypeOK, ThreadTypeOK, LockInv, ScanNeverReplaces, Adding, Removing, Thread
<1>6. OwnerInv' /\ MapInv'
    BY NoneAssumption DEF IInv, TypeOK, ThreadTypeOK, LocalsInv, OwnerInv, MapInv, Holding, Closing, Retaining
<1>7. GraveyardInv' /\ TrackedOpen' /\ NoDoubleClose'
    BY DEF IInv, TypeOK, GraveyardInv, TrackedOpen, NoDoubleClose
<1>8. ClosedRetained'
    BY DEF IInv, TypeOK, ThreadTypeOK, ClosedRetained, Crashed, Thread
<1>. QED BY <1>4, <1>5, <1>6, <1>7, <1>8 DEF IInv

\* The map's new entry is the connector this thread alone may close.
LEMMA PutConnectorStep == ASSUME IInv, NEW t \in Thread, PutConnector(t) PROVE IInv'
<1>. USE DEF PutConnector, Goto, bus, fields, tasks, locals, bounds
<1>1. TypeOK' /\ LocalsInv'
    BY DEF IInv, TypeOK, ThreadTypeOK, Label, LocalsInv, Adding, Removing, Holding, Crashed, Thread
<1>2. LockInv' /\ ScanNeverReplaces'
    BY DEF IInv, TypeOK, ThreadTypeOK, LocalsInv, LockInv, ScanNeverReplaces, Adding, Removing, Thread
<1>3. OwnerInv' /\ MapInv'
    BY NoneAssumption DEF IInv, TypeOK, ThreadTypeOK, LocalsInv, OwnerInv, MapInv, Adding, Holding, Closing, Retaining
<1>4. TrackedOpen'
    BY NoneAssumption DEF IInv, TypeOK, ThreadTypeOK, LocalsInv, OwnerInv, TrackedOpen, Adding, Holding, Closing
<1>5. GraveyardInv' /\ NoDoubleClose' /\ ClosedRetained'
    BY DEF IInv, TypeOK, ThreadTypeOK, GraveyardInv, NoDoubleClose, ClosedRetained, Crashed, Thread
<1>. QED BY <1>1, <1>2, <1>3, <1>4, <1>5 DEF IInv

\* What leaves the map for this thread's hands had no other owner.
LEMMA NativeAddExceptionStep == ASSUME IInv, NEW t \in Thread, NativeAddException(t) PROVE IInv'
<1>1. CASE connectors[dev[t]] = NoConnector
  <2>. USE <1>1 DEF NativeAddException, bus, fields, tasks, ownership, bounds
  <2>1. UNCHANGED ownership
    BY DEF IInv, TypeOK, LocalsInv, Adding
  <2>2. ThreadTypeOK'
    BY ReturnType DEF IInv, TypeOK
  <2>3. TypeOK'
    BY <2>1, <2>2 DEF IInv, TypeOK
  <2>. USE DEF Return, Goto, Home
  <2>4. LocalsInv'
    BY DEF IInv, TypeOK, ThreadTypeOK, LocalsInv, Adding, Removing, Holding, Crashed, Thread
  <2>5. LockInv' /\ ScanNeverReplaces'
    BY <2>1 DEF IInv, TypeOK, ThreadTypeOK, LocalsInv, LockInv, ScanNeverReplaces, Adding, Removing, Thread
  <2>. QED
    BY <2>1, <2>3, <2>4, <2>5, Quiet DEF IInv, TypeOK, ThreadTypeOK, LocalsInv, Holding, Retaining, Crashed, Thread
<1>2. CASE connectors[dev[t]] # NoConnector
  <2>. USE <1>2 DEF NativeAddException, Goto, bus, fields, tasks, bounds
  <2>1. dev[t] \in Device /\ connectors[dev[t]] \in Connector
    BY DEF IInv, TypeOK, LocalsInv, Adding
  <2>2. TypeOK' /\ LocalsInv'
    BY <2>1 DEF IInv, TypeOK, ThreadTypeOK, Label, LocalsInv, Adding, Removing, Holding, Crashed, Thread
  <2>3. LockInv' /\ ScanNeverReplaces'
    BY <2>1 DEF IInv, TypeOK, ThreadTypeOK, LockInv, ScanNeverReplaces, Adding, Removing, Thread
  <2>4. OwnerInv'
    BY <2>1, NoneAssumption DEF IInv, TypeOK, ThreadTypeOK, LocalsInv, OwnerInv, MapInv, TrackedOpen, Holding, Closing, Retaining, Crashed, Thread
  <2>5. \A d \in Device : connectors'[d] # conn'[t] /\ connectors'[d] \in {connectors[d], NoConnector}
    BY <2>1, NoneAssumption DEF IInv, TypeOK, ThreadTypeOK, TrackedOpen
  <2>6. MapInv'
    BY <2>5 DEF IInv, TypeOK, ThreadTypeOK, MapInv
  <2>7. TrackedOpen'
    BY <2>5 DEF IInv, TrackedOpen
  <2>8. GraveyardInv' /\ NoDoubleClose'
    BY DEF IInv, GraveyardInv, NoDoubleClose
  <2>9. ClosedRetained'
    <3>. SUFFICES ASSUME ~Crashed', NEW c \in Connector, status[c] = "closed", c \notin graveyard
         PROVE  \E u \in Thread : pc'[u] \in {"retain", "retainLocked"} /\ conn'[u] = c
        BY DEF ClosedRetained
    <3>1. PICK u \in Thread : pc[u] \in {"retain", "retainLocked"} /\ conn[u] = c
        BY DEF IInv, TypeOK, ThreadTypeOK, ClosedRetained, Crashed, Thread
    <3>2. u # t
        BY <3>1
    <3>. QED BY <3>1, <3>2 DEF IInv, TypeOK, ThreadTypeOK
  <2>. QED BY <2>2, <2>3, <2>4, <2>6, <2>7, <2>8, <2>9 DEF IInv
<1>. QED BY <1>1, <1>2

\* removeDevice takes the connector out of the map under the lock.
LEMMA TakeConnectorStep == ASSUME IInv, NEW t \in Thread, TakeConnector(t) PROVE IInv'
<1>1. CASE connectors[dev[t]] = NoConnector
  <2>. USE <1>1 DEF TakeConnector, bus, fields, tasks, ownership, bounds
  <2>1. UNCHANGED ownership
    BY DEF IInv, TypeOK, LocalsInv, Removing
  <2>2. ThreadTypeOK'
    BY ReturnType DEF IInv, TypeOK
  <2>3. TypeOK'
    BY <2>1, <2>2 DEF IInv, TypeOK
  <2>. USE DEF Return, Goto, Home
  <2>4. LocalsInv'
    BY DEF IInv, TypeOK, ThreadTypeOK, LocalsInv, Adding, Removing, Holding, Crashed, Thread
  <2>5. LockInv' /\ ScanNeverReplaces'
    BY <2>1 DEF IInv, TypeOK, ThreadTypeOK, LocalsInv, LockInv, ScanNeverReplaces, Adding, Removing, Thread
  <2>. QED
    BY <2>1, <2>3, <2>4, <2>5, Quiet DEF IInv, TypeOK, ThreadTypeOK, LocalsInv, Holding, Retaining, Crashed, Thread
<1>2. CASE connectors[dev[t]] # NoConnector
  <2>. USE <1>2 DEF TakeConnector, Goto, bus, fields, tasks, bounds
  <2>1. dev[t] \in Device /\ connectors[dev[t]] \in Connector
    BY DEF IInv, TypeOK, LocalsInv, Removing
  <2>2. TypeOK' /\ LocalsInv'
    BY <2>1 DEF IInv, TypeOK, ThreadTypeOK, Label, LocalsInv, Adding, Removing, Holding, Crashed, Thread
  <2>3. LockInv' /\ ScanNeverReplaces'
    BY <2>1 DEF IInv, TypeOK, ThreadTypeOK, LockInv, ScanNeverReplaces, Adding, Removing, Thread
  <2>4. OwnerInv'
    BY <2>1, NoneAssumption DEF IInv, TypeOK, ThreadTypeOK, LocalsInv, OwnerInv, MapInv, TrackedOpen, Holding, Closing, Retaining, Crashed, Thread
  <2>5. \A d \in Device : connectors'[d] # conn'[t] /\ connectors'[d] \in {connectors[d], NoConnector}
    BY <2>1, NoneAssumption DEF IInv, TypeOK, ThreadTypeOK, TrackedOpen
  <2>6. MapInv'
    BY <2>5 DEF IInv, TypeOK, ThreadTypeOK, MapInv
  <2>7. TrackedOpen'
    BY <2>5 DEF IInv, TrackedOpen
  <2>8. GraveyardInv' /\ NoDoubleClose'
    BY DEF IInv, GraveyardInv, NoDoubleClose
  <2>9. ClosedRetained'
    <3>. SUFFICES ASSUME ~Crashed', NEW c \in Connector, status[c] = "closed", c \notin graveyard
         PROVE  \E u \in Thread : pc'[u] \in {"retain", "retainLocked"} /\ conn'[u] = c
        BY DEF ClosedRetained
    <3>1. PICK u \in Thread : pc[u] \in {"retain", "retainLocked"} /\ conn[u] = c
        BY DEF IInv, TypeOK, ThreadTypeOK, ClosedRetained, Crashed, Thread
    <3>2. u # t
        BY <3>1
    <3>. QED BY <3>1, <3>2 DEF IInv, TypeOK, ThreadTypeOK
  <2>. QED BY <2>2, <2>3, <2>4, <2>6, <2>7, <2>8, <2>9 DEF IInv
<1>. QED BY <1>1, <1>2

\* The first and only close of a connector that nothing tracks.
LEMMA CloseConnectorStep == ASSUME IInv, NEW t \in Thread, CloseConnector(t) PROVE IInv'
<1>. USE DEF CloseConnector, Goto, bus, fields, tasks, locals, bounds
<1>1. /\ conn[t] \in Connector /\ status[conn[t]] = "open"
      /\ \A d \in Device : connectors[d] # conn[t]
      /\ \A u \in Thread \ {t} : conn[u] = conn[t] => pc[u] = "nativeAdd"
    BY DEF IInv, LocalsInv, OwnerInv, Holding, Closing
<1>2. TypeOK' /\ LocalsInv'
    BY DEF IInv, TypeOK, ThreadTypeOK, Label, LocalsInv, Adding, Removing, Holding, Crashed, Thread
<1>3. LockInv' /\ ScanNeverReplaces'
    BY DEF IInv, TypeOK, ThreadTypeOK, LockInv, ScanNeverReplaces, Adding, Removing, Thread
<1>4. OwnerInv'
    BY <1>1, NoneAssumption DEF IInv, TypeOK, ThreadTypeOK, LocalsInv, OwnerInv, Holding, Closing, Retaining
<1>5. MapInv' /\ TrackedOpen'
    BY <1>1 DEF IInv, TypeOK, ThreadTypeOK, MapInv, TrackedOpen
<1>6. GraveyardInv' /\ NoDoubleClose' /\ ClosedRetained'
    BY <1>1 DEF IInv, TypeOK, ThreadTypeOK, GraveyardInv, NoDoubleClose, ClosedRetained, Crashed, Thread
<1>. QED BY <1>2, <1>3, <1>4, <1>5, <1>6 DEF IInv

\* The catch block of addDevice gives its closed connector to the graveyard.
LEMMA RetainAfterExceptionStep == ASSUME IInv, NEW t \in Thread, RetainAfterException(t) PROVE IInv'
<1>1. ThreadTypeOK'
    BY ReturnType DEF IInv, TypeOK, RetainAfterException
<1>2. conn[t] \in Connector /\ status[conn[t]] = "closed"
    BY DEF IInv, LocalsInv, OwnerInv, RetainAfterException, Holding, Retaining
<1>. USE DEF RetainAfterException, retainClosedConnector, Return, Goto, Home, bus, fields, tasks, bounds
<1>3. TypeOK'
    BY <1>1, <1>2 DEF IInv, TypeOK
<1>4. LocalsInv'
    BY DEF IInv, TypeOK, ThreadTypeOK, LocalsInv, Adding, Removing, Holding, Crashed, Thread
<1>5. LockInv' /\ ScanNeverReplaces'
    BY DEF IInv, TypeOK, ThreadTypeOK, LockInv, ScanNeverReplaces, Adding, Removing, Thread
<1>6. OwnerInv' /\ MapInv'
    BY NoneAssumption DEF IInv, TypeOK, ThreadTypeOK, LocalsInv, OwnerInv, MapInv, Holding, Closing, Retaining
<1>7. GraveyardInv' /\ TrackedOpen' /\ NoDoubleClose' /\ ClosedRetained'
    BY <1>2 DEF IInv, TypeOK, ThreadTypeOK, GraveyardInv, TrackedOpen, NoDoubleClose, ClosedRetained, Crashed, Thread
<1>. QED BY <1>3, <1>4, <1>5, <1>6, <1>7 DEF IInv

\* So does removeDevice, which then leaves the lock.
LEMMA RetainAfterRemoveStep == ASSUME IInv, NEW t \in Thread, RetainAfterRemove(t) PROVE IInv'
<1>1. ThreadTypeOK'
    BY ReturnType DEF IInv, TypeOK, RetainAfterRemove
<1>2. conn[t] \in Connector /\ status[conn[t]] = "closed"
    BY DEF IInv, LocalsInv, OwnerInv, RetainAfterRemove, Holding, Retaining
<1>. USE DEF RetainAfterRemove, retainClosedConnector, Return, Goto, Home, bus, fields, tasks, bounds
<1>3. TypeOK'
    BY <1>1, <1>2 DEF IInv, TypeOK
<1>4. LocalsInv'
    BY DEF IInv, TypeOK, ThreadTypeOK, LocalsInv, Adding, Removing, Holding, Crashed, Thread
<1>5. LockInv' /\ ScanNeverReplaces'
    BY DEF IInv, TypeOK, ThreadTypeOK, LockInv, ScanNeverReplaces, Adding, Removing, Thread
<1>6. OwnerInv' /\ MapInv'
    BY NoneAssumption DEF IInv, TypeOK, ThreadTypeOK, LocalsInv, OwnerInv, MapInv, Holding, Closing, Retaining
<1>7. GraveyardInv' /\ TrackedOpen' /\ NoDoubleClose' /\ ClosedRetained'
    BY <1>2 DEF IInv, TypeOK, ThreadTypeOK, GraveyardInv, TrackedOpen, NoDoubleClose, ClosedRetained, Crashed, Thread
<1>. QED BY <1>3, <1>4, <1>5, <1>6, <1>7 DEF IInv

\* Clearing the instance graveyard leaves the global one.
LEMMA QuitHandlerStep == ASSUME IInv, QuitHandler PROVE IInv'
<1>. USE DEF QuitHandler, Goto, bus, locals, bounds
<1>1. TypeOK'
    BY DEF IInv, TypeOK, ThreadTypeOK, Label, NoRetries
<1>2. LocalsInv' /\ LockInv' /\ ScanNeverReplaces'
    BY DEF IInv, TypeOK, ThreadTypeOK, LocalsInv, LockInv, ScanNeverReplaces, Adding, Removing, Holding, Crashed, Thread
<1>3. OwnerInv' /\ MapInv'
    BY DEF IInv, TypeOK, ThreadTypeOK, OwnerInv, MapInv, Closing, Retaining
<1>4. GraveyardInv' /\ TrackedOpen' /\ NoDoubleClose' /\ ClosedRetained'
    BY DEF IInv, TypeOK, ThreadTypeOK, GraveyardInv, TrackedOpen, NoDoubleClose, ClosedRetained, Crashed
<1>. QED BY <1>1, <1>2, <1>3, <1>4 DEF IInv

\* A new fragment forgets its map; the connectors in it stay open.
LEMMA NewFragmentStep == ASSUME IInv, NewFragment PROVE IInv'
<1>. USE DEF NewFragment, NoTracked, bus, fields, tasks, locals, bounds
<1>1. TypeOK' /\ LocalsInv' /\ LockInv' /\ ScanNeverReplaces'
    BY DEF IInv, TypeOK, ThreadTypeOK, LocalsInv, LockInv, ScanNeverReplaces, Idle, Crashed, Thread
<1>2. OwnerInv' /\ MapInv'
    BY DEF IInv, OwnerInv, MapInv, Idle, Closing, Retaining
<1>3. GraveyardInv' /\ TrackedOpen' /\ NoDoubleClose' /\ ClosedRetained'
    BY DEF IInv, GraveyardInv, TrackedOpen, NoDoubleClose, ClosedRetained, Crashed
<1>. QED BY <1>1, <1>2, <1>3 DEF IInv

-----------------------------------------------------------------------------
(* The theorems.                                                           *)

\* The invariant holds before anything has happened.
LEMMA Initial == Init => IInv
<1>. SUFFICES ASSUME Init PROVE IInv
    OBVIOUS
<1>. USE DEF Init, NoTracked
<1>1. TypeOK
  <2>1. ThreadTypeOK
    BY BoundAssumption DEF ThreadTypeOK, Label
  <2>2. events \in [Device -> Seq(Callback)] /\ retries \in [Device -> [1..MaxRetry -> Nat]]
    BY DEF NoEvents, NoRetries
  <2>3. connectors \in [Device -> Connector \cup {NoConnector}] /\ native \in [Device -> Connector \cup {NoConnector}]
    OBVIOUS
  <2>4. status \in [Connector -> {"unused", "open", "closed", "finalized", "aborted"}]
    OBVIOUS
  <2>5. /\ attached \in SUBSET Device /\ permitted \in SUBSET Device /\ requested \in SUBSET Device
        /\ graveyard \in SUBSET Connector /\ instanceGraveyard \in SUBSET Connector
        /\ work \in SUBSET Device
    OBVIOUS
  <2>6. /\ monitor \in {"null", "unregistered", "registered"}
        /\ refreshes \in Nat /\ lock \in Thread \cup {"free"}
        /\ faults \in 0..MaxFaults /\ inputs \in 0..MaxInputs
    BY BoundAssumption
  <2>7. handler \in BOOLEAN
    BY Zenon
  <2>. HIDE DEF Init, NoTracked
  <2>. QED BY <2>1, <2>2, <2>3, <2>4, <2>5, <2>6, <2>7 DEF TypeOK
<1>2. LocalsInv /\ LockInv /\ ScanNeverReplaces
    BY DEF LocalsInv, LockInv, ScanNeverReplaces, Adding, Removing, Holding, Crashed, Thread
<1>3. OwnerInv /\ MapInv /\ GraveyardInv /\ TrackedOpen /\ ClosedRetained /\ NoDoubleClose
    BY DEF OwnerInv, MapInv, GraveyardInv, TrackedOpen, ClosedRetained, NoDoubleClose, Closing, Retaining
<1>. QED BY <1>1, <1>2, <1>3 DEF IInv

\* It does not depend on anything outside the variables.
LEMMA Stuttering == ASSUME IInv, UNCHANGED vars PROVE IInv'
<1>. USE DEF vars, bus, fields, tasks, ownership, locals, bounds
<1>1. TypeOK' /\ LocalsInv' /\ LockInv' /\ ScanNeverReplaces'
    BY DEF IInv, TypeOK, ThreadTypeOK, LocalsInv, LockInv, ScanNeverReplaces, Crashed
<1>. QED BY <1>1, Quiet DEF Crashed

\* Every step preserves it.
LEMMA Inductive == IInv /\ [Next]_vars => IInv'
<1>. SUFFICES ASSUME IInv, [Next]_vars PROVE IInv'
    OBVIOUS
<1>1. ASSUME NEW t \in Thread, ThreadStep(t) PROVE IInv'
    BY <1>1, CheckPermissionStep, OpenDeviceStep, OpenIOExceptionStep, OpenOtherExceptionStep,
       PutConnectorStep, NativeAddStep, NativeAddExceptionStep, RetainAfterExceptionStep,
       CloseConnectorStep, NativeRemoveStep, TakeConnectorStep, RetainAfterRemoveStep
       DEF ThreadStep, AddDevice, RemoveDevice
<1>2. CASE MainStep
    BY <1>2, LockScanStep, UnlockScanStep, SnapshotConnectorsStep, FinishStopStep, QuitHandlerStep,
       ScanDeviceStep, StopDeviceStep DEF MainStep
<1>3. CASE UsbStep
    BY <1>3, AttachCallbackStep, RunCallbackStep DEF UsbStep
<1>4. CASE AsyncStep
    BY <1>4, RetryGuardStep, RunRefreshStep, RefreshGuardStep, RefreshRegisteredStep, RefreshDevicesStep, RunRetryStep DEF AsyncStep
<1>5. CASE Lifecycle
    BY <1>5, OnAttachStep, OnStartStep, OnStopStep, OnDetachStep, NewFragmentStep DEF Lifecycle
<1>6. CASE Environment
    BY <1>6, RescanConnectedDevicesStep, RequestRefreshStep, PlugInStep, UnplugStep,
       GrantPermissionStep, FinalizeStep DEF Environment
<1>7. CASE UNCHANGED vars
    BY <1>7, Stuttering
<1>. QED BY <1>1, <1>2, <1>3, <1>4, <1>5, <1>6, <1>7 DEF Next

\* The inductive invariant holds in every reachable state, for all values of the
\* constants: every connector has at most one owner among the map and the threads.
THEOREM Invariance == Spec => []IInv
BY Initial, Inductive, PTL DEF Spec

\* Type correctness, for every number of devices, connectors, retries and inputs.
THEOREM TypeCorrect == Spec => []TypeOK
<1>1. IInv => TypeOK
    BY DEF IInv
<1>. QED BY <1>1, Invariance, PTL

\* No UsbConnector is closed twice, by the fragment's threads or by the finalizer.
THEOREM NeverClosedTwice == Spec => []NoDoubleClose
<1>1. IInv => NoDoubleClose
    BY DEF IInv
<1>. QED BY <1>1, Invariance, PTL

\* A closed connector is in the process-lifetime graveyard, or about to enter it.
THEOREM ClosedAreRetained == Spec => []ClosedRetained
<1>1. IInv => ClosedRetained
    BY DEF IInv
<1>. QED BY <1>1, Invariance, PTL

\* mConnectors maps devices to open connectors, no connector twice.
THEOREM TrackedAreOpen == Spec => []TrackedOpen
<1>1. IInv => TrackedOpen
    BY DEF IInv
<1>. QED BY <1>1, Invariance, PTL

\* A re-scan under the lock never replaces a tracked connector.
THEOREM ScansNeverReplace == Spec => []ScanNeverReplaces
<1>1. IInv => ScanNeverReplaces
    BY DEF IInv
<1>. QED BY <1>1, Invariance, PTL
=============================================================================
