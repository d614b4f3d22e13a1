--------------------- MODULE MCDeviceDetectorHistoryProofs ---------------------
(* Proof that native code and mConnectors agree while handlers do not overlap,  *)
(* with the history variable of MCDeviceDetectorHistory and for any value of    *)
(* the constants.                                                               *)
EXTENDS MCDeviceDetectorHistory, DeviceDetectorFragmentProofs

\* While handlers do not overlap, one thread at most is busy; between put and nativeAdd of a
\* device nothing else takes its place in the map; and native code reads another connector
\* than the tracked one only in that interval.
Sequential ==
    /\ \A t, u \in Thread : ~Idle(t) /\ ~Idle(u) => t = u
    /\ \A t \in Thread : pc[t] = "nativeAdd" => connectors[dev[t]] = conn[t]
    /\ \A d \in Device : connectors[d] # NoConnector /\ native[d] # NoConnector =>
           \/ native[d] = connectors[d]
           \/ \E t \in Thread : pc[t] = "nativeAdd" /\ dev[t] = d

HInv == ~overlapped => Sequential

-----------------------------------------------------------------------------
(* What the steps have in common.                                          *)

\* Handlers that have not overlapped had not before, and one thread at most is busy.
LEMMA Alone ==
    ASSUME MCNext, ~overlapped'
    PROVE  ~overlapped /\ \A t, u \in Thread : ~Idle(t)' /\ ~Idle(u)' => t = u
BY DEF MCNext

\* The end of the process counts as an overlap: it stops every thread where it is.
LEMMA NoCrash == ASSUME MCNext, ~overlapped' PROVE ~NullDereference
<1>1. ASSUME NullDereference PROVE FALSE
  <2>1. pc'["main"] = "crashed" /\ pc'["usb"] = "crashed"
      BY <1>1 DEF NullDereference, Thread
  <2>2. ~Idle("main")' /\ ~Idle("usb")'
      BY <2>1 DEF Idle
  <2>. QED BY <2>2, Alone DEF Thread
<1>. QED BY <1>1

\* A step that changes neither map nor native code, and does not enter or leave nativeAdd.
LEMMA Untouched ==
    ASSUME HInv, MCNext, ~overlapped', UNCHANGED <<connectors, native>>,
           \A t \in Thread : pc[t] = "nativeAdd" \/ pc'[t] = "nativeAdd" =>
               pc'[t] = pc[t] /\ dev'[t] = dev[t] /\ conn'[t] = conn[t]
    PROVE  Sequential'
<1>1. Sequential /\ \A t, u \in Thread : ~Idle(t)' /\ ~Idle(u)' => t = u
    BY Alone DEF HInv
<1>2. \A t \in Thread : pc'[t] = "nativeAdd" => connectors'[dev'[t]] = conn'[t]
    BY <1>1 DEF Sequential
<1>3. ASSUME NEW d \in Device, connectors'[d] # NoConnector, native'[d] # NoConnector
      PROVE  \/ native'[d] = connectors'[d]
             \/ \E t \in Thread : pc'[t] = "nativeAdd" /\ dev'[t] = d
    BY <1>1, <1>3 DEF Sequential
<1>. QED BY <1>1, <1>2, <1>3 DEF Sequential

-----------------------------------------------------------------------------
(* The calls of a thread.                                                  *)

\* The checks, the opening and the closing touch neither map nor native code.
LEMMA QuietCall ==
    ASSUME IInv, HInv, MCNext, ~overlapped', NEW t \in Thread,
           \/ CheckPermission(t) \/ OpenDevice(t) \/ OpenIOException(t) \/ OpenOtherException(t)
           \/ RetainAfterException(t) \/ CloseConnector(t) \/ RetainAfterRemove(t)
    PROVE  Sequential'
<1>1. UNCHANGED <<connectors, native>>
    BY NoCrash DEF CheckPermission, OpenDevice, OpenIOException, OpenOtherException, RetainAfterException,
       CloseConnector, RetainAfterRemove, ownership
<1>2. pc[t] # "nativeAdd"
    BY DEF CheckPermission, OpenDevice, OpenIOException, OpenOtherException, RetainAfterException,
       CloseConnector, RetainAfterRemove
<1>3. PICK label \in Label \ {"nativeAdd"} : Goto(t, label)
    BY NoCrash DEF CheckPermission, OpenDevice, OpenIOException, OpenOtherException, RetainAfterException,
       CloseConnector, RetainAfterRemove, Return, Home, Label
<1>4. \A u \in Thread \ {t} : dev'[u] = dev[u] /\ conn'[u] = conn[u]
    BY NoCrash DEF CheckPermission, OpenDevice, OpenIOException, OpenOtherException, RetainAfterException,
       CloseConnector, RetainAfterRemove, Return, locals, IInv, TypeOK, ThreadTypeOK
<1>5. \A u \in Thread : pc[u] = "nativeAdd" \/ pc'[u] = "nativeAdd" =>
          pc'[u] = pc[u] /\ dev'[u] = dev[u] /\ conn'[u] = conn[u]
    BY <1>2, <1>3, <1>4 DEF Goto, IInv, TypeOK, ThreadTypeOK
<1>. QED BY <1>1, <1>5, Untouched

\* put opens the interval in which native code may read the connector that was there before.
LEMMA Putting ==
    ASSUME IInv, HInv, MCNext, ~overlapped', NEW t \in Thread, PutConnector(t)
    PROVE  Sequential'
<1>1. Sequential /\ \A u, v \in Thread : ~Idle(u)' /\ ~Idle(v)' => u = v
    BY Alone DEF HInv
<1>2. /\ pc[t] = "put" /\ dev[t] \in Device
      /\ connectors' = [connectors EXCEPT ![dev[t]] = conn[t]]
      /\ pc' = [pc EXCEPT ![t] = "nativeAdd"] /\ UNCHANGED <<native, dev, conn>>
    BY DEF PutConnector, Goto, locals, IInv, LocalsInv, Adding
<1>3. pc'[t] = "nativeAdd" /\ connectors'[dev'[t]] = conn'[t]
    BY <1>2 DEF IInv, TypeOK, ThreadTypeOK
<1>4. \A u \in Thread : pc'[u] = "nativeAdd" => u = t
    BY <1>1, <1>3 DEF Idle
<1>5. \A d \in Device : d # dev[t] => connectors'[d] = connectors[d]
    BY <1>2 DEF IInv, TypeOK
<1>6. \A u \in Thread : pc[u] # "nativeAdd"
    BY <1>1, <1>2 DEF Sequential, Idle
<1>7. ASSUME NEW d \in Device, connectors'[d] # NoConnector, native'[d] # NoConnector
      PROVE  \/ native'[d] = connectors'[d]
             \/ \E u \in Thread : pc'[u] = "nativeAdd" /\ dev'[u] = d
    BY <1>1, <1>2, <1>3, <1>5, <1>6, <1>7 DEF Sequential
<1>. QED BY <1>1, <1>3, <1>4, <1>7 DEF Sequential

\* nativeAdd closes it.
LEMMA Adds ==
    ASSUME IInv, HInv, MCNext, ~overlapped', NEW t \in Thread, NativeAdd(t)
    PROVE  Sequential'
<1>1. Sequential /\ \A u, v \in Thread : ~Idle(u)' /\ ~Idle(v)' => u = v
    BY Alone DEF HInv
<1>2. /\ pc[t] = "nativeAdd" /\ dev[t] \in Device
      /\ native' = [native EXCEPT ![dev[t]] = conn[t]]
      /\ pc' = [pc EXCEPT ![t] = Home(t)] /\ UNCHANGED connectors
    BY DEF NativeAdd, Return, Goto, ownership, IInv, LocalsInv, Adding
<1>3. \A u \in Thread : pc[u] = "nativeAdd" => u = t
    BY <1>1, <1>2 DEF Sequential, Idle
<1>4. \A u \in Thread : pc'[u] # "nativeAdd"
    BY <1>2, <1>3 DEF Home, IInv, TypeOK, ThreadTypeOK
<1>5. native'[dev[t]] = connectors'[dev[t]]
    BY <1>1, <1>2 DEF Sequential, IInv, TypeOK
<1>6. \A d \in Device : d # dev[t] => native'[d] = native[d]
    BY <1>2 DEF IInv, TypeOK
<1>7. ASSUME NEW d \in Device, connectors'[d] # NoConnector, native'[d] # NoConnector
      PROVE  native'[d] = connectors'[d]
    BY <1>1, <1>2, <1>3, <1>5, <1>6, <1>7 DEF Sequential
<1>. QED BY <1>1, <1>4, <1>7 DEF Sequential

\* Its connector is tracked, so its descriptor can be read.
LEMMA NeverThrows ==
    ASSUME IInv, Sequential, NEW t \in Thread
    PROVE  ~NativeAddException(t)
<1>1. ASSUME NativeAddException(t) PROVE FALSE
  <2>1. pc[t] = "nativeAdd" /\ status[conn[t]] # "open"
      BY <1>1 DEF NativeAddException
  <2>2. dev[t] \in Device /\ conn[t] # NoConnector /\ connectors[dev[t]] = conn[t]
      BY <2>1, NoneAssumption DEF IInv, LocalsInv, Adding, Holding, Sequential
  <2>. QED BY <2>1, <2>2 DEF IInv, TrackedOpen
<1>. QED BY <1>1

\* nativeRemove comes before the connector is taken out of the map.
LEMMA Removes ==
    ASSUME IInv, HInv, MCNext, ~overlapped', NEW t \in Thread, NativeRemove(t) \/ TakeConnector(t)
    PROVE  Sequential'
<1>1. Sequential /\ \A u, v \in Thread : ~Idle(u)' /\ ~Idle(v)' => u = v
    BY Alone DEF HInv
<1>2. pc[t] \in {"nativeRemove", "take"} /\ dev[t] \in Device
    BY DEF NativeRemove, TakeConnector, IInv, LocalsInv, Removing
<1>3. PICK label \in Label \ {"nativeAdd"} : Goto(t, label)
    BY DEF NativeRemove, TakeConnector, Return, Home, Label
<1>4. \A u \in Thread : pc[u] # "nativeAdd"
    BY <1>1, <1>2 DEF Sequential, Idle
<1>5. \A u \in Thread : pc'[u] # "nativeAdd"
    BY <1>3, <1>4 DEF Goto, IInv, TypeOK, ThreadTypeOK
<1>6. \/ native' = [native EXCEPT ![dev[t]] = NoConnector] /\ UNCHANGED connectors
      \/ connectors' = [connectors EXCEPT ![dev[t]] = NoConnector] /\ UNCHANGED native
    BY DEF NativeRemove, TakeConnector, ownership
<1>7. \A d \in Device : /\ native'[d] = native[d] \/ native'[d] = NoConnector
                        /\ connectors'[d] = connectors[d] \/ connectors'[d] = NoConnector
    BY <1>6 DEF IInv, TypeOK
<1>8. ASSUME NEW d \in Device, connectors'[d] # NoConnector, native'[d] # NoConnector
      PROVE  native'[d] = connectors'[d]
    BY <1>1, <1>4, <1>7, <1>8 DEF Sequential
<1>. QED BY <1>1, <1>5, <1>8 DEF Sequential

-----------------------------------------------------------------------------
(* The loops, the callbacks, and what comes from outside.                  *)

\* The loops of main start calls and touch nothing themselves.
LEMMA QuietMain ==
    ASSUME IInv, HInv, MCNext, ~overlapped', MainStep
    PROVE  Sequential'
<1>1. /\ UNCHANGED <<connectors, native, conn>>
      /\ \A u \in Thread \ {"main"} : dev'[u] = dev[u]
    BY DEF MainStep, LockScan, UnlockScan, SnapshotConnectors, FinishStop, QuitHandler, ScanDevice, StopDevice,
       Call, ownership, locals, IInv, TypeOK, ThreadTypeOK
<1>2. pc["main"] # "nativeAdd"
    BY DEF MainStep, LockScan, UnlockScan, SnapshotConnectors, FinishStop, QuitHandler, ScanDevice, StopDevice
<1>3. PICK label \in Label \ {"nativeAdd"} : Goto("main", label)
    BY <1>2 DEF MainStep, LockScan, UnlockScan, SnapshotConnectors, FinishStop, QuitHandler, ScanDevice, StopDevice,
       Call, Goto, Label, IInv, TypeOK, ThreadTypeOK
<1>4. \A u \in Thread : pc[u] = "nativeAdd" \/ pc'[u] = "nativeAdd" =>
          pc'[u] = pc[u] /\ dev'[u] = dev[u] /\ conn'[u] = conn[u]
    BY <1>1, <1>2, <1>3 DEF Goto, Thread, IInv, TypeOK, ThreadTypeOK
<1>. QED BY <1>1, <1>4, Untouched

\* Callbacks are started.
LEMMA QuietUsb ==
    ASSUME IInv, HInv, MCNext, ~overlapped', UsbStep
    PROVE  Sequential'
<1>1. /\ UNCHANGED <<connectors, native>>
      /\ \A u \in Thread \ {"usb"} : dev'[u] = dev[u] /\ conn'[u] = conn[u]
    BY NoCrash DEF UsbStep, AttachCallback, RunCallback, Call, Return, ownership, locals, IInv, TypeOK, ThreadTypeOK
<1>2. pc["usb"] # "nativeAdd"
    BY DEF UsbStep, AttachCallback, RunCallback, Idle
<1>3. PICK label \in Label \ {"nativeAdd"} : Goto("usb", label)
  <2>1. CASE AttachCallback
      BY <2>1, NoCrash DEF AttachCallback, Return, Home, Label
  <2>2. ASSUME NEW d \in Device, RunCallback(d)
        PROVE  \E label \in Label \ {"nativeAdd"} : Goto("usb", label)
    <3>1. Head(events[d]) \in Callback
        BY <2>2, TakeType DEF IInv, RunCallback
    <3>. QED BY <2>2, <3>1 DEF RunCallback, Call, Callback, Label
  <2>. QED BY <2>1, <2>2 DEF UsbStep
<1>4. \A u \in Thread : pc[u] = "nativeAdd" \/ pc'[u] = "nativeAdd" =>
          pc'[u] = pc[u] /\ dev'[u] = dev[u] /\ conn'[u] = conn[u]
    BY <1>1, <1>2, <1>3 DEF Goto, Thread, IInv, TypeOK, ThreadTypeOK
<1>. QED BY <1>1, <1>4, Untouched

\* A refresh makes native code forget every device.
LEMMA Forgets ==
    ASSUME IInv, HInv, MCNext, ~overlapped', RunRefresh
    PROVE  Sequential'
<1>1. /\ native' = NoTracked /\ Goto("async", "refreshGuard")
      /\ UNCHANGED <<connectors, dev, conn>>
    BY DEF RunRefresh, ownership, locals
<1>2. Sequential /\ \A u, v \in Thread : ~Idle(u)' /\ ~Idle(v)' => u = v
    BY Alone DEF HInv
<1>3. \A u \in Thread : pc'[u] = "nativeAdd" => pc[u] = "nativeAdd"
    BY <1>1 DEF Goto, IInv, TypeOK, ThreadTypeOK
<1>4. \A u \in Thread : pc'[u] = "nativeAdd" => connectors'[dev'[u]] = conn'[u]
    BY <1>1, <1>2, <1>3 DEF Sequential
<1>5. \A d \in Device : native'[d] = NoConnector
    BY <1>1 DEF NoTracked
<1>. QED BY <1>2, <1>4, <1>5 DEF Sequential

\* Retries and the guards of a refresh are started.
LEMMA QuietAsync ==
    ASSUME IInv, HInv, MCNext, ~overlapped',
           \/ RetryGuard \/ RefreshGuard \/ RefreshRegistered \/ RefreshDevices
           \/ \E d \in Device, n \in 1..MaxRetry : RunRetry(d, n)
    PROVE  Sequential'
<1>1. /\ UNCHANGED <<connectors, native>>
      /\ \A u \in Thread \ {"async"} : dev'[u] = dev[u] /\ conn'[u] = conn[u]
    BY NoCrash DEF RetryGuard, RefreshGuard, RefreshRegistered, RefreshDevices, RunRetry, Call, Return,
       ownership, locals, IInv, TypeOK, ThreadTypeOK
<1>2. pc["async"] # "nativeAdd"
    BY DEF RetryGuard, RefreshGuard, RefreshRegistered, RefreshDevices, RunRetry, Idle
<1>3. \E label \in Label \ {"nativeAdd"} : Goto("async", label)
  <2>1. CASE RetryGuard
      BY <2>1, NoCrash DEF RetryGuard, Return, Home, Label
  <2>2. CASE RefreshGuard
      BY <2>2 DEF RefreshGuard, Label
  <2>3. CASE RefreshRegistered
      BY <2>3, NoCrash DEF RefreshRegistered, Label
  <2>4. CASE RefreshDevices
      BY <2>4, NoCrash DEF RefreshDevices, Label
  <2>5. ASSUME NEW d \in Device, NEW n \in 1..MaxRetry, RunRetry(d, n)
        PROVE  \E label \in Label \ {"nativeAdd"} : Goto("async", label)
    <3>1. Goto("async", "retryGuard") \/ UNCHANGED pc
        BY <2>5 DEF RunRetry, Call
    <3>2. UNCHANGED pc => Goto("async", "idle")
        BY <2>5 DEF RunRetry, Idle, Goto, Home, IInv, TypeOK, ThreadTypeOK
    <3>. QED BY <3>1, <3>2 DEF Label
  <2>. QED BY <2>1, <2>2, <2>3, <2>4, <2>5
<1>4. \A u \in Thread : pc[u] = "nativeAdd" \/ pc'[u] = "nativeAdd" =>
          pc'[u] = pc[u] /\ dev'[u] = dev[u] /\ conn'[u] = conn[u]
    BY <1>1, <1>2, <1>3 DEF Goto, Thread, IInv, TypeOK, ThreadTypeOK
<1>. QED BY <1>1, <1>4, Untouched

\* The lifecycle moves main only, and a new fragment tracks nothing.
LEMMA Lives ==
    ASSUME IInv, HInv, MCNext, ~overlapped', Lifecycle
    PROVE  Sequential'
<1>1. CASE OnAttach \/ OnStart \/ OnStop \/ OnDetach
  <2>1. UNCHANGED <<connectors, native, dev, conn>> /\ pc["main"] = "idle"
      BY <1>1 DEF OnAttach, OnStart, OnStop, OnDetach, Idle, ownership, locals
  <2>2. PICK label \in Label \ {"nativeAdd"} : Goto("main", label)
      BY <1>1, <2>1 DEF OnAttach, OnStart, OnStop, OnDetach, Goto, Label, Thread, IInv, TypeOK, ThreadTypeOK
  <2>3. \A u \in Thread : pc[u] = "nativeAdd" \/ pc'[u] = "nativeAdd" =>
            pc'[u] = pc[u] /\ dev'[u] = dev[u] /\ conn'[u] = conn[u]
      BY <2>1, <2>2 DEF Goto, IInv, TypeOK, ThreadTypeOK
  <2>. QED BY <2>1, <2>3, Untouched
<1>2. CASE NewFragment
  <2>1. connectors' = NoTracked /\ UNCHANGED pc /\ \A u \in Thread : pc[u] = "idle"
      BY <1>2 DEF NewFragment, Idle
  <2>2. \A d \in Device : connectors'[d] = NoConnector
      BY <2>1 DEF NoTracked
  <2>. QED BY <2>1, <2>2, Alone DEF Sequential
<1>. QED BY <1>1, <1>2 DEF Lifecycle

\* Bus, user, Dart and the garbage collector start nothing, but for a re-scan.
LEMMA Outside ==
    ASSUME IInv, HInv, MCNext, ~overlapped', Environment
    PROVE  Sequential'
<1>1. UNCHANGED <<connectors, native, dev, conn>>
    BY DEF Environment, RescanConnectedDevices, RequestRefresh, PlugIn, Unplug, GrantPermission, Finalize,
       ownership, locals
<1>2. \/ UNCHANGED pc
      \/ pc["main"] = "idle" /\ Goto("main", "lockScan")
    BY DEF Environment, RescanConnectedDevices, RequestRefresh, PlugIn, Unplug, GrantPermission, Finalize, Idle
<1>3. \A u \in Thread : pc[u] = "nativeAdd" \/ pc'[u] = "nativeAdd" =>
          pc'[u] = pc[u] /\ dev'[u] = dev[u] /\ conn'[u] = conn[u]
    BY <1>1, <1>2 DEF Goto, IInv, TypeOK, ThreadTypeOK
<1>. QED BY <1>1, <1>3, Untouched

-----------------------------------------------------------------------------
(* The theorem.                                                            *)

historyVars == <<vars, overlapped>>

\* The invariant with the history variable.
THEOREM HistoryInvariance == MCSpec => [](IInv /\ HInv)
<1>1. ASSUME MCInit PROVE IInv /\ HInv
  <2>1. IInv /\ Init
      BY <1>1, Initial DEF MCInit
  <2>. QED BY <2>1 DEF Init, HInv, Sequential, Idle, NoTracked
<1>2. ASSUME IInv /\ HInv, [MCNext]_historyVars PROVE (IInv /\ HInv)'
  <2>1. CASE MCNext
    <3>1. IInv'
        BY <1>2, <2>1, Inductive DEF MCNext
    <3>2. ASSUME ~overlapped' PROVE Sequential'
      <4>1. Sequential
          BY <1>2, <2>1, <3>2, Alone DEF HInv
      <4>2. ASSUME NEW t \in Thread, ThreadStep(t) PROVE Sequential'
          BY <1>2, <2>1, <3>2, <4>1, <4>2, QuietCall, Putting, Adds, NeverThrows, Removes
             DEF ThreadStep, AddDevice, RemoveDevice
      <4>3. CASE AsyncStep
          BY <1>2, <2>1, <3>2, <4>3, Forgets, QuietAsync DEF AsyncStep
      <4>4. CASE MainStep \/ UsbStep \/ Lifecycle \/ Environment
          BY <1>2, <2>1, <3>2, <4>4, QuietMain, QuietUsb, Lives, Outside
      <4>. QED BY <2>1, <4>2, <4>3, <4>4 DEF MCNext, Next
    <3>. QED BY <3>1, <3>2 DEF HInv
  <2>2. CASE UNCHANGED historyVars
    <3>1. UNCHANGED <<vars, overlapped>>
        BY <2>2 DEF historyVars
    <3>2. IInv'
        BY <1>2, <3>1, Stuttering
    <3>3. UNCHANGED <<connectors, native, pc, dev, conn, overlapped>>
        BY <3>1 DEF vars, ownership, locals
    <3>4. HInv'
        BY <1>2, <3>3 DEF HInv, Sequential, Idle
    <3>. QED BY <3>2, <3>4
  <2>. QED BY <1>2, <2>1, <2>2
<1>. QED BY <1>1, <1>2, PTL DEF MCSpec, historyVars

\* As long as handlers have not overlapped, native code reads every tracked device through
\* the connector mConnectors holds for it.
THEOREM AgreesInSequence == MCSpec => []SequentialAgreement
<1>1. IInv /\ HInv => SequentialAgreement
    BY DEF HInv, Sequential, SequentialAgreement, Agreement, AllIdle, Idle
<1>. QED BY <1>1, HistoryInvariance, PTL
=============================================================================
