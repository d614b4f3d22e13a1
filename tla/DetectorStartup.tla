---------------------------- MODULE DetectorStartup ----------------------------
(***************************************************************************)
(* How a camera that is plugged in becomes known to Dart when an app       *)
(* starts, is recreated or comes back.  Three parties start in their own   *)
(* time: the Kotlin UVCManager (engine and activity callbacks), Dart's     *)
(* UVCManager._internal (native port first, then "initialize"), and the    *)
(* DeviceDetectorFragment, which reports devices whenever its activity     *)
(* starts and whose report is posted to the port that is set at that time. *)
(*                                                                         *)
(* External: Android (activities, the FragmentManager, which keeps the     *)
(* fragment across configuration changes and in the saved state of the     *)
(* activity), the Flutter engine, the USB library.  One camera stays       *)
(* plugged in and permitted; how it is opened is DeviceDetectorFragment's. *)
(***************************************************************************)
EXTENDS Integers, Sequences

CONSTANTS
    MaxEngines,     \* bound: engines, and with them isolates, of one behaviour
    MaxInputs       \* bound: lifecycle events and calls that come from outside

ASSUME BoundAssumption == MaxEngines \in Nat /\ MaxInputs \in Nat

VARIABLES
    \* process
    port,               \* dart_api_message_port: an isolate's, or NoPort
    posting,            \* Dart_PostCObject_DL has been resolved
    compatible,         \* the Dart VM has the major version of dart_api_dl
    \* UVCManager.kt
    engine,             \* the engine the plugin is attached to, or 0
    mActivity,          \* what the WeakReference refers to
    mNeedInitialize,
    calls,              \* method calls on their way to the platform thread
    \* Android
    activity,           \* the activity of the engine
    changing,           \* it is being replaced for a configuration change
    fragments,          \* DeviceDetectorFragments in its FragmentManager
    adding,             \* committed transactions that have not run
    retained,           \* fragments Android keeps for the next activity
    \* DeviceDetectorFragment and native code
    tracked,            \* the camera is in mConnectors of the fragment there is
    held,               \* the library has been given the camera
    late,               \* a retry or callback goes on after its fragment's onStop, "none",
                        \* "fragment", or "gone" with its fragment
    reports,            \* callbacks of the library that have not been made
    \* Dart
    step,               \* where UVCManager._internal is
    queue,              \* messages posted to the isolate's port
    known,              \* the camera is in _availableControllers
    inputs              \* what has been used of the bound

process  == <<port, posting, compatible>>
kotlin   == <<engine, mActivity, mNeedInitialize>>
android  == <<activity, changing, retained>>
detector == <<fragments, adding>>
native   == <<tracked, held, late, reports>>
dart     == <<step, queue, known>>
vars == <<process, kotlin, calls, android, detector, native, dart, inputs>>

NoPort == 0
Engines == 1..MaxEngines
Call == {"initialize", "rescanDevices"}
Report == {"attached", "detached"}

Init ==
    /\ port = NoPort /\ posting = FALSE /\ compatible \in BOOLEAN
    /\ engine = 0 /\ mActivity = "unset" /\ mNeedInitialize = FALSE
    /\ calls = << >>
    /\ activity = "none" /\ changing = FALSE /\ retained = 0
    /\ fragments = 0 /\ adding = 0
    /\ tracked = FALSE /\ held = FALSE /\ late = "none" /\ reports = << >>
    /\ step = "off" /\ queue = << >> /\ known = FALSE
    /\ inputs = 0

Input == inputs < MaxInputs /\ inputs' = inputs + 1

-----------------------------------------------------------------------------
(* The detector fragment, as far as its reports go.                        *)

\* The library reports to the manager of the engine, if there is one.
Reported(r) == reports' = IF engine = 0 THEN reports ELSE Append(reports, r)

\* nativeAdd: a camera that the library has already may be reported again or not.
GiveDevice ==
    /\ held' = TRUE
    /\ Reported("attached") \/ (held /\ UNCHANGED reports)

\* onStart and rescanConnectedDevices add a camera that is not in mConnectors.
AddDevices ==
    /\ IF tracked THEN UNCHANGED <<tracked, held, reports>> ELSE tracked' = TRUE /\ GiveDevice
    /\ UNCHANGED late

\* onStop removes what is in mConnectors when it looks.
RemoveDevices ==
    /\ tracked' = FALSE
    /\ IF tracked /\ held THEN held' = FALSE /\ Reported("detached") ELSE UNCHANGED <<held, reports>>

InitAlways(found) ==        \* mutant: findFragmentByTag is not asked
    adding' = adding + 1

\* findFragmentByTag sees fragments that have been added, not the pending ones;
\* commit() posts the transaction.
InitDeviceDetector(found) == adding' = IF found = 0 THEN adding + 1 ELSE adding

\* The fragment enters the state its activity is in.
RunTransaction ==
    /\ adding > 0 /\ activity # "none"
    /\ adding' = adding - 1
    /\ fragments' = fragments + 1
    /\ IF activity = "started" THEN AddDevices ELSE UNCHANGED native
    /\ UNCHANGED <<process, kotlin, calls, android, dart, inputs>>

-----------------------------------------------------------------------------
(* UVCManager.kt and the activity it is attached to.                       *)

\* nativeInit, and a handler for the method channel.
OnAttachedToEngine ==
    /\ engine = 0 /\ step = "off"
    /\ inputs < MaxInputs /\ inputs' = inputs + 1
    /\ \E e \in Engines : e > port /\ engine' = e
    /\ mActivity' = "unset" /\ mNeedInitialize' = FALSE
    /\ UNCHANGED reports \/ (held /\ reports' = Append(reports, "attached"))
    /\ UNCHANGED <<process, calls, android, detector, tracked, held, late, dart>>

\* nativeRelease; the engine takes its isolate and its messages along.  Whether the
\* library keeps the camera, and reports it to the next manager, is left open.
OnDetachedFromEngine ==
    /\ engine # 0 /\ activity = "none"
    /\ engine' = 0
    /\ calls' = << >> /\ reports' = << >> /\ held' \in {held, FALSE}
    /\ step' = "off" /\ queue' = << >> /\ known' = FALSE
    /\ changing' = FALSE
    /\ Input
    /\ UNCHANGED <<process, mActivity, mNeedInitialize, activity, retained, detector, tracked, late>>

OnAttachedToActivity ==
    /\ engine # 0 /\ activity = "none" /\ ~changing
    /\ activity' = "created" /\ mActivity' = "current"
    /\ fragments' = retained /\ retained' = 0
    /\ mNeedInitialize' = FALSE
    /\ IF mNeedInitialize THEN InitDeviceDetector(retained) ELSE UNCHANGED adding
    /\ Input
    /\ UNCHANGED <<process, engine, calls, changing, native, dart>>

\* Android runs pending transactions before it saves an activity's fragments.
Saved == {fragments, fragments + adding}

OnDetachedForConfigChanges ==
    /\ activity = "created"
    /\ activity' = "none" /\ changing' = TRUE /\ mActivity' = "destroyed"
    /\ retained' \in Saved /\ fragments' = 0 /\ adding' = 0
    /\ Input
    /\ UNCHANGED <<process, engine, mNeedInitialize, calls, native, dart>>

OnReattachedForConfigChanges ==
    /\ engine # 0 /\ changing
    /\ activity' = "created" /\ changing' = FALSE /\ mActivity' = "current"
    /\ fragments' = retained /\ retained' = 0
    /\ UNCHANGED <<process, engine, mNeedInitialize, calls, adding, native, dart, inputs>>

\* releaseDeviceDetector removes the fragment from an activity that goes anyway; what a
\* retry has put into its mConnectors goes with it.
OnDetachedFromActivity ==
    /\ activity = "created"
    /\ activity' = "none" /\ mActivity' = "destroyed"
    /\ mNeedInitialize' = FALSE
    /\ fragments' = 0 /\ adding' = 0
    /\ tracked' = FALSE /\ late' = IF late = "fragment" THEN "gone" ELSE late
    /\ Input
    /\ UNCHANGED <<process, engine, calls, changing, retained, held, reports, dart>>

\* The activity is collected; mActivity.get() returns null from now on.
Collect ==
    /\ mActivity = "destroyed"
    /\ mActivity' = "cleared"
    /\ UNCHANGED <<process, engine, mNeedInitialize, calls, android, detector, native, dart, inputs>>

StartUnscanned ==           \* mutant: onStart only registers for broadcasts
    /\ activity = "created"
    /\ activity' = "started"
    /\ Input
    /\ UNCHANGED <<process, kotlin, calls, changing, retained, detector, native, dart>>

Start ==
    /\ activity = "created"
    /\ activity' = "started"
    /\ IF fragments > 0 THEN AddDevices ELSE UNCHANGED native
    /\ Input
    /\ UNCHANGED <<process, kotlin, calls, changing, retained, detector, dart>>

StopKeeps ==                \* mutant: onStop keeps the devices, and forgets them
    /\ activity = "started"
    /\ activity' = "created"
    /\ tracked' = FALSE /\ held' = FALSE
    /\ Input
    /\ UNCHANGED <<process, kotlin, calls, changing, retained, detector, late, reports, dart>>

\* A retry or a callback that is under way is not waited for.
Stop ==
    /\ activity = "started"
    /\ activity' = "created"
    /\ RemoveDevices
    /\ late' \in {late} \cup IF fragments > 0 THEN {"fragment"} ELSE {}
    /\ Input
    /\ UNCHANGED <<process, kotlin, calls, changing, retained, detector, dart>>

\* It puts its connector into mConnectors and gives the camera to the library.
AddLate ==
    /\ late # "none"
    /\ late' = "none"
    /\ tracked' = (tracked \/ late = "fragment")
    /\ GiveDevice
    /\ UNCHANGED <<process, kotlin, calls, android, detector, dart, inputs>>

\* Android ends the process of an app that is stopped and keeps the saved state.
ProcessDeath ==
    /\ activity = "created"
    /\ port' = NoPort /\ posting' = FALSE
    /\ engine' = 0 /\ mActivity' = "unset" /\ mNeedInitialize' = FALSE
    /\ calls' = << >> /\ reports' = << >>
    /\ tracked' = FALSE /\ held' = FALSE /\ late' = "none"
    /\ activity' = "none" /\ retained' \in Saved
    /\ fragments' = 0 /\ adding' = 0
    /\ step' = "off" /\ queue' = << >> /\ known' = FALSE
    /\ Input
    /\ UNCHANGED <<compatible, changing>>

\* onMethodCall "initialize".  Before the first onAttachedToActivity the lateinit
\* mActivity throws; with an activity that is destroyed commit() does.
OnInitialize ==
    /\ calls # << >> /\ Head(calls) = "initialize"
    /\ calls' = Tail(calls)
    /\ IF mActivity = "current" THEN InitDeviceDetector(fragments) ELSE UNCHANGED adding
    /\ mNeedInitialize' = (mNeedInitialize \/ mActivity = "cleared")
    /\ UNCHANGED <<process, engine, mActivity, android, fragments, native, dart, inputs>>

\* onMethodCall "rescanDevices".
OnRescanDevices ==
    /\ calls # << >> /\ Head(calls) = "rescanDevices"
    /\ calls' = Tail(calls)
    /\ IF mActivity = "current" /\ fragments > 0 /\ activity = "started"
       THEN AddDevices ELSE UNCHANGED native
    /\ UNCHANGED <<process, kotlin, android, detector, dart, inputs>>

-----------------------------------------------------------------------------
(* Dart.                                                                   *)

\* The engine runs Dart's entry point, which creates the UVCManager.
RunDart ==
    /\ engine # 0 /\ step = "off"
    /\ step' = "init"
    /\ UNCHANGED <<process, kotlin, calls, android, detector, native, queue, known, inputs>>

AfterSwapped(s) ==          \* mutant: "initialize" is sent before the port is set
    CASE s = "init" -> "initialize" [] s = "initialize" -> "port" [] s = "port" -> "listening"

\* The order of _initNativeApi and _internal.
After(s) == CASE s = "init" -> "port" [] s = "port" -> "initialize" [] s = "initialize" -> "listening"

InitUnchecked ==            \* mutant: the result of initialize_dart_api is ignored
    /\ step = "init"
    /\ posting' = (posting \/ compatible)
    /\ step' = After("init")
    /\ UNCHANGED <<port, compatible, kotlin, calls, android, detector, native, queue, known, inputs>>

\* initialize_dart_api; if it fails, _initNativeApi throws into its own future and
\* _internal goes on without a port.
InitDartApi ==
    /\ step = "init"
    /\ posting' = (posting \/ compatible)
    /\ step' = IF compatible THEN After("init") ELSE After("port")
    /\ UNCHANGED <<port, compatible, kotlin, calls, android, detector, native, queue, known, inputs>>

SetPort ==
    /\ step = "port"
    /\ port' = engine
    /\ step' = After("port")
    /\ UNCHANGED <<posting, compatible, kotlin, calls, android, detector, native, queue, known, inputs>>

InitializeMisnamed ==       \* mutant: a method name the platform side does not know
    /\ step = "initialize"
    /\ calls' = Append(calls, "init")
    /\ step' = After("initialize")
    /\ UNCHANGED <<process, kotlin, android, detector, native, queue, known, inputs>>

Initialize ==
    /\ step = "initialize"
    /\ calls' = Append(calls, "initialize")
    /\ step' = After("initialize")
    /\ UNCHANGED <<process, kotlin, android, detector, native, queue, known, inputs>>

RescanDevices ==
    /\ step = "listening"
    /\ calls' = Append(calls, "rescanDevices")
    /\ Input
    /\ UNCHANGED <<process, kotlin, android, detector, native, dart>>

\* send_on_device_changed on the library's thread: dropped while no port is set, and
\* by Dart when the port is of an isolate that has gone.
SendReport ==
    /\ reports # << >>
    /\ reports' = Tail(reports)
    /\ queue' = IF port = engine THEN Append(queue, Head(reports)) ELSE queue
    /\ UNCHANGED <<process, kotlin, calls, android, detector, tracked, held, late, step, known, inputs>>

\* _handleOnDeviceChanged.
HandleMessage ==
    /\ step = "listening" /\ queue # << >>
    /\ queue' = Tail(queue)
    /\ known' = (Head(queue) = "attached")
    /\ UNCHANGED <<process, kotlin, calls, android, detector, native, step, inputs>>

-----------------------------------------------------------------------------
DartStep == RunDart \/ InitDartApi \/ SetPort \/ Initialize \/ HandleMessage
PlatformStep == OnInitialize \/ OnRescanDevices \/ RunTransaction

Environment ==
    \/ OnAttachedToEngine \/ OnDetachedFromEngine
    \/ OnAttachedToActivity \/ OnDetachedFromActivity
    \/ OnDetachedForConfigChanges \/ OnReattachedForConfigChanges
    \/ Collect \/ Start \/ Stop \/ AddLate \/ ProcessDeath \/ RescanDevices

Next == DartStep \/ PlatformStep \/ SendReport \/ Environment

\* Dart, the main looper and the library's thread take their next step; users and
\* Android owe nothing.
Fairness == WF_vars(DartStep) /\ WF_vars(PlatformStep) /\ WF_vars(SendReport)

Spec == Init /\ [][Next]_vars
FairSpec == Spec /\ Fairness

-----------------------------------------------------------------------------
(* Properties.                                                             *)

\* Every variable has its type.
TypeOK ==
    /\ port \in {NoPort} \cup Engines /\ posting \in BOOLEAN /\ compatible \in BOOLEAN
    /\ engine \in {0} \cup Engines
    /\ mActivity \in {"unset", "current", "destroyed", "cleared"} /\ mNeedInitialize \in BOOLEAN
    /\ calls \in Seq(Call)
    /\ activity \in {"none", "created", "started"} /\ changing \in BOOLEAN
    /\ fragments \in Nat /\ adding \in Nat /\ retained \in Nat
    /\ tracked \in BOOLEAN /\ held \in BOOLEAN /\ late \in {"none", "fragment", "gone"}
    /\ reports \in Seq(Report)
    /\ step \in {"off", "init", "port", "initialize", "listening"}
    /\ queue \in Seq(Report) /\ known \in BOOLEAN
    /\ inputs \in 0..MaxInputs

\* However engines, activities, retained fragments and pending transactions meet, an
\* activity never gets two detectors, which would open every camera twice.
OneDetector == fragments + adding + retained <= 1

\* Dart_PostCObject_DL is called only when the port is set, and the port is set only
\* when Dart_InitializeApiDL has resolved it: native code never calls a null pointer.
PostInitialized == port # NoPort => posting

\* When all reports have been handled, Dart shows the camera only if native code still
\* has it.  (The opposite is what the next properties are about.)
KnownTracked == known /\ reports = << >> /\ queue = << >> => held

Foreground == activity = "started" /\ step = "listening"

\* An app that is in the foreground when it asks for a detector, and has none, gets to
\* know its camera, or leaves the foreground; if the library has the camera from before,
\* nothing has to report it.
FirstStartReports ==
    (/\ compatible /\ step = "initialize" /\ calls = << >>
     /\ mActivity = "current" /\ activity = "started"
     /\ fragments = 0 /\ adding = 0 /\ ~held)
        ~> (known \/ activity # "started")

\* Claimed by README.md, "If user connect UVC device to the Android device, ... after USB
\* access permission granted, app receives ATTACHED event": an app that stays in the
\* foreground gets to know the camera.
CameraReported == (compatible /\ Foreground) ~> (known \/ ~Foreground)
=============================================================================
