---------------------------- MODULE FlutterPlugin ----------------------------
(***************************************************************************)
(* The C++ plugin between Dart and the closed USB library, with the Dart   *)
(* UVCManager it reports to.  A FlutterPluginJava object owns a manager of *)
(* the library and a map `holders' from device ids to reference-counted    *)
(* FlutterUVCHolders, whose destructor stops the stream of the device.     *)
(*                                                                         *)
(* Threads: "dart" (the isolate: get_state, stop, port messages), "worker" *)
(* (compute isolates: start, resize, queries), "platform" (nativeInit,     *)
(* nativeRelease, nativeSetSurface) and, for each plugin object p, the     *)
(* thread p on which p's manager calls on_device_attach and                *)
(* on_device_detach, one at a time.  plugin_lock guards pluginJava and is  *)
(* held for the whole of every FFI call; m_lock[p] guards holders[p]; most *)
(* calls only try_lock it and go on without a holder if they fail.         *)
(*                                                                         *)
(* External: the library behind manager_init/manager_release and uvc_*,    *)
(* the Dart port, the Flutter engine.                                      *)
(***************************************************************************)
EXTENDS Integers, Sequences, FiniteSets

CONSTANTS
    Device,         \* ids of UVC devices
    Plugin,         \* FlutterPluginJava objects nativeInit can create
    Holder,         \* addresses of FlutterUVCHolder objects, reused once freed
    Surface,        \* surfaces the platform thread can hand over
    NoPlugin, NoDevice, NoHolder, NoSurface,
    MaxInputs       \* bound: calls and events that come from outside

Caller == {"dart", "worker", "platform"}
Thread == Caller \cup Plugin

ASSUME NonesAssumption ==
    NoPlugin \notin Thread /\ NoDevice \notin Device /\ NoHolder \notin Holder /\ NoSurface \notin Surface
ASSUME ThreadAssumption == Plugin \cap Caller = {} /\ "free" \notin Plugin
ASSUME InputAssumption == MaxInputs \in Nat

VARIABLES
    \* flutter_plugin_main.cpp
    pluginJava,     \* the current plugin object
    plugin_lock,    \* its mutex: owner or "free"
    \* FlutterPluginJava
    life,           \* life of each object: destructor and manager
    m_lock,         \* owner of each object's mutex, or "free"
    holders,        \* the map of each object
    \* FlutterUVCHolder and, behind it, the library
    home,           \* the plugin and device a live holder is for
    stream,         \* the holder whose start() began the stream that is running
    window,         \* the surface the library draws into
    \* threads
    pc, cur, dev, ref, op, surface, \* control point and locals; ref is the FlutterUVCHolderSp
    answer,         \* value of Dart's last get_state
    \* Dart
    served,         \* the plugin whose engine runs Dart; its port is the one native code has
    queue,          \* on_device_changed messages posted and not yet handled
    controllers,    \* keys of UVCManager._availableControllers
    told,           \* devices a message of `served' has been about since Dart started
    inputs          \* what has been used of the bound

statics == <<pluginJava, plugin_lock>>
objects == <<life, m_lock, holders>>
library == <<stream, window>>
locals  == <<cur, dev, op, surface>>
dart    == <<served, queue, controllers, told>>
vars == <<statics, objects, home, library, pc, ref, locals, answer, dart, inputs>>

Place == [plugin : Plugin, device : Device]
NoHome == [plugin |-> NoPlugin, device |-> NoDevice]
NoHolders == [d \in Device |-> NoHolder]

Init ==
    /\ pluginJava = NoPlugin /\ plugin_lock = "free"
    /\ life = [p \in Plugin |-> "unborn"]
    /\ m_lock = [p \in Plugin |-> "free"]
    /\ holders = [p \in Plugin |-> NoHolders]
    /\ home = [h \in Holder |-> NoHome]
    /\ stream = [p \in Plugin |-> NoHolders]
    /\ window = [p \in Plugin |-> [d \in Device |-> NoSurface]]
    /\ pc = [t \in Thread |-> "idle"]
    /\ cur = [t \in Caller |-> NoPlugin]
    /\ dev = [t \in Thread |-> NoDevice]
    /\ ref = [t \in Thread |-> NoHolder]
    /\ op = [t \in Caller |-> "none"]
    /\ surface = NoSurface
    /\ answer = "none"
    /\ served = NoPlugin /\ queue = << >> /\ controllers = {} /\ told = {}
    /\ inputs = 0

Goto(t, label) == pc' = [pc EXCEPT ![t] = label]
Input == inputs < MaxInputs /\ inputs' = inputs + 1

-----------------------------------------------------------------------------
(* shared_ptr<FlutterUVCHolder>: thread t gives up its reference; the last *)
(* one runs the destructor, which calls uvc_stop.                          *)

Mapped(h) == \E p \in Plugin, d \in Device : holders[p][d] = h
Shared(h, t) == Mapped(h) \/ \E u \in Thread \ {t} : ref[u] = h

DropOnly(t) ==              \* mutant: a destructor that does not stop the stream
    LET h == ref[t]
    IN  /\ ref' = [ref EXCEPT ![t] = NoHolder]
        /\ home' = IF h # NoHolder /\ ~Shared(h, t) THEN [home EXCEPT ![h] = NoHome] ELSE home
        /\ UNCHANGED stream

Drop(t) ==
    LET h == ref[t]  last == h # NoHolder /\ ~Shared(h, t)
    IN  /\ ref' = [ref EXCEPT ![t] = NoHolder]
        /\ home' = IF last THEN [home EXCEPT ![h] = NoHome] ELSE home
        /\ stream' = IF last THEN [stream EXCEPT ![home[h].plugin][home[h].device] = NoHolder] ELSE stream

-----------------------------------------------------------------------------
(* FFI calls of Dart and nativeSetSurface: they lock plugin_lock, call the *)
(* plugin object if there is one, and unlock.                              *)

Ops(t) == CASE t = "dart"     -> {"get_state", "resume", "stop", "get_device_info"}
            [] t = "worker"   -> {"start", "set_video_size", "get_ctrl_supports"}
            [] t = "platform" -> {"set_preview_surface"}

Request(t, o, d) ==
    /\ Goto(t, "enter")
    /\ op' = [op EXCEPT ![t] = o]
    /\ dev' = [dev EXCEPT ![t] = d]

Call(t, o, d) ==
    /\ pc[t] = "idle"
    /\ o \in Ops(t)
    /\ t # "platform" => served # NoPlugin
    /\ o = "resume" => d \in controllers
    /\ Request(t, o, d)
    /\ surface' \in IF t = "platform" THEN Surface \cup {NoSurface} ELSE {surface}
    /\ Input
    /\ UNCHANGED <<statics, objects, home, library, ref, cur, answer, dart>>

FirstStep(o) == CASE o = "set_preview_surface" -> "is_available"
                  [] o = "set_video_size"      -> "lock"
                  [] o = "get_device_info"     -> "act"
                  [] OTHER                     -> "find"

Enter(t) ==
    /\ pc[t] = "enter"
    /\ plugin_lock = "free"
    /\ IF pluginJava = NoPlugin
       THEN /\ Goto(t, "leave")
            /\ answer' = IF op[t] \in {"get_state", "resume"} THEN "UNINITIALIZED" ELSE answer
       ELSE /\ Goto(t, FirstStep(op[t]))
            /\ UNCHANGED answer
    /\ plugin_lock' = t
    /\ cur' = [cur EXCEPT ![t] = pluginJava]
    /\ UNCHANGED <<pluginJava, objects, home, library, ref, dev, op, surface, dart, inputs>>

\* if (m_lock.try_lock()) { holder = get_holder_locked(device_id, false); m_lock.unlock(); }
TryHolder(t) ==
    ref' = [ref EXCEPT ![t] = IF m_lock[cur[t]] = "free" THEN holders[cur[t]][dev[t]] ELSE NoHolder]

\* is_available copies the shared pointer and drops it again.
IsAvailable(t) ==
    /\ pc[t] = "is_available"
    /\ TryHolder(t)
    /\ Goto(t, "available")
    /\ UNCHANGED <<statics, objects, home, library, locals, answer, dart, inputs>>

Available(t) ==
    /\ pc[t] = "available"
    /\ Drop(t)
    /\ Goto(t, IF ref[t] # NoHolder THEN "find" ELSE "leave")
    /\ UNCHANGED <<statics, objects, window, locals, answer, dart, inputs>>

FindUnlocked(t) ==          \* mutant: plugin_lock covers the lookup only
    /\ pc[t] = "find"
    /\ TryHolder(t)
    /\ plugin_lock' = "free"
    /\ Goto(t, "act")
    /\ UNCHANGED <<pluginJava, objects, home, library, locals, answer, dart, inputs>>

FindHolder(t) ==
    /\ pc[t] = "find"
    /\ TryHolder(t)
    /\ Goto(t, "act")
    /\ UNCHANGED <<statics, objects, home, library, locals, answer, dart, inputs>>

\* set_video_size and get_current_size wait for m_lock and keep it.
LockHolder(t) ==
    /\ pc[t] = "lock"
    /\ m_lock[cur[t]] = "free"
    /\ m_lock' = [m_lock EXCEPT ![cur[t]] = t]
    /\ ref' = [ref EXCEPT ![t] = holders[cur[t]][dev[t]]]
    /\ Goto(t, "act")
    /\ UNCHANGED <<statics, life, holders, home, library, locals, answer, dart, inputs>>

SetStream(p, d, h) == stream' = [stream EXCEPT ![p][d] = h]

\* The call of the library.  uvc_start may fail; the others have no effect that
\* matters here.
Start(t) ==
    /\ op[t] = "start"
    /\ \/ ref[t] # NoHolder /\ SetStream(cur[t], dev[t], ref[t])
       \/ UNCHANGED stream
    /\ UNCHANGED <<window, answer>>

Stop(t) ==
    /\ op[t] = "stop"
    /\ IF ref[t] # NoHolder THEN SetStream(cur[t], dev[t], NoHolder) ELSE UNCHANGED stream
    /\ UNCHANGED <<window, answer>>

\* result = holder && holder->is_running() ? STREAMING : CONNECTED
GetDeviceState(t) ==
    /\ op[t] \in {"get_state", "resume"}
    /\ answer' = IF ref[t] # NoHolder /\ stream[cur[t]][dev[t]] # NoHolder THEN "STREAMING" ELSE "CONNECTED"
    /\ UNCHANGED library

SetPreviewWindow(t) ==
    /\ op[t] = "set_preview_surface"
    /\ window' = IF ref[t] # NoHolder THEN [window EXCEPT ![cur[t]][dev[t]] = surface] ELSE window
    /\ UNCHANGED <<stream, answer>>

Query(t) ==
    /\ op[t] \in {"get_device_info", "set_video_size", "get_ctrl_supports"}
    /\ UNCHANGED <<library, answer>>

Act(t) ==
    /\ pc[t] = "act"
    /\ Start(t) \/ Stop(t) \/ GetDeviceState(t) \/ SetPreviewWindow(t) \/ Query(t)
    /\ Goto(t, "leave")
    /\ UNCHANGED <<statics, objects, home, ref, locals, dart, inputs>>

\* The call returns: the holder is dropped, then the locks are.  A resumed Dart
\* removes the controllers whose state is UNINITIALIZED or DISCONNECTED.
Leave(t) ==
    /\ pc[t] = "leave"
    /\ Drop(t)
    /\ plugin_lock' = "free"
    /\ m_lock' = [p \in Plugin |-> IF m_lock[p] = t THEN "free" ELSE m_lock[p]]
    /\ controllers' = IF op[t] = "resume" /\ answer \in {"UNINITIALIZED", "DISCONNECTED"}
                      THEN controllers \ {dev[t]} ELSE controllers
    /\ answer' = IF t = "dart" THEN "none" ELSE answer
    /\ Goto(t, "idle")
    /\ cur' = [cur EXCEPT ![t] = NoPlugin]
    /\ dev' = [dev EXCEPT ![t] = NoDevice]
    /\ op' = [op EXCEPT ![t] = "none"]
    /\ surface' = IF t = "platform" THEN NoSurface ELSE surface
    /\ UNCHANGED <<pluginJava, life, holders, window, served, queue, told, inputs>>

-----------------------------------------------------------------------------
(* The callbacks of p's manager, on thread p.                              *)

Alive(p) == life[p] \in {"alive", "terminated"}

Post(d, attached) ==
    queue' = IF served = NoPlugin THEN queue ELSE Append(queue, [device |-> d, attached |-> attached])

SendReset(p, attached) ==   \* mutant: the id has been reset before it is sent
    /\ Post(NoDevice, attached)
    /\ told' = IF served = p THEN told \cup {dev[p]} ELSE told

\* send_on_device_changed: posted to the port there is, whichever object's callback
\* calls it; dropped if there is none.
Send(p, attached) ==
    /\ Post(dev[p], attached)
    /\ told' = IF served = p THEN told \cup {dev[p]} ELSE told

\* on_device_attach, as soon as there is a manager: a detector of an earlier activity
\* may report its devices before Dart has set the port, or before p is the current
\* object; the message of such a callback is lost, or goes to the isolate that ends.
DeviceAttach(p, d) ==
    /\ pc[p] = "idle"
    /\ Alive(p)
    /\ Goto(p, "addLock")
    /\ dev' = [dev EXCEPT ![p] = d]
    /\ Input
    /\ UNCHANGED <<statics, objects, home, library, ref, cur, op, surface, answer, dart>>

AddTryLock(p) ==            \* mutant: try_lock for lock_guard
    /\ pc[p] = "addLock"
    /\ IF m_lock[p] = "free"
       THEN m_lock' = [m_lock EXCEPT ![p] = p] /\ Goto(p, "create") /\ UNCHANGED dev
       ELSE Goto(p, "idle") /\ dev' = [dev EXCEPT ![p] = NoDevice] /\ UNCHANGED m_lock
    /\ UNCHANGED <<statics, life, holders, home, library, ref, cur, op, surface, answer, dart, inputs>>

AddLock(p) ==
    /\ pc[p] = "addLock"
    /\ m_lock[p] = "free"
    /\ m_lock' = [m_lock EXCEPT ![p] = p]
    /\ Goto(p, "create")
    /\ UNCHANGED <<statics, life, holders, home, library, ref, locals, answer, dart, inputs>>

FreeHolder == CHOOSE h \in Holder : home[h] = NoHome

AddWithBothLocks(p) ==      \* mutant: m_lock first, then plugin_lock
    /\ pc[p] = "create"
    /\ plugin_lock = "free"
    /\ m_lock' = [m_lock EXCEPT ![p] = "free"]
    /\ Goto(p, "sendAttached")
    /\ UNCHANGED <<statics, life, holders, home, library, ref, locals, answer, dart, inputs>>

\* get_holder_locked(device_id, true): the constructor talks to the device, under m_lock.
AddHolder(p) ==
    /\ pc[p] = "create"
    /\ IF holders[p][dev[p]] # NoHolder
       THEN UNCHANGED <<holders, home, window>>
       ELSE /\ \E h \in Holder : home[h] = NoHome
            /\ holders' = [holders EXCEPT ![p][dev[p]] = FreeHolder]
            /\ home' = [home EXCEPT ![FreeHolder] = [plugin |-> p, device |-> dev[p]]]
            /\ window' = [window EXCEPT ![p][dev[p]] = NoSurface]
    /\ m_lock' = [m_lock EXCEPT ![p] = "free"]
    /\ Goto(p, "sendAttached")
    /\ UNCHANGED <<statics, life, stream, ref, locals, answer, dart, inputs>>

SendAttached(p) ==
    /\ pc[p] = "sendAttached"
    /\ Send(p, TRUE)
    /\ Goto(p, "idle")
    /\ dev' = [dev EXCEPT ![p] = NoDevice]
    /\ UNCHANGED <<statics, objects, home, library, ref, cur, op, surface, answer, served,
                   controllers, inputs>>

DeviceDetach(p, d) ==
    /\ pc[p] = "idle"
    /\ Alive(p)
    /\ Goto(p, "remove")
    /\ dev' = [dev EXCEPT ![p] = d]
    /\ Input
    /\ UNCHANGED <<statics, objects, home, library, ref, cur, op, surface, answer, dart>>

RemoveHolder(p) ==
    /\ pc[p] = "remove"
    /\ m_lock[p] = "free"
    /\ ref' = [ref EXCEPT ![p] = holders[p][dev[p]]]
    /\ holders' = [holders EXCEPT ![p][dev[p]] = NoHolder]
    /\ IF holders[p][dev[p]] # NoHolder
       THEN Goto(p, "removeStop") /\ UNCHANGED dev
       ELSE Goto(p, "idle") /\ dev' = [dev EXCEPT ![p] = NoDevice]
    /\ UNCHANGED <<statics, life, m_lock, home, library, cur, op, surface, answer, dart, inputs>>

RemoveStop(p) ==
    /\ pc[p] = "removeStop"
    /\ SetStream(p, dev[p], NoHolder)
    /\ Goto(p, "sendDetached")
    /\ UNCHANGED <<statics, objects, home, window, ref, locals, answer, dart, inputs>>

\* The message, then the end of remove() drops the reference.
SendDetached(p) ==
    /\ pc[p] = "sendDetached"
    /\ Send(p, FALSE)
    /\ Drop(p)
    /\ Goto(p, "idle")
    /\ dev' = [dev EXCEPT ![p] = NoDevice]
    /\ UNCHANGED <<statics, objects, window, cur, op, surface, answer, served, controllers, inputs>>

-----------------------------------------------------------------------------
(* nativeInit, nativeRelease and the destructor they run, on "platform".   *)

\* make_unique<FlutterPluginJava>, whose constructor calls manager_init.
NativeInit(p) ==
    /\ pc["platform"] = "idle"
    /\ life[p] = "unborn"
    /\ life' = [life EXCEPT ![p] = "alive"]
    /\ cur' = [cur EXCEPT !["platform"] = p]
    /\ Goto("platform", "install")
    /\ Input
    /\ UNCHANGED <<statics, m_lock, holders, home, library, ref, dev, op, surface, answer, dart>>

\* pluginJava = std::move(p) destroys the plugin it replaces, under plugin_lock.
Install ==
    /\ pc["platform"] = "install"
    /\ plugin_lock = "free"
    /\ pluginJava' = cur["platform"]
    /\ cur' = [cur EXCEPT !["platform"] = pluginJava]
    /\ IF pluginJava = NoPlugin
       THEN Goto("platform", "idle") /\ UNCHANGED plugin_lock
       ELSE Goto("platform", "terminate") /\ plugin_lock' = "platform"
    /\ UNCHANGED <<objects, home, library, ref, dev, op, surface, answer, dart, inputs>>

ReleaseUnlocked ==          \* mutant: pluginJava is moved without plugin_lock
    /\ pc["platform"] = "idle"
    /\ pluginJava # NoPlugin
    /\ pluginJava' = NoPlugin
    /\ cur' = [cur EXCEPT !["platform"] = pluginJava]
    /\ Goto("platform", "terminate")
    /\ Input
    /\ UNCHANGED <<plugin_lock, objects, home, library, ref, dev, op, surface, answer, dart>>

\* p = std::move(pluginJava) under plugin_lock; the destructor runs after it.
NativeRelease ==
    /\ pc["platform"] = "idle"
    /\ plugin_lock = "free"
    /\ pluginJava # NoPlugin
    /\ pluginJava' = NoPlugin
    /\ cur' = [cur EXCEPT !["platform"] = pluginJava]
    /\ Goto("platform", "terminate")
    /\ Input
    /\ UNCHANGED <<plugin_lock, objects, home, library, ref, dev, op, surface, answer, dart>>

\* Holders of the map that nobody else refers to are destroyed with it.
Cleared(p) == {h \in Holder : (\E d \in Device : holders[p][d] = h) /\ \A t \in Thread : ref[t] # h}

TerminateHolding ==         \* mutant: the destructor keeps m_lock for manager_release
    LET p == cur["platform"]
    IN  /\ pc["platform"] = "terminate"
        /\ m_lock[p] = "free"
        /\ m_lock' = [m_lock EXCEPT ![p] = "platform"]
        /\ holders' = [holders EXCEPT ![p] = NoHolders]
        /\ life' = [life EXCEPT ![p] = "terminated"]
        /\ Goto("platform", "release")
        /\ UNCHANGED <<statics, home, library, ref, locals, answer, dart, inputs>>

\* terminate_all, under m_lock.
TerminateAll ==
    LET p == cur["platform"]
    IN  /\ pc["platform"] = "terminate"
        /\ m_lock[p] = "free"
        /\ stream' = [stream EXCEPT ![p] = [d \in Device |-> IF holders[p][d] # NoHolder THEN NoHolder ELSE @[d]]]
        /\ home' = [h \in Holder |-> IF h \in Cleared(p) THEN NoHome ELSE home[h]]
        /\ holders' = [holders EXCEPT ![p] = NoHolders]
        /\ life' = [life EXCEPT ![p] = "terminated"]
        /\ Goto("platform", "release")
        /\ UNCHANGED <<statics, m_lock, window, ref, locals, answer, dart, inputs>>

\* manager_release waits for the callback that is running and ends every stream.
ManagerRelease ==
    LET p == cur["platform"]
    IN  /\ pc["platform"] = "release"
        /\ pc[p] = "idle"
        /\ life' = [life EXCEPT ![p] = "released"]
        /\ stream' = [stream EXCEPT ![p] = NoHolders]
        /\ window' = [window EXCEPT ![p] = [d \in Device |-> NoSurface]]
        /\ Goto("platform", "members")
        /\ UNCHANGED <<statics, m_lock, holders, home, ref, locals, answer, dart, inputs>>

\* The members go, the map with the holders that are still in it.
DestroyMembers ==
    LET p == cur["platform"]
    IN  /\ pc["platform"] = "members"
        /\ home' = [h \in Holder |-> IF h \in Cleared(p) THEN NoHome ELSE home[h]]
        /\ holders' = [holders EXCEPT ![p] = NoHolders]
        /\ life' = [life EXCEPT ![p] = "dead"]
        /\ plugin_lock' = IF plugin_lock = "platform" THEN "free" ELSE plugin_lock
        /\ cur' = [cur EXCEPT !["platform"] = NoPlugin]
        /\ Goto("platform", "idle")
        /\ UNCHANGED <<pluginJava, m_lock, library, ref, dev, op, surface, answer, dart, inputs>>

-----------------------------------------------------------------------------
(* Dart.                                                                   *)

\* The engine of the current plugin runs Dart: UVCManager._internal sets the port,
\* listens, and asks for the detector.
DartStart ==
    /\ pc["platform"] = "idle" /\ pc["dart"] = "idle"
    /\ pluginJava # NoPlugin
    /\ served # pluginJava
    /\ served' = pluginJava
    /\ queue' = << >> /\ controllers' = {} /\ told' = {}
    /\ UNCHANGED <<statics, objects, home, library, pc, ref, locals, answer, inputs>>

\* The engine that was detached shuts its isolate down.
DartExit ==
    /\ pc["dart"] = "idle"
    /\ served # NoPlugin
    /\ served # pluginJava
    /\ served' = NoPlugin
    /\ queue' = << >> /\ controllers' = {} /\ told' = {}
    /\ UNCHANGED <<statics, objects, home, library, pc, ref, locals, answer, inputs>>

HandleNewest ==             \* mutant: the newest message first
    /\ pc["dart"] = "idle"
    /\ queue # << >>
    /\ queue' = SubSeq(queue, 1, Len(queue) - 1)
    /\ LET m == queue[Len(queue)]
       IN  controllers' = IF m.attached THEN controllers \cup {m.device} ELSE controllers \ {m.device}
    /\ UNCHANGED <<statics, objects, home, library, pc, ref, locals, answer, served, told, inputs>>

\* _handleOnDeviceChanged; detached() of a removed controller calls stop at once.
HandleMessage ==
    /\ pc["dart"] = "idle"
    /\ queue # << >>
    /\ queue' = Tail(queue)
    /\ LET m == Head(queue)
       IN  IF m.attached
           THEN /\ controllers' = controllers \cup {m.device}
                /\ UNCHANGED <<pc, op, dev>>
           ELSE /\ controllers' = controllers \ {m.device}
                /\ IF m.device \in controllers THEN Request("dart", "stop", m.device)
                                               ELSE UNCHANGED <<pc, op, dev>>
    /\ UNCHANGED <<statics, objects, home, library, ref, cur, surface, answer, served, told, inputs>>

-----------------------------------------------------------------------------
CallStep(t) ==
    \/ Enter(t) \/ IsAvailable(t) \/ Available(t) \/ FindHolder(t) \/ LockHolder(t)
    \/ Act(t) \/ Leave(t)

CallbackStep(p) ==
    \/ AddLock(p) \/ AddHolder(p) \/ SendAttached(p)
    \/ RemoveHolder(p) \/ RemoveStop(p) \/ SendDetached(p)

DestructorStep == Install \/ TerminateAll \/ ManagerRelease \/ DestroyMembers

Library == \E p \in Plugin, d \in Device : DeviceAttach(p, d) \/ DeviceDetach(p, d)

Engine == NativeRelease \/ DartStart \/ DartExit \/ \E p \in Plugin : NativeInit(p)

Next ==
    \/ \E t \in Caller : CallStep(t)
    \/ \E p \in Plugin : CallbackStep(p)
    \/ \E t \in Caller, d \in Device : \E o \in Ops(t) : Call(t, o, d)
    \/ DestructorStep \/ HandleMessage \/ Library \/ Engine

\* Every thread that can go on goes on; the isolate takes its next message.
Fairness ==
    /\ \A t \in Caller : WF_vars(CallStep(t))
    /\ \A p \in Plugin : WF_vars(CallbackStep(p))
    /\ WF_vars(DestructorStep)
    /\ WF_vars(HandleMessage)

Spec == Init /\ [][Next]_vars
FairSpec == Spec /\ Fairness

-----------------------------------------------------------------------------
(* Properties.                                                             *)

CallLabel == {"is_available", "available", "find", "lock", "act"}
Label == CallLabel \cup
         {"idle", "enter", "leave", "addLock", "create", "sendAttached",
          "remove", "removeStop", "sendDetached", "install", "terminate", "release", "members"}

\* Every variable has its type.
TypeOK ==
    /\ pluginJava \in Plugin \cup {NoPlugin} /\ plugin_lock \in Caller \cup {"free"}
    /\ life \in [Plugin -> {"unborn", "alive", "terminated", "released", "dead"}]
    /\ m_lock \in [Plugin -> Thread \cup {"free"}]
    /\ holders \in [Plugin -> [Device -> Holder \cup {NoHolder}]]
    /\ home \in [Holder -> Place \cup {NoHome}]
    /\ stream \in [Plugin -> [Device -> Holder \cup {NoHolder}]]
    /\ window \in [Plugin -> [Device -> Surface \cup {NoSurface}]]
    /\ pc \in [Thread -> Label]
    /\ cur \in [Caller -> Plugin \cup {NoPlugin}]
    /\ dev \in [Thread -> Device \cup {NoDevice}]
    /\ ref \in [Thread -> Holder \cup {NoHolder}]
    /\ DOMAIN op = Caller /\ \A t \in Caller : op[t] \in Ops(t) \cup {"none"}
    /\ surface \in Surface \cup {NoSurface}
    /\ answer \in {"none", "UNINITIALIZED", "DISCONNECTED", "CONNECTED", "STREAMING"}
    /\ served \in Plugin \cup {NoPlugin}
    /\ queue \in Seq([device : Device, attached : BOOLEAN])
    /\ controllers \in SUBSET Device /\ told \in SUBSET Device
    /\ inputs \in 0..MaxInputs

\* A call that has entered a plugin object finds it, and its manager, alive until it
\* returns, whatever nativeInit and nativeRelease do meanwhile; a callback finds the
\* manager that runs it unreleased, although it may outlast terminate_all.
CallsAlive ==
    /\ \A t \in Caller : pc[t] \in CallLabel => life[cur[t]] = "alive"
    /\ \A p \in Plugin : pc[p] # "idle" => Alive(p)

\* A stream that runs belongs to a holder that is still in the map or that some
\* thread is about to drop: a start() that loses the race with the removal of the
\* device leaves no camera streaming that nobody can stop.
StreamOwned ==
    \A p \in Plugin, d \in Device : stream[p][d] # NoHolder =>
        holders[p][d] = stream[p][d] \/ \E t \in Thread : ref[t] = stream[p][d]

\* When the device has come back and streams again, no holder of its earlier
\* connection is left whose destructor would stop the new stream.
NoStaleStop ==
    \A p \in Plugin, d \in Device, h \in Holder :
        /\ stream[p][d] # NoHolder /\ stream[p][d] = holders[p][d]
        /\ home[h] = [plugin |-> p, device |-> d]
        => h = stream[p][d]

\* When the callbacks have returned and Dart has handled their messages, Dart has a
\* controller for exactly those devices native code has a holder for that it has been
\* told of: what was attached before Dart set its port is not among them, and a device
\* that was told of is never again wrong.  Not while another object is about to be
\* installed, whose callbacks post to the same port.
MapAgrees ==
    /\ served # NoPlugin /\ served = pluginJava /\ pc["platform"] # "install"
    /\ pc[served] = "idle" /\ queue = << >>
    => controllers = {d \in told : holders[served][d] # NoHolder}

\* The plugin as its callers see it: the calls on their way, the map of the current
\* object, the streams its holders have started, the surfaces of the devices in it.
Pending(t) == pc[t] \in CallLabel \cup {"enter"}
NoCall == [op |-> "none", device |-> NoDevice, surface |-> NoSurface]
Invoked(t) ==
    IF Pending(t)
    THEN [op      |-> IF op[t] \in {"start", "stop", "set_preview_surface"} THEN op[t] ELSE "query",
          device  |-> dev[t],
          surface |-> IF t = "platform" THEN surface ELSE NoSurface]
    ELSE NoCall
Invocations == [t \in Caller |-> Invoked(t)]
Reached == IF pluginJava = NoPlugin THEN {} ELSE {d \in Device : holders[pluginJava][d] # NoHolder}
Streaming == {d \in Reached : stream[pluginJava][d] = holders[pluginJava][d]}
Shown == [d \in Device |-> IF d \in Reached THEN window[pluginJava][d] ELSE NoSurface]
Promise == INSTANCE DeviceService WITH
    plugin <- pluginJava, call <- Invocations,
    present <- Reached, streaming <- Streaming, shown <- Shown

\* Although lookups, try_locks, removals and destructors interleave, every step is one
\* of the atomic steps of DeviceService or changes nothing that callers see: no call
\* takes effect twice or after it has returned, and no stream ends unasked.
Atomic == Promise!Spec

\* t can go on when u does: u has the mutex t wants, or is the callback that
\* manager_release is waiting for.
Waits(t, u) ==
    \/ pc[t] \in {"enter", "install"} /\ plugin_lock = u
    \/ pc[t] \in {"lock", "terminate"} /\ m_lock[cur[t]] = u
    \/ pc[t] \in {"addLock", "remove"} /\ m_lock[t] = u
    \/ pc[t] = "release" /\ cur[t] = u /\ pc[u] # "idle"

\* Threads do not wait in a circle, nor for themselves (the mutexes are not recursive): a
\* call waits for the destructor or for a call that waits, which wait for a callback, and
\* there it ends.  The destructor of a replaced object runs under plugin_lock.
NoDeadlock ==
    \A t, u \in Thread : Waits(t, u) =>
        \A v \in Thread : Waits(u, v) => \A w \in Thread : ~Waits(v, w)

\* Every call, callback and destructor returns: plugin_lock is always taken before
\* m_lock, and manager_release waits for callbacks while holding no m_lock.
CallsReturn == \A t \in Thread : []<>(pc[t] = "idle")

\* Dart runs on the current object; it ceases to before it can run on another.
Serving == served # NoPlugin /\ served = pluginJava

\* A device the library reports is shown by Dart, whatever calls hold the locks
\* meanwhile, unless it goes again or the engine does.  A report to an object on which no Dart
\* runs is lost, and not meant.
AttachReported ==
    \A d \in Device :
        (served # NoPlugin /\ pc[served] = "addLock" /\ dev[served] = d)
            ~> (d \in controllers \/ ~Serving \/ (pc[served] = "remove" /\ dev[served] = d))

\* Claimed by aandusb_native.h of manager_init, "the pointer returned is valid until
\* release_manager is called": no holder is left to use a manager that is released.
ReleasedManagerUnused ==
    \A p \in Plugin, h \in Holder : home[h].plugin = p => life[p] \notin {"released", "dead"}

\* Claimed by the enum device_state of aandusb_native.h, "DISCONNECTED: the specified
\* device is not connected": get_state does not answer CONNECTED for a device without
\* a holder.
DisconnectedReported ==
    [][\A t \in Caller : (Act(t) /\ GetDeviceState(t) /\ holders[cur[t]][dev[t]] = NoHolder
                             /\ ref[t] = NoHolder) => answer' # "CONNECTED"]_vars
=============================================================================
