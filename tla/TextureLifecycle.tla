--------------------------- MODULE TextureLifecycle ---------------------------
(***************************************************************************)
(* How video gets on the screen: the asynchronous handlers of a            *)
(* UVCVideoView and of its UVCController in Dart, the method channel, the  *)
(* SurfaceProducers of the Kotlin UVCManager with their surface callbacks, *)
(* and the native plugin, which is DeviceService.                          *)
(*                                                                         *)
(* A handler is a task that goes on after each await.  What it does        *)
(* between two awaits is one step of the isolate, except for stop(), which *)
(* blocks the isolate in native code.  The method channel and its replies  *)
(* are in order.  One camera, one controller and one view are followed     *)
(* from attachment to detachment.                                          *)
(*                                                                         *)
(* External: the Flutter engine (channel, lifecycle, surfaces), Android.   *)
(***************************************************************************)
EXTENDS Integers, Sequences, FiniteSets

CONSTANTS
    Camera,         \* the UVC device
    Texture,        \* textures createSurfaceProducer can return
    Task,           \* handlers that can be under way at a time
    NoTexture, NoTask, NoCall,
    MaxInputs       \* bound: events of the user, of Android and of the device

ASSUME NoTextureAssumption == NoTexture \notin Texture
ASSUME NoTaskAssumption == NoTask \notin Task
ASSUME InputsAssumption == MaxInputs \in Nat

VARIABLES
    \* DeviceService; a surface is named by its texture
    call, present, streaming, shown,
    \* UVCController and UVCVideoViewState
    controller,     \* "none", "attached", "gone" (its message waits), "detached"
    textureId,      \* UVCController.textureId
    view,           \* "none", "mounted" or "disposed"
    widget,         \* the state's _textureId, which the Texture widget shows
    app,            \* "resumed" or "paused"
    task,           \* kind and await of each handler
    starts,         \* compute(_start) that has not run yet
    \* the method channel
    requests, replies,
    \* Kotlin
    producers,      \* mSurfaceProducers
    available,      \* textures that have a surface
    created,        \* textures that have ever been created
    work,           \* what the platform thread is doing
    \* history
    overlapped,     \* two createTexture have been in flight together
    missed,         \* a nativeSetSurface has had no effect
    cleared,        \* releaseTextureAll has run
    stray,          \* producers kept by a createTexture that has thrown
    inputs

Native == INSTANCE DeviceService WITH
    Device <- {Camera}, Surface <- Texture, NoSurface <- NoTexture,
    Caller <- {"dart", "worker", "platform"},
    Plugin <- {"plugin"}, NoPlugin <- "none", plugin <- "plugin"   \* one plugin throughout

ASSUME NoCallAssumption == NoCall \notin Native!Operation

native  == <<call, present, streaming, shown>>
dart    == <<controller, textureId, view, widget, app, task, starts>>
channel == <<requests, replies>>
kotlin  == <<producers, available, created, work>>
history == <<overlapped, missed, cleared, stray>>
vars == <<native, dart, channel, kotlin, history, inputs>>

NoTaskRunning == [kind |-> "none", at |-> "idle"]
NoWork == [op |-> "none", task |-> NoTask, texture |-> NoTexture]
Work(op, k, t) == [op |-> op, task |-> k, texture |-> t]

Init ==
    /\ call = [t \in {"dart", "worker", "platform"} |-> NoCall]
    /\ present = {} /\ streaming = {} /\ shown = Native!Nothing
    /\ controller = "none" /\ textureId = NoTexture
    /\ view = "none" /\ widget = NoTexture /\ app = "resumed"
    /\ task = [k \in Task |-> NoTaskRunning] /\ starts = 0
    /\ requests = << >> /\ replies = << >>
    /\ producers = {} /\ available = {} /\ created = {} /\ work = NoWork
    /\ overlapped = FALSE /\ missed = FALSE /\ cleared = FALSE /\ stray = {}
    /\ inputs = 0

Input == inputs < MaxInputs /\ inputs' = inputs + 1

Invoke(t, name, s) == Native!Invoke(t, [op |-> name, device |-> Camera, surface |-> s])

-----------------------------------------------------------------------------
(* The isolate.                                                            *)

\* The isolate takes an event when it is not inside stop().
DartFree == call["dart"] = NoCall /\ \A k \in Task : task[k].at # "stop"

Await(k, kind, at) == task' = [task EXCEPT ![k] = [kind |-> kind, at |-> at]]
End(k) == task' = [task EXCEPT ![k] = NoTaskRunning]

FreeTask == CHOOSE k \in Task : task[k].at = "idle"

\* initState's _initTexture waits for setSize, a resumed view for getCurrentSize;
\* paused, dispose and detached call stop first.
Begin(kind) ==
    /\ DartFree
    /\ \E k \in Task : task[k].at = "idle"
    /\ IF kind \in {"init", "resumed"}
       THEN Await(FreeTask, kind, "size") /\ UNCHANGED native
       ELSE Await(FreeTask, kind, "stop") /\ Invoke("dart", "stop", NoTexture)

Mount ==
    /\ view = "none" /\ controller \in {"attached", "gone"}
    /\ view' = "mounted"
    /\ Begin("init")
    /\ Input
    /\ UNCHANGED <<controller, textureId, widget, app, starts, channel, kotlin, history>>

ChangeLifecycle(state) ==
    /\ view = "mounted" /\ app # state
    /\ app' = state
    /\ Begin(state)
    /\ Input
    /\ UNCHANGED <<controller, textureId, view, widget, starts, channel, kotlin, history>>

Dispose ==
    /\ view = "mounted"
    /\ view' = "disposed"
    /\ Begin("dispose")
    /\ Input
    /\ UNCHANGED <<controller, textureId, widget, app, starts, channel, kotlin, history>>

\* _handleOnDeviceChanged(deviceId, false): detached() of the controller.
HandleDetached ==
    /\ controller = "gone"
    /\ controller' = "detached"
    /\ Begin("detached")
    /\ UNCHANGED <<textureId, view, widget, app, starts, channel, kotlin, history, inputs>>

SetState(t) == widget' = IF view = "mounted" THEN t ELSE widget

\* start(): nothing unless the state is CONNECTED, which is also the answer of a
\* get_state that misses its lock; else on a compute isolate, which nobody awaits.
Start ==
    \/ starts' = starts + 1
    \/ Camera \in streaming /\ UNCHANGED starts

CreateAlways(k) ==          \* mutant: createTexture without its test of textureId
    /\ requests' = Append(requests, Work("createTexture", k, NoTexture))
    /\ overlapped' = (overlapped \/ \E j \in Task : task[j].at = "create")
    /\ Await(k, task[k].kind, "create")
    /\ UNCHANGED <<widget, starts>>

\* createTexture: the texture there is, or a new one.
CreateTexture(k) ==
    IF textureId # NoTexture
    THEN /\ Start
         /\ SetState(textureId)
         /\ End(k)
         /\ UNCHANGED <<requests, overlapped>>
    ELSE /\ requests' = Append(requests, Work("createTexture", k, NoTexture))
         /\ overlapped' = (overlapped \/ \E j \in Task : task[j].at = "create")
         /\ Await(k, task[k].kind, "create")
         /\ UNCHANGED <<widget, starts>>

\* _initTexture gives up and leaves everything; the catch block of resumed resets
\* _textureId.
GiveUp(k) ==
    /\ End(k)
    /\ IF task[k].kind = "resumed" THEN SetState(NoTexture) ELSE UNCHANGED widget

\* The size is known, or invalid, or the call has thrown.
SizeKnown(k) ==
    /\ DartFree
    /\ task[k].at = "size"
    /\ \/ CreateTexture(k)
       \/ GiveUp(k) /\ UNCHANGED <<starts, requests, overlapped>>
    /\ UNCHANGED <<native, controller, textureId, view, app, replies, kotlin, missed, cleared, stray, inputs>>

FinishKeeps(k) ==           \* mutant: paused does not reset _textureId
    End(k) /\ UNCHANGED widget

\* The end of a handler that has released the texture.
Finish(k) ==
    /\ End(k)
    /\ IF task[k].kind = "paused" THEN SetState(NoTexture) ELSE UNCHANGED widget

\* stop() has returned; releaseTexture forgets textureId and sends it.
Stopped(k) ==
    /\ call["dart"] = NoCall
    /\ task[k].at = "stop"
    /\ IF textureId = NoTexture
       THEN Finish(k) /\ UNCHANGED <<requests, textureId>>
       ELSE /\ requests' = Append(requests, Work("releaseTexture", k, textureId))
            /\ textureId' = NoTexture
            /\ Await(k, task[k].kind, "release")
            /\ UNCHANGED widget
    /\ UNCHANGED <<native, controller, view, app, starts, replies, kotlin, history, inputs>>

\* The reply of createTexture or releaseTexture.
HandleReply ==
    LET r == Head(replies)
    IN  /\ DartFree
        /\ replies # << >>
        /\ replies' = Tail(replies)
        /\ CASE r.op = "createTexture" ->
                    /\ textureId' = r.texture
                    /\ Start
                    /\ SetState(r.texture)
                    /\ End(r.task)
             [] r.op = "releaseTexture" -> Finish(r.task) /\ UNCHANGED <<textureId, starts>>
             [] r.op = "error" -> GiveUp(r.task) /\ UNCHANGED <<textureId, starts>>
        /\ UNCHANGED <<native, controller, view, app, requests, kotlin, history, inputs>>

-----------------------------------------------------------------------------
(* The platform thread.                                                    *)

nativeSetSurface(t) == Invoke("platform", "set_preview_surface", t)

ReleaseQuietly(k, t) ==     \* mutant: the surface native code holds is not cleared
    /\ work' = Work("releaseTexture", k, t)
    /\ UNCHANGED <<native, producers, available, created>>

releaseTexture(k, t) ==
    /\ nativeSetSurface(NoTexture)
    /\ work' = Work("releaseTexture", k, t)
    /\ UNCHANGED <<producers, available, created>>

\* createSurfaceProducer returns an id that has not been used.
FreshTexture == CHOOSE t \in Texture : t \notin created

createTexture(k) ==
    /\ created # Texture
    /\ created' = created \cup {FreshTexture}
    /\ producers' = producers \cup {FreshTexture}
    /\ available' = available \cup {FreshTexture}
    /\ nativeSetSurface(FreshTexture)
    /\ work' = Work("createTexture", k, FreshTexture)

\* An exception is rethrown, and the channel answers with an error.  It may come before
\* the producer is there, or when the producer has been kept (setCallback, or the first
\* use of its surface): nothing takes it out again, and its callbacks may fire later.
createFails(k) ==
    /\ replies' = Append(replies, Work("error", k, NoTexture))
    /\ \/ UNCHANGED <<producers, available, created, stray>>
       \/ /\ created # Texture
          /\ created' = created \cup {FreshTexture}
          /\ producers' = producers \cup {FreshTexture}
          /\ available' \in {available, available \cup {FreshTexture}}
          /\ stray' = stray \cup {FreshTexture}
    /\ UNCHANGED <<native, work>>

OnMethodCall ==
    LET m == Head(requests)
    IN  /\ work = NoWork
        /\ requests # << >>
        /\ requests' = Tail(requests)
        /\ \/ m.op = "createTexture" /\ createTexture(m.task) /\ UNCHANGED <<replies, stray>>
           \/ m.op = "createTexture" /\ createFails(m.task)
           \/ m.op = "releaseTexture" /\ releaseTexture(m.task, m.texture) /\ UNCHANGED <<replies, stray>>
        /\ UNCHANGED <<dart, overlapped, missed, cleared, inputs>>

ReplyToCreate ==            \* mutant: releaseTexture never answers
    /\ work.op # "none"
    /\ call["platform"] = NoCall
    /\ work' = NoWork
    /\ replies' = IF work.op = "createTexture" THEN Append(replies, work) ELSE replies
    /\ producers' = producers \ IF work.op = "releaseTexture" THEN {work.texture} ELSE {}
    /\ available' = available \cap producers'
    /\ UNCHANGED <<native, dart, requests, created, history, inputs>>

FinishUnreleased ==         \* mutant: the producer is taken out, but its surface stays
    /\ work.op # "none"
    /\ call["platform"] = NoCall
    /\ work' = NoWork
    /\ replies' = IF work.op = "surface" THEN replies ELSE Append(replies, work)
    /\ producers' = producers \ IF work.op = "releaseTexture" THEN {work.texture} ELSE {}
    /\ UNCHANGED <<native, dart, requests, available, created, history, inputs>>

\* nativeSetSurface has returned: the producer is released, and the call is answered.
FinishWork ==
    /\ work.op # "none"
    /\ call["platform"] = NoCall
    /\ work' = NoWork
    /\ replies' = IF work.op = "surface" THEN replies ELSE Append(replies, work)
    /\ producers' = producers \ IF work.op = "releaseTexture" THEN {work.texture} ELSE {}
    /\ available' = available \cap producers'
    /\ UNCHANGED <<native, dart, requests, created, history, inputs>>

AvailableUnset(t) ==        \* mutant: onSurfaceAvailable does not reach native code
    /\ work = NoWork
    /\ t \in producers \ available
    /\ available' = available \cup {t}
    /\ Input
    /\ UNCHANGED <<native, dart, channel, producers, created, work, history>>

onSurfaceAvailable(t) ==
    /\ work = NoWork
    /\ t \in producers \ available
    /\ available' = available \cup {t}
    /\ nativeSetSurface(t)
    /\ work' = Work("surface", NoTask, t)
    /\ Input
    /\ UNCHANGED <<dart, channel, producers, created, history>>

onSurfaceDestroyed(t) ==
    /\ work = NoWork
    /\ t \in available
    /\ available' = available \ {t}
    /\ nativeSetSurface(NoTexture)
    /\ work' = Work("surface", NoTask, t)
    /\ Input
    /\ UNCHANGED <<dart, channel, producers, created, history>>

\* onDetachedFromActivity: every producer is released, native code is not told.
releaseTextureAll ==
    /\ work = NoWork
    /\ ~cleared
    /\ producers' = {} /\ available' = {}
    /\ cleared' = TRUE
    /\ Input
    /\ UNCHANGED <<native, dart, channel, created, work, overlapped, missed, stray>>

-----------------------------------------------------------------------------
(* The native plugin, the worker isolate and the camera.                   *)

RunStart ==
    /\ starts > 0
    /\ Invoke("worker", "start", NoTexture)
    /\ starts' = starts - 1
    /\ UNCHANGED <<controller, textureId, view, widget, app, task, channel, kotlin, history, inputs>>

\* A call takes effect or misses its holder or its lock.
NativeStep(t) ==
    /\ \/ (Native!Start(t) \/ Native!Stop(t) \/ Native!SetSurface(t)) /\ UNCHANGED missed
       \/ Native!Miss(t) /\ missed' = (missed \/ t = "platform")
    /\ UNCHANGED <<dart, channel, kotlin, overlapped, cleared, stray, inputs>>

DeviceAttach ==
    /\ controller = "none"
    /\ controller' = "attached"
    /\ Native!Attach(Camera)
    /\ UNCHANGED <<textureId, view, widget, app, task, starts, channel, kotlin, history, inputs>>

DeviceDetach ==
    /\ controller = "attached"
    /\ controller' = "gone"
    /\ Native!Detach(Camera)
    /\ Input
    /\ UNCHANGED <<textureId, view, widget, app, task, starts, channel, kotlin, history>>

-----------------------------------------------------------------------------
TaskStep(k) == SizeKnown(k) \/ Stopped(k)
PlatformStep == OnMethodCall \/ FinishWork
SurfaceStep(t) == onSurfaceAvailable(t) \/ onSurfaceDestroyed(t)

Next ==
    \/ Mount \/ Dispose \/ HandleDetached \/ HandleReply
    \/ \E state \in {"resumed", "paused"} : ChangeLifecycle(state)
    \/ \E k \in Task : TaskStep(k)
    \/ PlatformStep \/ releaseTextureAll
    \/ \E t \in Texture : SurfaceStep(t)
    \/ RunStart \/ DeviceAttach \/ DeviceDetach
    \/ \E t \in {"dart", "worker", "platform"} : NativeStep(t)

\* Isolates, the platform thread and calls go on; nothing obliges users or Android.
Fairness ==
    /\ \A k \in Task : WF_vars(TaskStep(k))
    /\ WF_vars(HandleReply)
    /\ WF_vars(PlatformStep)
    /\ \A t \in {"dart", "worker", "platform"} : WF_vars(NativeStep(t))

Spec == Init /\ [][Next]_vars
FairSpec == Spec /\ Fairness

-----------------------------------------------------------------------------
(* Properties.                                                             *)

Message == [op : {"createTexture", "releaseTexture", "error"}, task : Task, texture : Texture \cup {NoTexture}]

\* Every variable has its type.
TypeOK ==
    /\ call \in [{"dart", "worker", "platform"} -> Native!Operation \cup {NoCall}]
    /\ present \in SUBSET {Camera} /\ streaming \in SUBSET {Camera}
    /\ shown \in [{Camera} -> Texture \cup {NoTexture}]
    /\ controller \in {"none", "attached", "gone", "detached"}
    /\ textureId \in Texture \cup {NoTexture} /\ widget \in Texture \cup {NoTexture}
    /\ view \in {"none", "mounted", "disposed"} /\ app \in {"resumed", "paused"}
    /\ task \in [Task -> [kind : {"none", "init", "resumed", "paused", "dispose", "detached"},
                          at : {"idle", "size", "create", "stop", "release"}]]
    /\ starts \in Nat
    /\ requests \in Seq(Message) /\ replies \in Seq(Message)
    /\ producers \in SUBSET Texture /\ available \in SUBSET producers /\ created \in SUBSET Texture
    /\ work \in {NoWork} \cup [op : {"createTexture", "releaseTexture", "surface"},
                               task : Task \cup {NoTask}, texture : Texture]
    /\ overlapped \in BOOLEAN /\ missed \in BOOLEAN /\ cleared \in BOOLEAN
    /\ stray \in SUBSET Texture
    /\ inputs \in 0..MaxInputs

\* As long as no nativeSetSurface has missed, the library draws only into surfaces
\* that exist: release and destruction clear the surface first.
WindowLive ==
    work = NoWork /\ ~missed /\ ~cleared => shown[Camera] \in available \cup {NoTexture}

\* Every producer is reachable: Dart has its id, or the call that creates or releases
\* it is under way, unless two createTexture have overlapped.  Those that a failed
\* createTexture leaves behind, and only those, nobody can release.
NoLeak ==
    ~overlapped => \A t \in producers \ stray :
        \/ t = textureId
        \/ work.texture = t
        \/ \E i \in 1..Len(replies) : replies[i].texture = t
        \/ \E i \in 1..Len(requests) : requests[i].texture = t

\* Between handlers a mounted view shows the controller's texture or none: never one
\* that the handler of another event has released or replaced meanwhile.
WidgetAgrees ==
    view = "mounted" /\ controller = "attached" /\ (\A k \in Task : task[k].at = "idle") =>
        widget \in {textureId, NoTexture}

Quiet == requests = << >> /\ replies = << >> /\ work = NoWork /\ \A k \in Task : task[k].at = "idle"

\* When everything has come to rest, the texture Dart shows is the one the library
\* draws into: no black frame after pauses, resumes and lost surfaces.  A producer that
\* a failed createTexture has left may take the surface away, so there is none.
VideoVisible ==
    Quiet /\ ~missed /\ ~overlapped /\ stray = {} /\ controller = "attached" /\ textureId \in available =>
        shown[Camera] = textureId

\* Every handler ends: each await is answered.
HandlersEnd == \A k \in Task : (task[k].at # "idle") ~> (task[k].at = "idle")

\* Claimed by the comment in onSurfaceDestroyed, "clear the native C++ reference to
\* avoid writing to an invalid surface": when the callback has returned, the library
\* does not hold the surface that is gone.
DestroyedCleared ==
    work = NoWork /\ ~cleared => shown[Camera] \in available \cup {NoTexture}
=============================================================================
