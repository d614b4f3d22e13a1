------------------------ MODULE TextureLifecycleProofs ------------------------
(***************************************************************************)
(* TextureLifecycle is safe for any number of textures, handlers and       *)
(* events.  The invariant says which handler waits for which message, who  *)
(* has the id of each texture, and what the call of the platform thread    *)
(* that is under way will show.                                            *)
(***************************************************************************)
EXTENDS TextureLifecycle, TLAPS

Awaited(op) == IF op = "releaseTexture" THEN "release" ELSE "create"

\* What each caller of native code can have asked for.  The platform thread calls only
\* for its work: a new surface, or none when a surface goes.
Current == IF work.op # "releaseTexture" /\ work.texture \in available THEN work.texture ELSE NoTexture
Asks(t, name, s) == call[t] # NoCall => call[t] = [op |-> name, device |-> Camera, surface |-> s]
CallInv ==
    /\ Asks("dart", "stop", NoTexture)
    /\ Asks("worker", "start", NoTexture)
    /\ Asks("platform", "set_preview_surface", Current)
    /\ call["platform"] # NoCall => work.op # "none"

\* Before the camera is attached nothing has happened; the view has handlers once it is
\* mounted, each kind with awaits of its own.
StageInv ==
    /\ controller = "none" => view = "none" /\ created = {} /\ \A k \in Task : task[k].at = "idle"
    /\ controller = "attached" => present = {Camera}
    /\ view = "none" => widget = NoTexture
    /\ \A k \in Task :
        /\ task[k].at \in {"size", "create"} => task[k].kind \in {"init", "resumed"}
        /\ task[k].at \in {"stop", "release"} => task[k].kind \in {"paused", "dispose", "detached"}
        /\ task[k].kind = "dispose" => view = "disposed"
        /\ task[k].kind = "detached" => controller = "detached"

\* Every message and the work of the platform thread are those of a handler that waits
\* for them, and of no other message.
Waits(m) == task[m.task].at = Awaited(m.op)
ChannelInv ==
    /\ \A i \in 1..Len(requests) :
        /\ requests[i].op # "error" /\ Waits(requests[i])
        /\ work.task # requests[i].task
        /\ \A j \in 1..Len(requests) : requests[i].task = requests[j].task => i = j
        /\ \A j \in 1..Len(replies) : requests[i].task # replies[j].task
    /\ \A i \in 1..Len(replies) :
        /\ Waits(replies[i])
        /\ work.task # replies[i].task
        /\ \A j \in 1..Len(replies) : replies[i].task = replies[j].task => i = j
    /\ work.op \in {"createTexture", "releaseTexture"} => work.task \in Task /\ Waits(work)
    /\ work.op = "surface" => work.task = NoTask

\* The textures that are named have been created, and one whose release is reported has
\* lost its producer.
NameInv ==
    /\ producers \subseteq created /\ stray \subseteq created
    /\ textureId \in created \cup {NoTexture}
    /\ work.texture \in created \cup {NoTexture}
    /\ work.op = "createTexture" => work.texture \in available
    /\ work.op = "surface" => work.texture \in producers
    /\ \A i \in 1..Len(requests) :
        requests[i].texture \in IF requests[i].op = "releaseTexture" THEN created ELSE {NoTexture}
    /\ \A i \in 1..Len(replies) :
        /\ replies[i].op = "createTexture" => replies[i].texture \in created
        /\ replies[i].op = "releaseTexture" => replies[i].texture \in created \ producers
        /\ replies[i].op = "error" => replies[i].texture = NoTexture

\* Unless two createTexture overlap, one handler asks for a texture at a time, when
\* there is none, and the texture before has been let go by then.
Creating(k) == task[k].at = "create"
SingleInv ==
    ~overlapped =>
        /\ \A j, k \in Task : Creating(j) /\ Creating(k) => j = k
        /\ (\E k \in Task : Creating(k)) => textureId = NoTexture
        /\ \A i, j \in 1..Len(requests) :
            i < j /\ requests[i].op = "createTexture" => requests[j].op # "releaseTexture"

\* Then there is one producer at most, but those that failed calls have left; Dart has
\* its id, or a message brings or takes it, and nobody has the id of another.
Brought(q, t) == \E i \in 1..Len(q) : t = q[i].texture /\ q[i].op = "createTexture"
Named(t) ==
    \/ t = textureId
    \/ t = work.texture /\ work.op # "surface"
    \/ \E i \in 1..Len(requests) : t = requests[i].texture
    \/ Brought(replies, t)
OwnerInv ==
    ~overlapped => \A t \in producers \ stray : Named(t) /\ \A u \in Texture : Named(u) => u = t

\* Between calls of the platform thread the library has a live surface or none, none when a
\* texture is being released, and else the one of the texture there is (if no failed
\* call has left a producer).
SurfaceInv ==
    call["platform"] = NoCall /\ ~missed =>
        /\ ~cleared /\ work.op # "releaseTexture" => shown[Camera] \in available \cup {NoTexture}
        /\ ~cleared /\ work.op = "releaseTexture" => shown[Camera] = NoTexture
        /\ ~overlapped /\ stray = {} /\ controller = "attached" /\ work.op # "releaseTexture" =>
              \A t \in available : shown[Camera] = t

\* The view shows what the controller has, or nothing, or waits for the release of what
\* it shows.
WidgetInv ==
    view = "mounted" /\ controller = "attached" =>
        \/ widget \in {textureId, NoTexture}
        \/ \E k \in Task : task[k].kind = "paused" /\ task[k].at = "release"

IInv ==
    /\ TypeOK /\ CallInv /\ StageInv /\ ChannelInv /\ NameInv
    /\ SingleInv /\ OwnerInv /\ SurfaceInv /\ WidgetInv

-----------------------------------------------------------------------------
(* Messages.                                                               *)

\* A message is sent.
LEMMA Sent ==
    ASSUME NEW q \in Seq(Message), NEW m \in Message, NEW r, r = Append(q, m)
    PROVE  /\ r \in Seq(Message) /\ Len(q) \in Nat /\ Len(r) = Len(q) + 1
           /\ r[Len(r)] = m
           /\ \A i \in 1..Len(q) : i \in 1..Len(r) /\ r[i] = q[i]
           /\ \A i \in 1..Len(r) : i \in 1..Len(q) \/ i = Len(r)
    OBVIOUS

\* The first message is received.
LEMMA Received ==
    ASSUME NEW q \in Seq(Message), q # << >>, NEW r, r = Tail(q)
    PROVE  /\ r \in Seq(Message) /\ Len(q) \in Nat /\ Len(r) = Len(q) - 1
           /\ 1 \in 1..Len(q) /\ Head(q) = q[1] /\ Head(q) \in Message
           /\ \A i \in 1..Len(r) : i + 1 \in 1..Len(q) /\ r[i] = q[i + 1]
           /\ \A i \in 1..Len(q) : i = 1 \/ (i - 1 \in 1..Len(r) /\ q[i] = r[i - 1])
    OBVIOUS

\* Each message is typed.
LEMMA Element ==
    ASSUME NEW q \in Seq(Message), NEW i \in 1..Len(q)
    PROVE  /\ q[i] \in Message /\ q[i].task \in Task
           /\ q[i].op \in {"createTexture", "releaseTexture", "error"}
<1>1. q[i] \in Message
    OBVIOUS
<1>. QED BY <1>1 DEF Message

-----------------------------------------------------------------------------
(* What a step leaves alone.                                               *)

\* Messages stay with their handlers when none of those goes on.
LEMMA ChannelRests ==
    ASSUME TypeOK, ChannelInv, UNCHANGED <<requests, replies, work>>,
           \A k \in Task : task[k].at \in {"create", "release"} => task'[k].at = task[k].at
    PROVE  ChannelInv'
<1>1. requests \in Seq(Message) /\ replies \in Seq(Message)
    BY DEF TypeOK
<1>2. (\A i \in 1..Len(requests) : requests[i].task \in Task) /\ \A i \in 1..Len(replies) : replies[i].task \in Task
    BY <1>1, Element
<1>. QED BY <1>2 DEF ChannelInv, Waits, Awaited

\* So do the names of textures.
LEMMA NamesRest ==
    ASSUME NameInv, OwnerInv,
           UNCHANGED <<requests, replies, work, textureId, producers, available, created, overlapped, stray>>
    PROVE  NameInv' /\ OwnerInv'
    BY DEF NameInv, OwnerInv, Named, Brought

\* No handler asks for a texture.
LEMMA SingleRests ==
    ASSUME SingleInv, UNCHANGED <<requests, textureId, overlapped>>,
           \A k \in Task : task'[k].at = "create" => task[k].at = "create"
    PROVE  SingleInv'
    BY DEF SingleInv, Creating

\* The platform thread and the library do nothing.
LEMMA SurfacesRest ==
    ASSUME SurfaceInv, UNCHANGED <<missed, cleared, stray, work, shown, available, overlapped, stray>>,
           call'["platform"] = call["platform"], controller' = "attached" => controller = "attached"
    PROVE  SurfaceInv'
    BY DEF SurfaceInv

\* The view keeps what it shows, or waits as before.
LEMMA WidgetRests ==
    ASSUME WidgetInv, UNCHANGED <<widget, textureId>>,
           view' = "mounted" => view = "mounted", controller' = "attached" => controller = "attached",
           \A k \in Task : task[k].kind = "paused" /\ task[k].at = "release" => task'[k] = task[k]
    PROVE  WidgetInv'
    BY DEF WidgetInv

-----------------------------------------------------------------------------
(* Handlers of the isolate.                                                *)

Kind == {"init", "resumed", "paused", "dispose", "detached"}

\* A handler begins on a task that is idle, and may call stop.
LEMMA Begun ==
    ASSUME TypeOK, NEW kind \in Kind, Begin(kind)
    PROVE  /\ \E k \in Task :
                /\ task[k].at = "idle"
                /\ task' = [task EXCEPT ![k] = [kind |-> kind,
                       at |-> IF kind \in {"init", "resumed"} THEN "size" ELSE "stop"]]
           /\ \/ call' = call
              \/ call' = [call EXCEPT !["dart"] = [op |-> "stop", device |-> Camera, surface |-> NoTexture]]
           /\ UNCHANGED <<present, streaming, shown>>
<1>1. FreeTask \in Task /\ task[FreeTask].at = "idle"
    BY DEF Begin, FreeTask
<1>2. task' = [task EXCEPT ![FreeTask] = [kind |-> kind,
                   at |-> IF kind \in {"init", "resumed"} THEN "size" ELSE "stop"]]
    BY DEF Begin, Await
<1>3. /\ \/ call' = call
         \/ call' = [call EXCEPT !["dart"] = [op |-> "stop", device |-> Camera, surface |-> NoTexture]]
      /\ UNCHANGED <<present, streaming, shown>>
    BY DEF Begin, Invoke, Native!Invoke, native
<1>. QED BY <1>1, <1>2, <1>3

\* Whatever event a handler begins for, it preserves the invariant, if controller and view
\* go on in their order and have come as far as the kind says.
LEMMA BeginStep ==
    ASSUME IInv, NEW kind \in Kind, Begin(kind),
           UNCHANGED <<textureId, widget, starts, channel, kotlin, history>>,
           controller' = controller \/ (controller' = "detached" /\ controller = "gone"),
           view' = view \/ (view = "none" /\ controller # "none" /\ view' = "mounted")
                        \/ (view = "mounted" /\ view' = "disposed"),
           controller # "none", kind = "dispose" => view' = "disposed",
           kind = "detached" => controller' = "detached",
           app' \in {"resumed", "paused"}, inputs' \in 0..MaxInputs
    PROVE  IInv'
<1>1. TypeOK /\ CallInv /\ StageInv /\ ChannelInv /\ NameInv /\ SingleInv /\ OwnerInv /\ SurfaceInv /\ WidgetInv
    BY DEF IInv
<1>2. PICK k \in Task : 
        /\ task[k].at = "idle"
        /\ task' = [task EXCEPT ![k] = [kind |-> kind,
               at |-> IF kind \in {"init", "resumed"} THEN "size" ELSE "stop"]]
    BY <1>1, Begun
<1>3. /\ \/ call' = call
         \/ call' = [call EXCEPT !["dart"] = [op |-> "stop", device |-> Camera, surface |-> NoTexture]]
      /\ UNCHANGED <<present, streaming, shown>>
    BY <1>1, Begun
<1>4. UNCHANGED <<textureId, widget, starts, requests, replies, producers, available, created, work,
                  overlapped, missed, cleared, stray>>
    BY DEF channel, kotlin, history
<1>5. task \in [Task -> [kind : {"none", "init", "resumed", "paused", "dispose", "detached"},
                         at : {"idle", "size", "create", "stop", "release"}]]
    BY <1>1 DEF TypeOK
<1>6. /\ task'[k].kind = kind /\ task'[k].at = IF kind \in {"init", "resumed"} THEN "size" ELSE "stop"
      /\ \A j \in Task \ {k} : task'[j] = task[j]
    BY <1>2, <1>5
<1>7. call' \in [{"dart", "worker", "platform"} -> Native!Operation \cup {NoCall}]
    BY <1>1, <1>3 DEF TypeOK, Native!Operation
<1>8. call'["platform"] = call["platform"] /\ call'["worker"] = call["worker"]
    BY <1>1, <1>3 DEF TypeOK
<1>9. TypeOK'
  <2>1. task' \in [Task -> [kind : {"none", "init", "resumed", "paused", "dispose", "detached"},
                            at : {"idle", "size", "create", "stop", "release"}]]
    BY <1>2, <1>5 DEF Kind
  <2>. QED BY <1>1, <1>3, <1>4, <1>7, <2>1 DEF TypeOK
<1>10. CallInv'
    BY <1>1, <1>3, <1>4, <1>8 DEF TypeOK, CallInv, Asks, Current
<1>11. StageInv'
    BY <1>1, <1>2, <1>3, <1>4, <1>6 DEF TypeOK, StageInv, Kind
<1>12. ChannelInv'
    BY <1>1, <1>2, <1>4, <1>6, ChannelRests
<1>13. NameInv' /\ OwnerInv'
    BY <1>1, <1>4, NamesRest
<1>14. SingleInv'
    BY <1>1, <1>4, <1>6, SingleRests
<1>15. SurfaceInv'
    BY <1>1, <1>3, <1>4, <1>8, SurfacesRest
<1>16. WidgetInv'
    BY <1>1, <1>2, <1>4, <1>6 DEF StageInv, WidgetInv
<1>. QED BY <1>9, <1>10, <1>11, <1>12, <1>13, <1>14, <1>15, <1>16 DEF IInv

\* The view is mounted.
LEMMA MountStep == ASSUME IInv, Mount PROVE IInv'
<1>1. "init" \in Kind /\ inputs' \in 0..MaxInputs /\ app' \in {"resumed", "paused"}
    BY InputsAssumption DEF Mount, Input, Kind, IInv, TypeOK
<1>2. UNCHANGED <<textureId, widget, starts, channel, kotlin, history>> /\ Begin("init")
    BY DEF Mount
<1>3. /\ controller' = controller \/ (controller' = "detached" /\ controller = "gone")
      /\ view' = view \/ (view = "none" /\ controller # "none" /\ view' = "mounted")
                      \/ (view = "mounted" /\ view' = "disposed")
      /\ "init" = "dispose" => view' = "disposed"
      /\ "init" = "detached" => controller' = "detached"
      /\ controller # "none"
    BY DEF Mount, IInv, StageInv
<1>4. app' \in {"resumed", "paused"}
    BY <1>1
<1>. QED BY <1>1, <1>2, <1>3, <1>4, BeginStep

\* The app is paused or resumed.
LEMMA LifecycleStep == ASSUME IInv, NEW state \in {"resumed", "paused"}, ChangeLifecycle(state) PROVE IInv'
<1>1. state \in Kind /\ inputs' \in 0..MaxInputs /\ state # "dispose" /\ state # "detached"
    BY InputsAssumption DEF ChangeLifecycle, Input, Kind, IInv, TypeOK
<1>2. UNCHANGED <<textureId, widget, starts, channel, kotlin, history>> /\ Begin(state)
    BY DEF ChangeLifecycle
<1>3. /\ controller' = controller \/ (controller' = "detached" /\ controller = "gone")
      /\ view' = view \/ (view = "none" /\ controller # "none" /\ view' = "mounted")
                      \/ (view = "mounted" /\ view' = "disposed")
      /\ state = "dispose" => view' = "disposed"
      /\ state = "detached" => controller' = "detached"
      /\ controller # "none"
    BY <1>1 DEF ChangeLifecycle, IInv, StageInv
<1>4. app' \in {"resumed", "paused"}
    BY DEF ChangeLifecycle
<1>. QED BY <1>1, <1>2, <1>3, <1>4, BeginStep

\* The view is disposed of.
LEMMA DisposeStep == ASSUME IInv, Dispose PROVE IInv'
<1>1. "dispose" \in Kind /\ inputs' \in 0..MaxInputs /\ app' \in {"resumed", "paused"}
    BY InputsAssumption DEF Dispose, Input, Kind, IInv, TypeOK
<1>2. UNCHANGED <<textureId, widget, starts, channel, kotlin, history>> /\ Begin("dispose")
    BY DEF Dispose
<1>3. /\ controller' = controller \/ (controller' = "detached" /\ controller = "gone")
      /\ view' = view \/ (view = "none" /\ controller # "none" /\ view' = "mounted")
                      \/ (view = "mounted" /\ view' = "disposed")
      /\ "dispose" = "dispose" => view' = "disposed"
      /\ "dispose" = "detached" => controller' = "detached"
      /\ controller # "none"
    BY DEF Dispose, IInv, StageInv
<1>4. app' \in {"resumed", "paused"}
    BY <1>1
<1>. QED BY <1>1, <1>2, <1>3, <1>4, BeginStep

\* The controller hears that its camera has gone.
LEMMA DetachedStep == ASSUME IInv, HandleDetached PROVE IInv'
<1>1. "detached" \in Kind /\ inputs' \in 0..MaxInputs /\ app' \in {"resumed", "paused"}
    BY DEF HandleDetached, Kind, IInv, TypeOK
<1>2. UNCHANGED <<textureId, widget, starts, channel, kotlin, history>> /\ Begin("detached")
    BY DEF HandleDetached
<1>3. /\ controller' = controller \/ (controller' = "detached" /\ controller = "gone")
      /\ view' = view \/ (view = "none" /\ controller # "none" /\ view' = "mounted")
                      \/ (view = "mounted" /\ view' = "disposed")
      /\ "detached" = "dispose" => view' = "disposed"
      /\ "detached" = "detached" => controller' = "detached"
      /\ controller # "none"
    BY DEF HandleDetached, IInv, StageInv
<1>4. app' \in {"resumed", "paused"}
    BY <1>1
<1>. QED BY <1>1, <1>2, <1>3, <1>4, BeginStep

\* A handler ends that waits for no message, and leaves the view as it was, empty, or
\* with the controller's texture.
LEMMA EndStep ==
    ASSUME IInv, NEW k \in Task, task[k].at \in {"size", "stop"}, End(k),
           UNCHANGED <<native, controller, textureId, view, app, channel, kotlin, history, inputs>>,
           starts' \in Nat,
           widget' = widget \/ (view = "mounted" /\ widget' \in {textureId, NoTexture})
    PROVE  IInv'
<1>1. TypeOK /\ CallInv /\ StageInv /\ ChannelInv /\ NameInv /\ SingleInv /\ OwnerInv /\ SurfaceInv /\ WidgetInv
    BY DEF IInv
<1>2. UNCHANGED <<call, present, streaming, shown, textureId, requests, replies, producers, available, created, work,
                  overlapped, missed, cleared, stray>>
    BY DEF native, channel, kotlin, history
<1>3. task \in [Task -> [kind : {"none", "init", "resumed", "paused", "dispose", "detached"},
                         at : {"idle", "size", "create", "stop", "release"}]]
    BY <1>1 DEF TypeOK
<1>4. /\ task'[k].kind = "none" /\ task'[k].at = "idle"
      /\ \A j \in Task \ {k} : task'[j] = task[j]
    BY <1>3 DEF End, NoTaskRunning
<1>5. TypeOK'
  <2>1. task' \in [Task -> [kind : {"none", "init", "resumed", "paused", "dispose", "detached"},
                            at : {"idle", "size", "create", "stop", "release"}]]
    BY <1>3 DEF End, NoTaskRunning
  <2>2. widget' \in Texture \cup {NoTexture}
    BY <1>1 DEF TypeOK
  <2>. QED BY <1>1, <1>2, <2>1, <2>2 DEF TypeOK
<1>6. CallInv'
    BY <1>1, <1>2 DEF CallInv, Asks, Current
<1>7. StageInv'
    BY <1>1, <1>2, <1>4 DEF StageInv
<1>8. ChannelInv'
    BY <1>1, <1>2, <1>4, ChannelRests
<1>9. NameInv' /\ OwnerInv'
    BY <1>1, <1>2, NamesRest
<1>10. SingleInv'
    BY <1>1, <1>2, <1>4, SingleRests
<1>11. SurfaceInv'
    BY <1>1, <1>2, SurfacesRest
<1>12. WidgetInv'
    BY <1>1, <1>2, <1>4 DEF WidgetInv
<1>. QED BY <1>5, <1>6, <1>7, <1>8, <1>9, <1>10, <1>11, <1>12 DEF IInv

\* A handler sends a message and waits for the reply.
LEMMA AskStep ==
    ASSUME IInv, NEW k \in Task, task[k].at \in {"size", "stop"},
           NEW m \in Message, m.task = k, requests' = Append(requests, m),
           task' = [task EXCEPT ![k] = [kind |-> task[k].kind, at |-> Awaited(m.op)]],
           UNCHANGED <<native, controller, view, widget, app, starts, replies, kotlin, missed, cleared, stray, inputs>>,
           \/ /\ task[k].at = "size" /\ m.op = "createTexture" /\ m.texture = NoTexture
              /\ textureId = NoTexture /\ textureId' = textureId
              /\ overlapped' = (overlapped \/ \E j \in Task : task[j].at = "create")
           \/ /\ task[k].at = "stop" /\ m.op = "releaseTexture" /\ m.texture = textureId
              /\ textureId # NoTexture /\ textureId' = NoTexture
              /\ UNCHANGED overlapped
    PROVE  IInv'
<1>1. TypeOK /\ CallInv /\ StageInv /\ ChannelInv /\ NameInv /\ SingleInv /\ OwnerInv /\ SurfaceInv /\ WidgetInv
    BY DEF IInv
<1>2. UNCHANGED <<call, present, streaming, shown, replies, producers, available, created, work, missed, cleared, stray>>
    BY DEF native, kotlin
<1>3. task \in [Task -> [kind : {"none", "init", "resumed", "paused", "dispose", "detached"},
                         at : {"idle", "size", "create", "stop", "release"}]]
    BY <1>1 DEF TypeOK
<1>4. /\ task'[k].kind = task[k].kind /\ task'[k].at = Awaited(m.op)
      /\ \A j \in Task \ {k} : task'[j] = task[j]
    BY <1>3
<1>5. requests \in Seq(Message) /\ replies \in Seq(Message)
    BY <1>1 DEF TypeOK
<1>6. /\ requests' \in Seq(Message) /\ Len(requests) \in Nat /\ Len(requests') = Len(requests) + 1
      /\ requests'[Len(requests')] = m
      /\ \A i \in 1..Len(requests) : i \in 1..Len(requests') /\ requests'[i] = requests[i]
      /\ \A i \in 1..Len(requests') : i \in 1..Len(requests) \/ i = Len(requests')
    BY <1>5, Sent
<1>7. (\A i \in 1..Len(requests) : requests[i].task \in Task) /\ \A i \in 1..Len(replies) : replies[i].task \in Task
    BY <1>5, Element
<1>8. TypeOK'
  <2>1. task' \in [Task -> [kind : {"none", "init", "resumed", "paused", "dispose", "detached"},
                            at : {"idle", "size", "create", "stop", "release"}]]
    BY <1>3 DEF Awaited
  <2>2. overlapped' \in BOOLEAN /\ textureId' \in Texture \cup {NoTexture}
    BY <1>1 DEF TypeOK
  <2>. QED BY <1>1, <1>2, <1>6, <2>1, <2>2 DEF TypeOK
<1>9. CallInv'
    BY <1>1, <1>2 DEF CallInv, Asks, Current
<1>10. StageInv'
  <2>1. \A j \in Task :
        /\ task'[j].at \in {"size", "create"} => task'[j].kind \in {"init", "resumed"}
        /\ task'[j].at \in {"stop", "release"} => task'[j].kind \in {"paused", "dispose", "detached"}
        /\ task'[j].kind = "dispose" => view' = "disposed"
        /\ task'[j].kind = "detached" => controller' = "detached"
    BY <1>1, <1>4 DEF StageInv, Awaited
  <2>. QED BY <1>1, <1>2, <2>1 DEF StageInv
<1>11. ChannelInv'
  <2>1. \A i \in 1..Len(requests) : requests[i].task # k
    BY <1>1, <1>7 DEF ChannelInv, Waits, Awaited
  <2>2. \A i \in 1..Len(replies) : replies[i].task # k
    BY <1>1, <1>7 DEF ChannelInv, Waits, Awaited
  <2>3. work.task # k
    BY <1>1, NoTaskAssumption DEF ChannelInv, Waits, Awaited, TypeOK, NoWork
  <2>4. \A i \in 1..Len(requests') :
        /\ requests'[i].op # "error" /\ task'[requests'[i].task].at = Awaited(requests'[i].op)
        /\ work'.task # requests'[i].task
        /\ \A j \in 1..Len(replies') : requests'[i].task # replies'[j].task
    <3>. TAKE i \in 1..Len(requests')
    <3>1. CASE i \in 1..Len(requests)
      <4>1. task'[requests[i].task] = task[requests[i].task]
        BY <1>4, <1>7, <2>1, <3>1
      <4>. QED BY <1>1, <1>2, <1>6, <3>1, <4>1 DEF ChannelInv, Waits
    <3>2. CASE i = Len(requests')
      BY <1>2, <1>4, <1>6, <2>2, <2>3, <3>2 DEF Awaited
    <3>. QED BY <1>6, <3>1, <3>2
  <2>5. \A i, j \in 1..Len(requests') : requests'[i].task = requests'[j].task => i = j
    BY <1>1, <1>6, <2>1 DEF ChannelInv
  <2>6. \A i \in 1..Len(replies') :
        /\ task'[replies'[i].task].at = Awaited(replies'[i].op)
        /\ work'.task # replies'[i].task
        /\ \A j \in 1..Len(replies') : replies'[i].task = replies'[j].task => i = j
    <3>1. \A i \in 1..Len(replies) : task'[replies[i].task] = task[replies[i].task]
      BY <1>4, <1>7, <2>2
    <3>. QED BY <1>1, <1>2, <3>1 DEF ChannelInv, Waits
  <2>7. work'.op \in {"createTexture", "releaseTexture"} => work'.task \in Task /\ task'[work'.task].at = Awaited(work'.op)
    BY <1>1, <1>2, <1>4, <2>3 DEF ChannelInv, Waits
  <2>. QED BY <1>1, <1>2, <2>4, <2>5, <2>6, <2>7 DEF ChannelInv, Waits
<1>12. NameInv'
    BY <1>1, <1>2, <1>6 DEF NameInv
<1>13. SingleInv'
  <2>1. CASE m.op = "createTexture"
    <3>1. ~overlapped' => ~overlapped /\ \A j \in Task : ~Creating(j)
      BY <2>1 DEF Creating
    <3>2. ~overlapped' => \A i \in 1..Len(requests) : requests[i].op # "createTexture"
      BY <1>1, <1>7, <3>1 DEF ChannelInv, Creating, Waits, Awaited
    <3>3. ~overlapped' => \A i, j \in 1..Len(requests') :
            i < j /\ requests'[i].op = "createTexture" => requests'[j].op # "releaseTexture"
      BY <1>6, <3>2
    <3>4. ~overlapped' => \A i, j \in Task : Creating(i)' /\ Creating(j)' => i = j
      BY <1>4, <3>1 DEF Creating
    <3>. QED BY <2>1, <3>3, <3>4 DEF SingleInv
  <2>2. CASE m.op = "releaseTexture"
    <3>1. ~overlapped => \A i \in 1..Len(requests) : requests[i].op # "createTexture"
      BY <1>1, <1>7, <2>2 DEF ChannelInv, SingleInv, Creating, Waits, Awaited
    <3>. QED BY <1>1, <1>4, <1>6, <2>2, <3>1 DEF SingleInv, Creating, Awaited
  <2>. QED BY <2>1, <2>2
<1>14. OwnerInv'
  <2>1. \A t \in Texture : Named(t)' <=> Named(t)
    <3>. TAKE t \in Texture
    <3>1. (\E i \in 1..Len(requests') : t = requests'[i].texture)
             <=> (\E i \in 1..Len(requests) : t = requests[i].texture) \/ t = m.texture
      BY <1>6
    <3>2. t = textureId \/ t = m.texture <=> t = textureId' \/ t = m.texture
      BY NoTextureAssumption
    <3>3. t = m.texture => t = textureId
      BY NoTextureAssumption
    <3>4. replies' = replies /\ work' = work
      BY <1>2
    <3>. QED BY <3>1, <3>2, <3>3, <3>4, Zenon DEF Named
  <2>. QED BY <1>1, <1>2, <2>1 DEF OwnerInv, TypeOK
<1>15. SurfaceInv'
  <2>1. ~overlapped' => ~overlapped
    OBVIOUS
  <2>2. controller' = controller
    OBVIOUS
  <2>. QED BY <1>1, <1>2, <2>1, <2>2 DEF SurfaceInv
<1>16. WidgetInv'
    BY <1>1, <1>2, <1>4 DEF WidgetInv, StageInv, Awaited
<1>. QED BY <1>8, <1>9, <1>10, <1>11, <1>12, <1>13, <1>14, <1>15, <1>16 DEF IInv

\* The size of the camera is known, or is not.
LEMMA SizeKnownStep == ASSUME IInv, NEW k \in Task, SizeKnown(k) PROVE IInv'
<1>1. TypeOK
    BY DEF IInv
<1>2. /\ task[k].at = "size"
      /\ UNCHANGED <<native, controller, textureId, view, app, replies, kotlin, missed, cleared, stray, inputs>>
    BY DEF SizeKnown
<1>3. CASE GiveUp(k) /\ UNCHANGED <<starts, requests, overlapped>>
  <2>1. UNCHANGED <<native, controller, textureId, view, app, channel, kotlin, history, inputs>>
    BY <1>2, <1>3 DEF channel, history
  <2>2. widget' = widget \/ (view = "mounted" /\ widget' \in {textureId, NoTexture})
    BY <1>3 DEF GiveUp, SetState
  <2>3. End(k) /\ starts' \in Nat
    BY <1>1, <1>3 DEF GiveUp, TypeOK
  <2>. QED BY <1>2, <2>1, <2>2, <2>3, EndStep
<1>4. CASE CreateTexture(k) /\ textureId # NoTexture
  <2>1. UNCHANGED <<native, controller, textureId, view, app, channel, kotlin, history, inputs>>
    BY <1>2, <1>4 DEF CreateTexture, channel, history
  <2>2. widget' = widget \/ (view = "mounted" /\ widget' \in {textureId, NoTexture})
    BY <1>4 DEF CreateTexture, SetState
  <2>3. End(k) /\ starts' \in Nat
    BY <1>1, <1>4 DEF CreateTexture, Start, TypeOK
  <2>. QED BY <1>2, <2>1, <2>2, <2>3, EndStep
<1>5. CASE CreateTexture(k) /\ textureId = NoTexture
  <2>1. PICK m \in Message : m = Work("createTexture", k, NoTexture)
    BY DEF Work, Message
  <2>2. m.op = "createTexture" /\ m.task = k /\ m.texture = NoTexture
    BY <2>1 DEF Work
  <2>3. /\ requests' = Append(requests, m)
        /\ task' = [task EXCEPT ![k] = [kind |-> task[k].kind, at |-> Awaited(m.op)]]
        /\ overlapped' = (overlapped \/ \E j \in Task : task[j].at = "create")
        /\ UNCHANGED <<widget, starts>>
    BY <1>5, <2>1, <2>2 DEF CreateTexture, Await, Awaited
  <2>4. UNCHANGED <<native, controller, view, widget, app, starts, replies, kotlin, missed, cleared, stray, inputs>>
    BY <1>2, <2>3
  <2>. QED BY <1>2, <1>5, <2>2, <2>3, <2>4, AskStep
<1>. QED BY <1>3, <1>4, <1>5 DEF SizeKnown

\* stop() has returned.
LEMMA StoppedStep == ASSUME IInv, NEW k \in Task, Stopped(k) PROVE IInv'
<1>1. TypeOK
    BY DEF IInv
<1>2. /\ task[k].at = "stop"
      /\ UNCHANGED <<native, controller, view, app, starts, replies, kotlin, history, inputs>>
    BY DEF Stopped
<1>3. CASE textureId = NoTexture
  <2>1. UNCHANGED <<native, controller, textureId, view, app, channel, kotlin, history, inputs>>
    BY <1>2, <1>3 DEF Stopped, channel
  <2>2. widget' = widget \/ (view = "mounted" /\ widget' \in {textureId, NoTexture})
    BY <1>3 DEF Stopped, Finish, SetState
  <2>3. End(k) /\ starts' \in Nat
    BY <1>1, <1>2, <1>3 DEF Stopped, Finish, TypeOK
  <2>. QED BY <1>2, <2>1, <2>2, <2>3, EndStep
<1>4. CASE textureId # NoTexture
  <2>1. PICK m \in Message : m = Work("releaseTexture", k, textureId)
    BY <1>1 DEF Work, Message, TypeOK
  <2>2. m.op = "releaseTexture" /\ m.task = k /\ m.texture = textureId
    BY <2>1 DEF Work
  <2>3. /\ requests' = Append(requests, m)
        /\ task' = [task EXCEPT ![k] = [kind |-> task[k].kind, at |-> Awaited(m.op)]]
        /\ textureId' = NoTexture
        /\ UNCHANGED widget
    BY <1>4, <2>1, <2>2 DEF Stopped, Await, Awaited
  <2>4. UNCHANGED <<native, controller, view, widget, app, starts, replies, kotlin, missed, cleared, stray, inputs>> /\ UNCHANGED overlapped
    BY <1>2, <2>3 DEF history
  <2>. QED BY <1>2, <1>4, <2>2, <2>3, <2>4, AskStep
<1>. QED BY <1>3, <1>4

\* The reply that a handler waits for ends it.
LEMMA ReplyStep == ASSUME IInv, HandleReply PROVE IInv'
<1>1. TypeOK /\ CallInv /\ StageInv /\ ChannelInv /\ NameInv /\ SingleInv /\ OwnerInv /\ SurfaceInv /\ WidgetInv
    BY DEF IInv
<1>2. replies # << >> /\ replies' = Tail(replies) /\ replies \in Seq(Message) /\ requests \in Seq(Message)
    BY <1>1 DEF HandleReply, TypeOK
<1>3. PICK r \in Message : r = Head(replies)
    BY <1>2, Received
<1>4. /\ replies' \in Seq(Message) /\ Len(replies) \in Nat /\ Len(replies') = Len(replies) - 1
      /\ 1 \in 1..Len(replies) /\ r = replies[1]
      /\ \A i \in 1..Len(replies') : i + 1 \in 1..Len(replies) /\ replies'[i] = replies[i + 1]
    BY <1>2, <1>3, Received
<1>5. PICK k \in Task : k = r.task
    BY <1>3 DEF Message
<1>6. UNCHANGED <<call, present, streaming, shown, controller, view, app, requests, producers, available, created, work,
                  overlapped, missed, cleared, stray, inputs>>
    BY DEF HandleReply, native, kotlin, history
<1>7. r.op \in {"createTexture", "releaseTexture", "error"} /\ task[k].at = Awaited(r.op)
    BY <1>1, <1>4, <1>5 DEF Message, ChannelInv, Waits
<1>8. /\ r.op = "createTexture" => /\ textureId' = r.texture /\ Start /\ End(k)
                                   /\ SetState(r.texture)
      /\ r.op = "releaseTexture" => Finish(k) /\ UNCHANGED <<textureId, starts>>
      /\ r.op = "error" => GiveUp(k) /\ UNCHANGED <<textureId, starts>>
    BY <1>3, <1>5, <1>7 DEF HandleReply
<1>9. End(k) /\ starts' \in Nat
    BY <1>1, <1>7, <1>8 DEF Finish, GiveUp, Start, TypeOK
<1>10. /\ widget' = widget \/ (view = "mounted" /\ widget' \in {textureId', NoTexture})
       /\ r.op = "releaseTexture" /\ task[k].kind = "paused" /\ view = "mounted" => widget' = NoTexture
       /\ r.op = "createTexture" /\ view = "mounted" => widget' = textureId'
    BY <1>7, <1>8 DEF Finish, GiveUp, SetState
<1>11. task \in [Task -> [kind : {"none", "init", "resumed", "paused", "dispose", "detached"},
                          at : {"idle", "size", "create", "stop", "release"}]]
    BY <1>1 DEF TypeOK
<1>12. /\ task'[k].kind = "none" /\ task'[k].at = "idle"
       /\ \A j \in Task \ {k} : task'[j] = task[j]
    BY <1>9, <1>11 DEF End, NoTaskRunning
<1>13. (\A i \in 1..Len(requests) : requests[i].task \in Task) /\ \A i \in 1..Len(replies) : replies[i].task \in Task
    BY <1>2, Element
<1>14. TypeOK'
  <2>1. task' \in [Task -> [kind : {"none", "init", "resumed", "paused", "dispose", "detached"},
                            at : {"idle", "size", "create", "stop", "release"}]]
    BY <1>9, <1>11 DEF End, NoTaskRunning
  <2>2. textureId' \in Texture \cup {NoTexture} /\ widget' \in Texture \cup {NoTexture}
    <3>1. r.texture \in Texture \cup {NoTexture}
      BY DEF Message
    <3>. QED BY <1>1, <1>7, <1>8, <1>10, <3>1 DEF TypeOK
  <2>. QED BY <1>1, <1>4, <1>6, <1>9, <2>1, <2>2 DEF TypeOK
<1>15. CallInv'
    BY <1>1, <1>6 DEF CallInv, Asks, Current
<1>16. StageInv'
    <2>1. view = "none" => widget' = NoTexture
      BY <1>1, <1>10 DEF StageInv
    <2>. QED BY <1>1, <1>6, <1>12, <2>1 DEF StageInv
<1>17. ChannelInv'
  <2>1. \A i \in 1..Len(requests) : requests[i].task # k /\ task'[requests[i].task] = task[requests[i].task]
    BY <1>1, <1>4, <1>5, <1>12, <1>13 DEF ChannelInv
  <2>2. \A i \in 1..Len(replies') : replies'[i].task # k /\ task'[replies'[i].task] = task[replies'[i].task]
    BY <1>1, <1>4, <1>5, <1>12, <1>13 DEF ChannelInv
  <2>3. work.task # k
    BY <1>1, <1>4, <1>5 DEF ChannelInv
  <2>4. \A i \in 1..Len(requests) :
        /\ requests[i].op # "error" /\ task'[requests[i].task].at = Awaited(requests[i].op)
        /\ work.task # requests[i].task
        /\ \A j \in 1..Len(requests) : requests[i].task = requests[j].task => i = j
        /\ \A j \in 1..Len(replies') : requests[i].task # replies'[j].task
    <3>1. \A i \in 1..Len(requests), j \in 1..Len(replies) : requests[i].task # replies[j].task
      BY <1>1 DEF ChannelInv
    <3>2. \A i \in 1..Len(requests), j \in 1..Len(replies') : requests[i].task # replies'[j].task
      BY <1>4, <3>1
    <3>. QED BY <1>1, <2>1, <3>2 DEF ChannelInv, Waits
  <2>5. \A i \in 1..Len(replies') :
        /\ task'[replies'[i].task].at = Awaited(replies'[i].op)
        /\ work.task # replies'[i].task
        /\ \A j \in 1..Len(replies') : replies'[i].task = replies'[j].task => i = j
    <3>1. \A i \in 1..Len(replies) : task[replies[i].task].at = Awaited(replies[i].op) /\ work.task # replies[i].task
      BY <1>1 DEF ChannelInv, Waits
    <3>2. \A i, j \in 1..Len(replies) : replies[i].task = replies[j].task => i = j
      BY <1>1 DEF ChannelInv
    <3>3. \A i, j \in 1..Len(replies') : replies'[i].task = replies'[j].task => i = j
      <4>. SUFFICES ASSUME NEW i \in 1..Len(replies'), NEW j \in 1..Len(replies'),
                           replies'[i].task = replies'[j].task
                    PROVE  i = j
        OBVIOUS
      <4>1. /\ i + 1 \in 1..Len(replies) /\ j + 1 \in 1..Len(replies)
            /\ replies'[i] = replies[i + 1] /\ replies'[j] = replies[j + 1]
        BY <1>4
      <4>2. i + 1 = j + 1
        BY <3>2, <4>1
      <4>. QED BY <4>2
    <3>4. \A i \in 1..Len(replies') :
            task[replies'[i].task].at = Awaited(replies'[i].op) /\ work.task # replies'[i].task
      BY <1>4, <3>1
    <3>. QED BY <2>2, <3>3, <3>4
  <2>6. work.op \in {"createTexture", "releaseTexture"} => work.task \in Task /\ task'[work.task].at = Awaited(work.op)
    BY <1>1, <1>12, <2>3 DEF ChannelInv, Waits
  <2>. QED BY <1>1, <1>6, <2>4, <2>5, <2>6 DEF ChannelInv, Waits
<1>18. NameInv'
  <2>1. textureId' \in created \cup {NoTexture}
    BY <1>1, <1>4, <1>7, <1>8 DEF NameInv
  <2>2. \A i \in 1..Len(replies') :
        /\ replies'[i].op = "createTexture" => replies'[i].texture \in created
        /\ replies'[i].op = "releaseTexture" => replies'[i].texture \in created \ producers
        /\ replies'[i].op = "error" => replies'[i].texture = NoTexture
    BY <1>1, <1>4 DEF NameInv
  <2>. QED BY <1>1, <1>6, <2>1, <2>2 DEF NameInv
<1>19. SingleInv'
  <2>1. \A j \in Task : Creating(j)' => Creating(j) /\ j # k
    BY <1>12 DEF Creating
  <2>2. ~overlapped /\ r.op = "createTexture" => \A j \in Task : ~Creating(j)'
    BY <1>1, <1>7, <2>1 DEF SingleInv, Creating, Awaited
  <2>3. r.op # "createTexture" => textureId' = textureId
    BY <1>7, <1>8
  <2>. QED BY <1>1, <1>6, <2>1, <2>2, <2>3 DEF SingleInv
<1>20. OwnerInv'
  <2>1. SUFFICES ASSUME ~overlapped PROVE \A t \in Texture : Named(t)' <=> Named(t)
    BY <1>1, <1>6 DEF OwnerInv, TypeOK
  <2>. TAKE t \in Texture
  <2>2. r.op = "createTexture" => textureId = NoTexture
    BY <1>1, <1>7, <2>1 DEF SingleInv, Creating, Awaited
  <2>3. Brought(replies, t) <=> (t = r.texture /\ r.op = "createTexture") \/ Brought(replies', t)
    <3>1. \A i \in 1..Len(replies) : i = 1 \/ (i - 1 \in 1..Len(replies') /\ replies[i] = replies'[i - 1])
      BY <1>2, Received
    <3>. QED BY <1>4, <3>1 DEF Brought
  <2>4. t = textureId' <=> t = textureId \/ (t = r.texture /\ r.op = "createTexture")
    BY <1>7, <1>8, <2>2, NoTextureAssumption
  <2>5. requests' = requests /\ work' = work
    BY <1>6
  <2>. QED BY <2>3, <2>4, <2>5, Zenon DEF Named
<1>21. SurfaceInv'
    BY <1>1, <1>6 DEF SurfaceInv
<1>22. WidgetInv'
  <2>1. CASE r.op = "createTexture"
    BY <1>6, <1>10, <2>1 DEF WidgetInv
  <2>2. CASE r.op # "createTexture" /\ task[k].kind = "paused" /\ task[k].at = "release"
    BY <1>6, <1>7, <1>10, <2>2 DEF WidgetInv, Awaited
  <2>3. CASE r.op # "createTexture" /\ ~(task[k].kind = "paused" /\ task[k].at = "release")
    <3>1. textureId' = textureId
      BY <1>7, <1>8, <2>3
    <3>2. \A j \in Task : task[j].kind = "paused" /\ task[j].at = "release" => task'[j] = task[j]
      BY <1>12, <2>3
    <3>. QED BY <1>1, <1>6, <1>10, <3>1, <3>2 DEF WidgetInv
  <2>. QED BY <2>1, <2>2, <2>3
<1>. QED BY <1>14, <1>15, <1>16, <1>17, <1>18, <1>19, <1>20, <1>21, <1>22 DEF IInv

-----------------------------------------------------------------------------
(* The platform thread.                                                    *)

\* The requests that wait, once the first has been taken, are those of other handlers.
LEMMA RequestTaken ==
    ASSUME TypeOK, ChannelInv, UNCHANGED task, requests # << >>, requests' = Tail(requests)
    PROVE  /\ Head(requests) \in Message /\ Head(requests).op # "error" /\ Waits(Head(requests))
           /\ \A i \in 1..Len(replies) : Head(requests).task # replies[i].task
           /\ \A i \in 1..Len(requests') :
                /\ requests'[i].op # "error" /\ task'[requests'[i].task].at = Awaited(requests'[i].op)
                /\ requests'[i].task \in Task /\ requests'[i].task # Head(requests).task
                /\ work.task # requests'[i].task
                /\ \A j \in 1..Len(requests') : requests'[i].task = requests'[j].task => i = j
                /\ \A j \in 1..Len(replies) : requests'[i].task # replies[j].task
<1>0. PICK m : m = Head(requests)
    OBVIOUS
<1>1. requests \in Seq(Message)
    BY DEF TypeOK
<1>2. /\ requests' \in Seq(Message) /\ Len(requests) \in Nat /\ Len(requests') = Len(requests) - 1
      /\ 1 \in 1..Len(requests) /\ m = requests[1] /\ m \in Message
      /\ \A i \in 1..Len(requests') : i + 1 \in 1..Len(requests) /\ requests'[i] = requests[i + 1]
    BY <1>0, <1>1, Received
<1>3. \A i \in 1..Len(requests) :
        /\ requests[i].op # "error" /\ task[requests[i].task].at = Awaited(requests[i].op)
        /\ work.task # requests[i].task
        /\ \A j \in 1..Len(replies) : requests[i].task # replies[j].task
    BY DEF ChannelInv, Waits
<1>4. \A i, j \in 1..Len(requests) : requests[i].task = requests[j].task => i = j
    BY DEF ChannelInv
<1>5. \A i \in 1..Len(requests) : requests[i].task \in Task
    BY <1>1, Element
<1>6. ASSUME NEW i \in 1..Len(requests')
      PROVE  requests'[i].task # m.task /\ \A j \in 1..Len(requests') : requests'[i].task = requests'[j].task => i = j
  <2>1. i + 1 \in 1..Len(requests) /\ requests'[i] = requests[i + 1] /\ i + 1 # 1
    BY <1>2
  <2>2. requests'[i].task # m.task
    BY <1>2, <1>4, <2>1
  <2>3. ASSUME NEW j \in 1..Len(requests'), requests'[i].task = requests'[j].task PROVE i = j
    <3>1. j + 1 \in 1..Len(requests) /\ requests'[j] = requests[j + 1]
      BY <1>2
    <3>2. i + 1 = j + 1
      BY <1>4, <2>1, <2>3, <3>1
    <3>. QED BY <3>2
  <2>. QED BY <2>2, <2>3
<1>7. \A i \in 1..Len(requests') :
        /\ requests'[i].op # "error" /\ task'[requests'[i].task].at = Awaited(requests'[i].op)
        /\ requests'[i].task \in Task /\ work.task # requests'[i].task
        /\ \A j \in 1..Len(replies) : requests'[i].task # replies[j].task
    BY <1>2, <1>3, <1>5
<1>8. m.op # "error" /\ Waits(m) /\ \A i \in 1..Len(replies) : m.task # replies[i].task
    BY <1>2, <1>3 DEF Waits
<1>. QED BY <1>0, <1>2, <1>6, <1>7, <1>8

\* The platform thread begins to work for a request.
LEMMA WorkBegins ==
    ASSUME TypeOK, ChannelInv, UNCHANGED <<task, replies>>, requests # << >>, requests' = Tail(requests),
           work'.op = Head(requests).op, work'.task = Head(requests).task
    PROVE  ChannelInv'
<1>1. PICK m : m = Head(requests)
    OBVIOUS
<1>2. UNCHANGED task /\ replies' = replies
    OBVIOUS
<1>3. /\ Head(requests) \in Message /\ Head(requests).op # "error" /\ Waits(Head(requests))
      /\ \A i \in 1..Len(replies) : Head(requests).task # replies[i].task
      /\ \A i \in 1..Len(requests') :
           /\ requests'[i].op # "error" /\ task'[requests'[i].task].at = Awaited(requests'[i].op)
           /\ requests'[i].task \in Task /\ requests'[i].task # Head(requests).task
           /\ work.task # requests'[i].task
           /\ \A j \in 1..Len(requests') : requests'[i].task = requests'[j].task => i = j
           /\ \A j \in 1..Len(replies) : requests'[i].task # replies[j].task
    BY <1>2, RequestTaken, Zenon
<1>4. m.op \in {"createTexture", "releaseTexture"} /\ m.task \in Task
    BY <1>1, <1>3 DEF Message
<1>5. \A i \in 1..Len(replies') :
        /\ task'[replies'[i].task].at = Awaited(replies'[i].op)
        /\ work'.task # replies'[i].task
        /\ \A j \in 1..Len(replies') : replies'[i].task = replies'[j].task => i = j
    BY <1>1, <1>2, <1>3 DEF ChannelInv, Waits
<1>6. task'[work'.task].at = Awaited(work'.op)
    BY <1>1, <1>2, <1>3 DEF Waits
<1>. QED BY <1>1, <1>2, <1>3, <1>4, <1>5, <1>6 DEF ChannelInv, Waits

\* A reply is sent to a handler that waits for it and for no other.
LEMMA ReplySent ==
    ASSUME TypeOK, ChannelInv, UNCHANGED task, NEW m \in Message, replies' = Append(replies, m),
           Waits(m), \A i \in 1..Len(replies) : m.task # replies[i].task
    PROVE  /\ replies' \in Seq(Message)
           /\ \A i \in 1..Len(replies') :
                /\ task'[replies'[i].task].at = Awaited(replies'[i].op)
                /\ \A j \in 1..Len(replies') : replies'[i].task = replies'[j].task => i = j
                /\ replies'[i] = m \/ \E j \in 1..Len(replies) : replies'[i] = replies[j]
<1>1. replies \in Seq(Message)
    BY DEF TypeOK
<1>2. /\ replies' \in Seq(Message) /\ Len(replies) \in Nat /\ Len(replies') = Len(replies) + 1
      /\ replies'[Len(replies')] = m
      /\ \A i \in 1..Len(replies) : i \in 1..Len(replies') /\ replies'[i] = replies[i]
      /\ \A i \in 1..Len(replies') : i \in 1..Len(replies) \/ i = Len(replies')
    BY <1>1, Sent
<1>3. \A i, j \in 1..Len(replies) : replies[i].task = replies[j].task => i = j
    BY DEF ChannelInv
<1>4. \A i, j \in 1..Len(replies') : replies'[i].task = replies'[j].task => i = j
    BY <1>2, <1>3
<1>5. \A i \in 1..Len(replies) : task[replies[i].task].at = Awaited(replies[i].op)
    BY DEF ChannelInv, Waits
<1>6. \A i \in 1..Len(replies') : task'[replies'[i].task].at = Awaited(replies'[i].op)
    BY <1>2, <1>5 DEF Waits
<1>. QED BY <1>2, <1>4, <1>6

\* The textures that requests name are that of the first and those of the others.
LEMMA NamesTaken ==
    ASSUME TypeOK, requests # << >>, requests' = Tail(requests), NEW t
    PROVE  (\E i \in 1..Len(requests) : t = requests[i].texture)
               <=> t = Head(requests).texture \/ \E i \in 1..Len(requests') : t = requests'[i].texture
<1>1. requests \in Seq(Message)
    BY DEF TypeOK
<1>2. /\ 1 \in 1..Len(requests) /\ Head(requests) = requests[1]
      /\ \A i \in 1..Len(requests') : i + 1 \in 1..Len(requests) /\ requests'[i] = requests[i + 1]
      /\ \A i \in 1..Len(requests) : i = 1 \/ (i - 1 \in 1..Len(requests') /\ requests[i] = requests'[i - 1])
    BY <1>1, Received
<1>3. ASSUME NEW i \in 1..Len(requests), t = requests[i].texture
      PROVE  t = requests[1].texture \/ \E j \in 1..Len(requests') : t = requests'[j].texture
    BY <1>2, <1>3
<1>4. ASSUME NEW i \in 1..Len(requests'), t = requests'[i].texture
      PROVE  \E j \in 1..Len(requests) : t = requests[j].texture
    BY <1>2, <1>4
<1>. QED BY <1>2, <1>3, <1>4

\* A reply to createTexture adds its texture to those that replies bring.
LEMMA NamesSent ==
    ASSUME TypeOK, NEW m \in Message, replies' = Append(replies, m), NEW t
    PROVE  Brought(replies', t) <=> (t = m.texture /\ m.op = "createTexture") \/ Brought(replies, t)
<1>1. replies \in Seq(Message)
    BY DEF TypeOK
<1>2. /\ replies'[Len(replies')] = m /\ Len(replies') \in 1..Len(replies')
      /\ \A i \in 1..Len(replies) : i \in 1..Len(replies') /\ replies'[i] = replies[i]
      /\ \A i \in 1..Len(replies') : i \in 1..Len(replies) \/ i = Len(replies')
    BY <1>1, Sent
<1>3. ASSUME NEW i \in 1..Len(replies'), t = replies'[i].texture, replies'[i].op = "createTexture"
      PROVE  (t = m.texture /\ m.op = "createTexture") \/ Brought(replies, t)
    BY <1>2, <1>3 DEF Brought
<1>4. ASSUME NEW i \in 1..Len(replies), t = replies[i].texture, replies[i].op = "createTexture"
      PROVE  Brought(replies', t)
    BY <1>2, <1>4 DEF Brought
<1>5. t = m.texture /\ m.op = "createTexture" => Brought(replies', t)
    BY <1>2 DEF Brought
<1>. QED BY <1>3, <1>4, <1>5 DEF Brought

\* The requests that wait keep their textures and their order.
LEMMA RequestsInOrder ==
    ASSUME TypeOK, NameInv, SingleInv, UNCHANGED <<task, textureId, overlapped>>,
           requests # << >>, requests' = Tail(requests)
    PROVE  /\ SingleInv'
           /\ ~overlapped /\ Head(requests).op = "createTexture" =>
                 \A i \in 1..Len(requests') : requests'[i].op # "releaseTexture"
           /\ Head(requests).texture \in IF Head(requests).op = "releaseTexture" THEN created ELSE {NoTexture}
           /\ \A i \in 1..Len(requests') :
                 requests'[i].texture \in IF requests'[i].op = "releaseTexture" THEN created ELSE {NoTexture}
<1>1. requests \in Seq(Message)
    BY DEF TypeOK
<1>2. /\ Len(requests) \in Nat /\ Len(requests') = Len(requests) - 1
      /\ 1 \in 1..Len(requests) /\ Head(requests) = requests[1]
      /\ \A i \in 1..Len(requests') : i + 1 \in 1..Len(requests) /\ requests'[i] = requests[i + 1]
    BY <1>1, Received
<1>3. ~overlapped => \A i, j \in 1..Len(requests) :
            i < j /\ requests[i].op = "createTexture" => requests[j].op # "releaseTexture"
    BY DEF SingleInv
<1>4. ~overlapped => \A i, j \in 1..Len(requests') :
            i < j /\ requests'[i].op = "createTexture" => requests'[j].op # "releaseTexture"
  <2>. SUFFICES ASSUME ~overlapped, NEW i \in 1..Len(requests'), NEW j \in 1..Len(requests'),
                       i < j, requests'[i].op = "createTexture"
                PROVE  requests'[j].op # "releaseTexture"
    OBVIOUS
  <2>1. /\ i + 1 \in 1..Len(requests) /\ j + 1 \in 1..Len(requests) /\ i + 1 < j + 1
        /\ requests'[i] = requests[i + 1] /\ requests'[j] = requests[j + 1]
    BY <1>2
  <2>. QED BY <1>3, <2>1
<1>5. SingleInv'
    BY <1>4 DEF SingleInv, Creating
<1>6. ~overlapped /\ requests[1].op = "createTexture" =>
            \A i \in 1..Len(requests') : requests'[i].op # "releaseTexture"
  <2>1. \A i \in 1..Len(requests') : 1 < i + 1
    BY <1>2
  <2>. QED BY <1>2, <1>3, <2>1
<1>7. \A i \in 1..Len(requests) :
            requests[i].texture \in IF requests[i].op = "releaseTexture" THEN created ELSE {NoTexture}
    BY DEF NameInv
<1>. QED BY <1>2, <1>5, <1>6, <1>7

\* createTexture fails, and the handler gets an error; a producer may stay behind.
LEMMA CreateFailsStep ==
    ASSUME IInv, work = NoWork, requests # << >>, requests' = Tail(requests),
           Head(requests).op = "createTexture", createFails(Head(requests).task),
           UNCHANGED <<dart, overlapped, missed, cleared, inputs>>
    PROVE  IInv'
<1>1. TypeOK /\ CallInv /\ StageInv /\ ChannelInv /\ NameInv /\ SingleInv /\ OwnerInv /\ SurfaceInv /\ WidgetInv
    BY DEF IInv
<1>2. UNCHANGED <<call, present, streaming, shown, controller, textureId, view, widget, app, task, starts,
                  work, overlapped, missed, cleared, inputs>>
    BY DEF createFails, dart, native
<1>3. requests \in Seq(Message) /\ replies \in Seq(Message)
    BY <1>1 DEF TypeOK
<1>4. UNCHANGED task /\ UNCHANGED <<task, textureId, overlapped>>
    BY <1>2
<1>5. /\ Head(requests) \in Message /\ Head(requests).op # "error" /\ Waits(Head(requests))
      /\ \A i \in 1..Len(replies) : Head(requests).task # replies[i].task
      /\ \A i \in 1..Len(requests') :
           /\ requests'[i].op # "error" /\ task'[requests'[i].task].at = Awaited(requests'[i].op)
           /\ requests'[i].task \in Task /\ requests'[i].task # Head(requests).task
           /\ work.task # requests'[i].task
           /\ \A j \in 1..Len(requests') : requests'[i].task = requests'[j].task => i = j
           /\ \A j \in 1..Len(replies) : requests'[i].task # replies[j].task
    BY <1>1, <1>4, RequestTaken, Zenon
<1>6. /\ SingleInv'
      /\ ~overlapped /\ Head(requests).op = "createTexture" =>
            \A i \in 1..Len(requests') : requests'[i].op # "releaseTexture"
      /\ Head(requests).texture \in IF Head(requests).op = "releaseTexture" THEN created ELSE {NoTexture}
      /\ \A i \in 1..Len(requests') :
            requests'[i].texture \in IF requests'[i].op = "releaseTexture" THEN created ELSE {NoTexture}
    BY <1>1, <1>4, RequestsInOrder, Zenon
<1>7. PICK e \in Message : e = Work("error", Head(requests).task, NoTexture)
    BY <1>5 DEF Work, Message
<1>8. e.op = "error" /\ e.task = Head(requests).task /\ e.texture = NoTexture
    BY <1>7 DEF Work
<1>9. replies' = Append(replies, e)
    BY <1>7 DEF createFails
<1>10. Waits(e) /\ \A i \in 1..Len(replies) : e.task # replies[i].task
    BY <1>5, <1>8 DEF Waits, Awaited
<1>11. /\ replies' \in Seq(Message)
       /\ \A i \in 1..Len(replies') :
            /\ task'[replies'[i].task].at = Awaited(replies'[i].op)
            /\ \A j \in 1..Len(replies') : replies'[i].task = replies'[j].task => i = j
            /\ replies'[i] = e \/ \E j \in 1..Len(replies) : replies'[i] = replies[j]
    BY <1>1, <1>4, <1>9, <1>10, ReplySent, Zenon
<1>20. /\ created \subseteq created' /\ producers \subseteq producers' /\ available \subseteq available'
       /\ stray' \subseteq created' /\ producers' \subseteq created' /\ created' \subseteq Texture
       /\ available' \subseteq producers' /\ stray \subseteq stray'
       /\ producers' \ stray' \subseteq producers \ stray
       /\ (stray' = {} => available' = available) /\ producers' \cap created \subseteq producers
  <2>1. CASE UNCHANGED <<producers, available, created, stray>>
    BY <1>1, <2>1 DEF TypeOK, NameInv
  <2>2. CASE ~UNCHANGED <<producers, available, created, stray>>
    <3>1. PICK t : t = FreshTexture
      OBVIOUS
    <3>2. t \in Texture /\ t \notin created
      BY <1>1, <2>2, <3>1 DEF createFails, FreshTexture, TypeOK
    <3>3. /\ created' = created \cup {t} /\ producers' = producers \cup {t} /\ stray' = stray \cup {t}
          /\ available' \in {available, available \cup {t}}
      BY <2>2, <3>1 DEF createFails
    <3>. QED BY <1>1, <3>2, <3>3 DEF TypeOK, NameInv
  <2>. QED BY <2>1, <2>2
<1>12. TypeOK'
  <2>1. requests' \in Seq(Message)
    BY <1>3, Received
  <2>2. stray' \in SUBSET Texture /\ producers' \in SUBSET Texture
    BY <1>20
  <2>. QED BY <1>1, <1>2, <1>11, <1>20, <2>1, <2>2 DEF TypeOK
<1>13. CallInv'
    BY <1>1, <1>2 DEF CallInv, Asks, Current, NoWork
<1>14. StageInv'
  <2>1. controller # "none"
    BY <1>1, <1>5 DEF StageInv, Waits, Awaited, Message
  <2>. QED BY <1>1, <1>2, <2>1 DEF StageInv
<1>15. ChannelInv'
  <2>1. work.op = "none" /\ work.task = NoTask
    BY DEF NoWork
  <2>2. \A i \in 1..Len(replies') : NoTask # replies'[i].task
    BY <1>11, Element, NoTaskAssumption
  <2>3. \A i \in 1..Len(requests') : \A j \in 1..Len(replies') : requests'[i].task # replies'[j].task
    <3>. TAKE i \in 1..Len(requests')
    <3>. TAKE j \in 1..Len(replies')
    <3>1. requests'[i].task # e.task /\ \A n \in 1..Len(replies) : requests'[i].task # replies[n].task
      BY <1>5, <1>8
    <3>2. replies'[j] = e \/ \E n \in 1..Len(replies) : replies'[j] = replies[n]
      BY <1>11
    <3>. QED BY <3>1, <3>2
  <2>4. \A i \in 1..Len(requests') :
        /\ requests'[i].op # "error" /\ task'[requests'[i].task].at = Awaited(requests'[i].op)
        /\ work'.task # requests'[i].task
        /\ \A j \in 1..Len(requests') : requests'[i].task = requests'[j].task => i = j
        /\ \A j \in 1..Len(replies') : requests'[i].task # replies'[j].task
    BY <1>2, <1>5, <2>3
  <2>5. \A i \in 1..Len(replies') :
        /\ task'[replies'[i].task].at = Awaited(replies'[i].op)
        /\ work'.task # replies'[i].task
        /\ \A j \in 1..Len(replies') : replies'[i].task = replies'[j].task => i = j
    BY <1>2, <1>11, <2>1, <2>2
  <2>. QED BY <1>2, <2>1, <2>4, <2>5 DEF ChannelInv, Waits
<1>16. NameInv'
  <2>1. \A i \in 1..Len(replies') :
        /\ replies'[i].op = "createTexture" => replies'[i].texture \in created'
        /\ replies'[i].op = "releaseTexture" => replies'[i].texture \in created' \ producers'
        /\ replies'[i].op = "error" => replies'[i].texture = NoTexture
    <3>. TAKE i \in 1..Len(replies')
    <3>1. CASE replies'[i] = e
      BY <1>8, <3>1
    <3>2. CASE \E j \in 1..Len(replies) : replies'[i] = replies[j]
      BY <1>1, <1>20, <3>2 DEF NameInv
    <3>. QED BY <1>11, <3>1, <3>2
  <2>2. \A i \in 1..Len(requests') :
            requests'[i].texture \in IF requests'[i].op = "releaseTexture" THEN created' ELSE {NoTexture}
    BY <1>6, <1>20
  <2>3. work.op = "none" /\ work'.op = "none" /\ work'.texture = NoTexture
    BY <1>2 DEF NoWork
  <2>4. textureId' \in created' \cup {NoTexture}
    BY <1>1, <1>2, <1>20 DEF NameInv
  <2>. QED BY <1>20, <2>1, <2>2, <2>3, <2>4 DEF NameInv
<1>17. OwnerInv'
  <2>1. SUFFICES \A t \in Texture : Named(t)' <=> Named(t)
    BY <1>1, <1>2, <1>20 DEF OwnerInv, TypeOK
  <2>. TAKE t \in Texture
  <2>2. Head(requests).texture # t
    BY <1>6, NoTextureAssumption
  <2>3. (\E i \in 1..Len(requests) : t = requests[i].texture) <=> \E i \in 1..Len(requests') : t = requests'[i].texture
    BY <1>1, <2>2, NamesTaken
  <2>4. Brought(replies', t) <=> Brought(replies, t)
    BY <1>1, <1>8, <1>9, NamesSent
  <2>5. textureId' = textureId /\ work' = work
    BY <1>2
  <2>. QED BY <2>3, <2>4, <2>5, Zenon DEF Named
<1>18. SurfaceInv'
    BY <1>1, <1>2, <1>20 DEF SurfaceInv
<1>19. WidgetInv'
    BY <1>1, <1>2 DEF WidgetInv
<1>. QED BY <1>6, <1>12, <1>13, <1>14, <1>15, <1>16, <1>17, <1>18, <1>19 DEF IInv

\* The platform thread begins to work for a request: it names the texture of the request
\* or a new one, and calls native code.
LEMMA WorkStep ==
    ASSUME IInv, requests # << >>, requests' = Tail(requests), NEW s, NEW t \in Texture,
           UNCHANGED <<dart, replies, history, inputs, present, streaming, shown>>,
           work = NoWork, work' = [op |-> Head(requests).op, task |-> Head(requests).task, texture |-> t],
           call' = [call EXCEPT !["platform"] = [op |-> "set_preview_surface", device |-> Camera, surface |-> s]],
           \/ /\ Head(requests).op = "createTexture" /\ s = t /\ t \notin created
              /\ created' = created \cup {t} /\ producers' = producers \cup {t} /\ available' = available \cup {t}
           \/ /\ Head(requests).op = "releaseTexture" /\ s = NoTexture /\ t = Head(requests).texture
              /\ UNCHANGED <<created, producers, available>>
    PROVE  IInv'
<1>1. TypeOK /\ CallInv /\ StageInv /\ ChannelInv /\ NameInv /\ SingleInv /\ OwnerInv /\ SurfaceInv /\ WidgetInv
    BY DEF IInv
<1>2. UNCHANGED <<present, streaming, shown, controller, textureId, view, widget, app, task, starts, replies,
                  overlapped, missed, cleared, stray, inputs>>
    BY DEF dart, history
<1>3. requests \in Seq(Message) /\ replies \in Seq(Message)
    BY <1>1 DEF TypeOK
<1>4. UNCHANGED task /\ UNCHANGED <<task, textureId, overlapped>> /\ UNCHANGED <<task, replies>>
    BY <1>2
<1>5. /\ Head(requests) \in Message /\ Head(requests).op # "error" /\ Waits(Head(requests))
      /\ \A i \in 1..Len(replies) : Head(requests).task # replies[i].task
      /\ \A i \in 1..Len(requests') :
           /\ requests'[i].op # "error" /\ task'[requests'[i].task].at = Awaited(requests'[i].op)
           /\ requests'[i].task \in Task /\ requests'[i].task # Head(requests).task
           /\ work.task # requests'[i].task
           /\ \A j \in 1..Len(requests') : requests'[i].task = requests'[j].task => i = j
           /\ \A j \in 1..Len(replies) : requests'[i].task # replies[j].task
    BY <1>1, <1>4, RequestTaken, Zenon
<1>6. /\ SingleInv'
      /\ ~overlapped /\ Head(requests).op = "createTexture" =>
            \A i \in 1..Len(requests') : requests'[i].op # "releaseTexture"
      /\ Head(requests).texture \in IF Head(requests).op = "releaseTexture" THEN created ELSE {NoTexture}
      /\ \A i \in 1..Len(requests') :
            requests'[i].texture \in IF requests'[i].op = "releaseTexture" THEN created ELSE {NoTexture}
    BY <1>1, <1>4, RequestsInOrder, Zenon
<1>7. /\ work'.op = Head(requests).op /\ work'.task = Head(requests).task /\ work'.texture = t
      /\ work.op = "none" /\ work.texture = NoTexture
    BY DEF NoWork
<1>8. call'["platform"] = [op |-> "set_preview_surface", device |-> Camera, surface |-> s]
      /\ call'["dart"] = call["dart"] /\ call'["worker"] = call["worker"]
    BY <1>1 DEF TypeOK
<1>9. Head(requests).op \in {"createTexture", "releaseTexture"} /\ Head(requests).task \in Task
    BY <1>5 DEF Message
<1>10. call'["platform"] \in Native!Operation /\ call'["platform"] # NoCall
  <2>1. s \in Texture \cup {NoTexture}
    OBVIOUS
  <2>2. [op |-> "set_preview_surface", device |-> Camera, surface |-> s] \in Native!Operation
    BY <2>1 DEF Native!Operation
  <2>. QED BY <1>8, <2>2, NoCallAssumption
<1>11. created \subseteq created' /\ producers \subseteq producers' /\ available \subseteq available' /\ t \in created'
    BY <1>6, <1>9
<1>12. TypeOK'
  <2>1. requests' \in Seq(Message)
    BY <1>3, Received
  <2>2. call' \in [{"dart", "worker", "platform"} -> Native!Operation \cup {NoCall}]
    BY <1>1, <1>8, <1>10 DEF TypeOK
  <2>3. producers' \in SUBSET Texture /\ available' \in SUBSET producers' /\ created' \in SUBSET Texture
    BY <1>1 DEF TypeOK
  <2>4. work' \in [op : {"createTexture", "releaseTexture", "surface"}, task : Task \cup {NoTask}, texture : Texture]
    BY <1>9
  <2>. QED BY <1>1, <1>2, <2>1, <2>2, <2>3, <2>4 DEF TypeOK
<1>13. CallInv'
  <2>1. s = Current'
    BY <1>7 DEF Current
  <2>. QED BY <1>1, <1>7, <1>8, <1>9, <2>1 DEF CallInv, Asks
<1>14. StageInv'
  <2>1. controller # "none"
    BY <1>1, <1>5, <1>9 DEF StageInv, Waits, Awaited
  <2>. QED BY <1>1, <1>2, <2>1 DEF StageInv
<1>15. ChannelInv'
    BY <1>1, <1>4, <1>7, WorkBegins
<1>16. NameInv'
  <2>1. \A i \in 1..Len(replies) :
        /\ replies[i].op = "createTexture" => replies[i].texture \in created'
        /\ replies[i].op = "releaseTexture" => replies[i].texture \in created' \ producers'
        /\ replies[i].op = "error" => replies[i].texture = NoTexture
    BY <1>1, <1>11 DEF NameInv
  <2>2. \A i \in 1..Len(requests') :
            requests'[i].texture \in IF requests'[i].op = "releaseTexture" THEN created' ELSE {NoTexture}
    BY <1>6, <1>11
  <2>3. producers' \subseteq created' /\ textureId' \in created' \cup {NoTexture}
    BY <1>1, <1>2, <1>11 DEF NameInv
  <2>4. work'.op = "createTexture" => work'.texture \in available'
    BY <1>7
  <2>5. stray' \subseteq created'
    BY <1>1, <1>2, <1>11 DEF NameInv
  <2>. QED BY <1>2, <1>7, <1>9, <1>11, <2>1, <2>2, <2>3, <2>4, <2>5 DEF NameInv
<1>17. OwnerInv'
  <2>. SUFFICES ASSUME ~overlapped PROVE \A u \in producers' \ stray : Named(u)' /\ \A v \in Texture : Named(v)' => v = u
    BY <1>2 DEF OwnerInv
  <2>1. \A u \in Texture : Named(u)' <=>
            u = textureId \/ u = t \/ (\E i \in 1..Len(requests') : u = requests'[i].texture) \/ Brought(replies, u)
    BY <1>2, <1>7, <1>9 DEF Named
  <2>2. \A u \in Texture : Named(u) <=>
            \/ u = textureId \/ u = Head(requests).texture
            \/ (\E i \in 1..Len(requests') : u = requests'[i].texture) \/ Brought(replies, u)
    BY <1>1, <1>7, NoTextureAssumption, NamesTaken DEF Named
  <2>3. CASE Head(requests).op = "createTexture"
    <3>1. Creating(Head(requests).task)
      BY <1>5, <2>3 DEF Waits, Awaited, Creating
    <3>2. textureId = NoTexture /\ \A k \in Task : Creating(k) => k = Head(requests).task
      BY <1>1, <1>9, <3>1 DEF SingleInv
    <3>3. \A u \in Texture : ~ \E i \in 1..Len(requests') : u = requests'[i].texture
      BY <1>6, <2>3, NoTextureAssumption
    <3>4. \A u \in Texture : ~Brought(replies, u)
      <4>1. \A i \in 1..Len(replies) : replies[i].op # "createTexture"
        BY <1>1, <1>3, <1>5, <3>2, Element DEF ChannelInv, Waits, Awaited, Creating
      <4>. QED BY <4>1 DEF Brought
    <3>5. \A u \in Texture : ~Named(u)
      BY <1>6, <2>2, <2>3, <3>2, <3>3, <3>4, NoTextureAssumption
    <3>6. \A u \in Texture : Named(u)' <=> u = t
      BY <2>1, <3>2, <3>3, <3>4, NoTextureAssumption
    <3>7. producers' \ stray \subseteq {t}
      BY <1>1, <2>3, <3>5 DEF OwnerInv, TypeOK
    <3>. QED BY <3>6, <3>7
  <2>4. CASE Head(requests).op = "releaseTexture"
    <3>1. t = Head(requests).texture /\ producers' = producers
      BY <2>4
    <3>2. \A u \in Texture : Named(u)' <=> Named(u)
      BY <2>1, <2>2, <3>1
    <3>. QED BY <1>1, <3>1, <3>2 DEF OwnerInv, TypeOK
  <2>. QED BY <1>9, <2>3, <2>4
<1>18. SurfaceInv'
    BY <1>10 DEF SurfaceInv
<1>19. WidgetInv'
    BY <1>1, <1>2 DEF WidgetInv
<1>. QED BY <1>6, <1>12, <1>13, <1>14, <1>15, <1>16, <1>17, <1>18, <1>19 DEF IInv

\* The platform thread takes a request.
LEMMA MethodCallStep == ASSUME IInv, OnMethodCall PROVE IInv'
<1>1. TypeOK /\ NameInv /\ ChannelInv /\ SingleInv
    BY DEF IInv
<1>2. PICK m : m = Head(requests)
    OBVIOUS
<1>3. /\ work = NoWork /\ requests # << >> /\ requests' = Tail(requests)
      /\ \/ m.op = "createTexture" /\ createTexture(m.task) /\ UNCHANGED <<replies, stray>>
         \/ m.op = "createTexture" /\ createFails(m.task)
         \/ m.op = "releaseTexture" /\ releaseTexture(m.task, m.texture) /\ UNCHANGED <<replies, stray>>
      /\ UNCHANGED <<dart, overlapped, missed, cleared, inputs>>
    BY <1>2 DEF OnMethodCall
<1>4. CASE m.op = "createTexture" /\ createFails(m.task)
    BY <1>2, <1>3, <1>4, CreateFailsStep
<1>5. CASE m.op = "createTexture" /\ createTexture(m.task) /\ UNCHANGED <<replies, stray>>
  <2>1. PICK t : t = FreshTexture
    OBVIOUS
  <2>2. t \in Texture /\ t \notin created
    BY <1>1, <1>5, <2>1 DEF createTexture, FreshTexture, TypeOK
  <2>3. /\ created' = created \cup {t} /\ producers' = producers \cup {t} /\ available' = available \cup {t}
        /\ nativeSetSurface(t) /\ work' = Work("createTexture", m.task, t)
    BY <1>5, <2>1 DEF createTexture
  <2>4. /\ call' = [call EXCEPT !["platform"] = [op |-> "set_preview_surface", device |-> Camera, surface |-> t]]
        /\ UNCHANGED <<present, streaming, shown>>
    BY <2>3 DEF nativeSetSurface, Invoke, Native!Invoke
  <2>5. work' = [op |-> Head(requests).op, task |-> Head(requests).task, texture |-> t]
    BY <1>2, <1>5, <2>3 DEF Work
  <2>6. UNCHANGED <<dart, replies, history, inputs, present, streaming, shown>>
    BY <1>3, <1>5, <2>4 DEF history
  <2>. QED BY <1>2, <1>3, <1>5, <2>2, <2>3, <2>4, <2>5, <2>6, WorkStep
<1>6. CASE m.op = "releaseTexture" /\ releaseTexture(m.task, m.texture) /\ UNCHANGED <<replies, stray>>
  <2>1. UNCHANGED <<task, textureId, overlapped>>
    BY <1>3 DEF dart
  <2>2. m.texture \in Texture
    <3>1. Head(requests).texture \in IF Head(requests).op = "releaseTexture" THEN created ELSE {NoTexture}
      BY <1>1, <1>3, <2>1, RequestsInOrder
    <3>. QED BY <1>1, <1>2, <1>6, <3>1 DEF TypeOK
  <2>3. /\ nativeSetSurface(NoTexture) /\ work' = Work("releaseTexture", m.task, m.texture)
        /\ UNCHANGED <<producers, available, created>>
    BY <1>6 DEF releaseTexture
  <2>4. /\ call' = [call EXCEPT !["platform"] = [op |-> "set_preview_surface", device |-> Camera, surface |-> NoTexture]]
        /\ UNCHANGED <<present, streaming, shown>>
    BY <2>3 DEF nativeSetSurface, Invoke, Native!Invoke
  <2>5. work' = [op |-> Head(requests).op, task |-> Head(requests).task, texture |-> m.texture]
    BY <1>2, <1>6, <2>3 DEF Work
  <2>6. UNCHANGED <<dart, replies, history, inputs, present, streaming, shown>> /\ UNCHANGED <<created, producers, available>>
    BY <1>3, <1>6, <2>3, <2>4 DEF history
  <2>. QED BY <1>2, <1>3, <1>6, <2>2, <2>4, <2>5, <2>6, WorkStep
<1>. QED BY <1>3, <1>4, <1>5, <1>6

\* The platform thread has done its work, and answers the handler that waits for it.
LEMMA FinishWorkStep == ASSUME IInv, FinishWork PROVE IInv'
<1>1. TypeOK /\ CallInv /\ StageInv /\ ChannelInv /\ NameInv /\ SingleInv /\ OwnerInv /\ SurfaceInv /\ WidgetInv
    BY DEF IInv
<1>2. UNCHANGED <<call, present, streaming, shown, controller, textureId, view, widget, app, task, starts, requests,
                  created, overlapped, missed, cleared, stray, inputs>>
    BY DEF FinishWork, native, dart, history
<1>3. /\ work.op # "none" /\ call["platform"] = NoCall
      /\ replies' = (IF work.op = "surface" THEN replies ELSE Append(replies, work))
      /\ producers' = producers \ IF work.op = "releaseTexture" THEN {work.texture} ELSE {}
      /\ available' = available \cap producers'
      /\ work' = NoWork
    BY DEF FinishWork
<1>4. work'.op = "none" /\ work'.task = NoTask /\ work'.texture = NoTexture
    BY <1>3 DEF NoWork
<1>5. work.op \in {"createTexture", "releaseTexture", "surface"} /\ work.texture \in Texture
    BY <1>1, <1>3 DEF TypeOK, NoWork
<1>6. requests \in Seq(Message) /\ replies \in Seq(Message)
    BY <1>1 DEF TypeOK
<1>7. /\ \A i \in 1..Len(requests) : requests[i].task # NoTask
      /\ \A i \in 1..Len(replies) : replies[i].task # NoTask
    BY <1>6, Element, NoTaskAssumption
<1>8. work.op # "surface" => work \in Message /\ work.task \in Task
    BY <1>1, <1>5 DEF TypeOK, ChannelInv, NoWork, Message
<1>9. CallInv'
    BY <1>1, <1>2, <1>3 DEF CallInv, Asks
<1>10. StageInv'
    BY <1>1, <1>2 DEF StageInv
<1>11. SingleInv'
    BY <1>1, <1>2 DEF SingleInv, Creating
<1>12. WidgetInv'
    BY <1>1, <1>2 DEF WidgetInv
<1>13. SurfaceInv'
  <2>1. CASE work.op = "releaseTexture"
    <3>1. Named(work.texture)
      BY <2>1 DEF Named
    <3>2. ~overlapped /\ stray = {} => available' = {}
      BY <1>1, <1>3, <1>5, <2>1, <3>1 DEF OwnerInv, TypeOK
    <3>. QED BY <1>1, <1>2, <1>3, <1>4, <2>1, <3>2 DEF SurfaceInv
  <2>2. CASE work.op # "releaseTexture"
    <3>1. available' = available
      BY <1>1, <1>3, <2>2 DEF TypeOK
    <3>. QED BY <1>1, <1>2, <1>3, <1>4, <2>2, <3>1 DEF SurfaceInv
  <2>. QED BY <2>1, <2>2
<1>14. CASE work.op = "surface"
  <2>1. replies' = replies /\ producers' = producers /\ available' = available
    BY <1>1, <1>3, <1>14 DEF TypeOK
  <2>2. TypeOK'
    BY <1>1, <1>2, <1>3, <2>1 DEF TypeOK
  <2>3. ChannelInv'
    BY <1>1, <1>2, <1>4, <1>7, <2>1 DEF ChannelInv, Waits
  <2>4. NameInv'
    BY <1>1, <1>2, <1>4, <2>1 DEF NameInv
  <2>5. OwnerInv'
    <3>1. \A t \in Texture : Named(t)' <=> Named(t)
      BY <1>2, <1>4, <1>14, <2>1, NoTextureAssumption DEF Named, Brought
    <3>. QED BY <1>1, <1>2, <2>1, <3>1 DEF OwnerInv, TypeOK
  <2>. QED BY <1>9, <1>10, <1>11, <1>12, <1>13, <2>2, <2>3, <2>4, <2>5 DEF IInv
<1>15. CASE work.op # "surface"
  <2>1. replies' = Append(replies, work) /\ UNCHANGED task
    BY <1>2, <1>3, <1>15
  <2>2. Waits(work) /\ \A i \in 1..Len(replies) : work.task # replies[i].task
    BY <1>1, <1>5, <1>15 DEF ChannelInv
  <2>3. /\ replies' \in Seq(Message)
        /\ \A i \in 1..Len(replies') :
             /\ task'[replies'[i].task].at = Awaited(replies'[i].op)
             /\ \A j \in 1..Len(replies') : replies'[i].task = replies'[j].task => i = j
             /\ replies'[i] = work \/ \E j \in 1..Len(replies) : replies'[i] = replies[j]
    BY <1>1, <1>8, <1>15, <2>1, <2>2, ReplySent
  <2>4. TypeOK'
    <3>1. producers' \in SUBSET Texture /\ available' \in SUBSET producers'
      BY <1>1, <1>3 DEF TypeOK
    <3>. QED BY <1>1, <1>2, <1>3, <2>3, <3>1 DEF TypeOK
  <2>5. ChannelInv'
    <3>1. \A i \in 1..Len(requests) : \A j \in 1..Len(replies') : requests[i].task # replies'[j].task
      <4>. TAKE i \in 1..Len(requests)
      <4>. TAKE j \in 1..Len(replies')
      <4>1. requests[i].task # work.task /\ \A n \in 1..Len(replies) : requests[i].task # replies[n].task
        BY <1>1 DEF ChannelInv
      <4>2. replies'[j] = work \/ \E n \in 1..Len(replies) : replies'[j] = replies[n]
        BY <2>3
      <4>. QED BY <4>1, <4>2
    <3>2. \A i \in 1..Len(requests) :
          /\ requests[i].op # "error" /\ task[requests[i].task].at = Awaited(requests[i].op)
          /\ \A j \in 1..Len(requests) : requests[i].task = requests[j].task => i = j
      BY <1>1 DEF ChannelInv, Waits
    <3>3. \A i \in 1..Len(replies') :
          /\ task'[replies'[i].task].at = Awaited(replies'[i].op)
          /\ NoTask # replies'[i].task
          /\ \A j \in 1..Len(replies') : replies'[i].task = replies'[j].task => i = j
      BY <2>3, Element, NoTaskAssumption
    <3>. QED BY <1>2, <1>4, <1>7, <3>1, <3>2, <3>3 DEF ChannelInv, Waits
  <2>6. NameInv'
    <3>1. \A i \in 1..Len(replies') :
          /\ replies'[i].op = "createTexture" => replies'[i].texture \in created
          /\ replies'[i].op = "releaseTexture" => replies'[i].texture \in created \ producers'
          /\ replies'[i].op = "error" => replies'[i].texture = NoTexture
      <4>. TAKE i \in 1..Len(replies')
      <4>1. CASE replies'[i] = work
        BY <1>1, <1>3, <1>5, <4>1, NoTextureAssumption DEF NameInv
      <4>2. CASE \E j \in 1..Len(replies) : replies'[i] = replies[j]
        BY <1>1, <1>3, <4>2 DEF NameInv
      <4>. QED BY <2>3, <4>1, <4>2
    <3>2. producers' \subseteq created
      BY <1>1, <1>3 DEF NameInv
    <3>. QED BY <1>1, <1>2, <1>4, <3>1, <3>2 DEF NameInv
  <2>7. OwnerInv'
    <3>1. \A u \in Texture : Brought(replies', u)
              <=> (u = work.texture /\ work.op = "createTexture") \/ Brought(replies, u)
      BY <1>1, <1>8, <1>15, <2>1, NamesSent
    <3>2. \A u \in Texture : Named(u)' <=>
              \/ u = textureId \/ (\E i \in 1..Len(requests) : u = requests[i].texture)
              \/ (u = work.texture /\ work.op = "createTexture") \/ Brought(replies, u)
      BY <1>2, <1>4, <3>1, NoTextureAssumption DEF Named
    <3>3. \A u \in Texture : Named(u)' => Named(u)
      BY <1>15, <3>2 DEF Named
    <3>4. \A t \in producers' : t \in producers /\ (t = work.texture => work.op = "createTexture")
      BY <1>3, <1>5, <1>15
    <3>5. \A t \in producers' : t \in Texture /\ (Named(t) => Named(t)')
      BY <1>1, <3>2, <3>4 DEF Named, TypeOK
    <3>. QED BY <1>1, <1>2, <3>3, <3>4, <3>5 DEF OwnerInv
  <2>. QED BY <1>9, <1>10, <1>11, <1>12, <1>13, <2>4, <2>5, <2>6, <2>7 DEF IInv
<1>. QED BY <1>14, <1>15

\* A surface callback runs: the surface of a producer comes or goes, and native code is
\* called with it or with none.
LEMMA CallbackStep ==
    ASSUME IInv, NEW t \in Texture, NEW s, work = NoWork, t \in producers,
           work' = Work("surface", NoTask, t), nativeSetSurface(s), inputs' \in 0..MaxInputs,
           UNCHANGED <<dart, channel, producers, created, history>>,
           \/ available' = available \cup {t} /\ s = t
           \/ available' = available \ {t} /\ s = NoTexture
    PROVE  IInv'
<1>1. TypeOK /\ CallInv /\ StageInv /\ ChannelInv /\ NameInv /\ SingleInv /\ OwnerInv /\ SurfaceInv /\ WidgetInv
    BY DEF IInv
<1>2. UNCHANGED <<controller, textureId, view, widget, app, task, starts, requests, replies, producers, created,
                  overlapped, missed, cleared, stray>>
    BY DEF dart, channel, history
<1>3. /\ call' = [call EXCEPT !["platform"] = [op |-> "set_preview_surface", device |-> Camera, surface |-> s]]
      /\ UNCHANGED <<present, streaming, shown>>
    BY DEF nativeSetSurface, Invoke, Native!Invoke
<1>4. call'["platform"] = [op |-> "set_preview_surface", device |-> Camera, surface |-> s]
      /\ call'["dart"] = call["dart"] /\ call'["worker"] = call["worker"]
    BY <1>1, <1>3 DEF TypeOK
<1>5. [op |-> "set_preview_surface", device |-> Camera, surface |-> s] \in Native!Operation
    BY DEF Native!Operation
<1>6. call'["platform"] \in Native!Operation /\ call'["platform"] # NoCall
    BY <1>4, <1>5, NoCallAssumption
<1>7. /\ work'.op = "surface" /\ work'.task = NoTask /\ work'.texture = t
      /\ work.op = "none" /\ work.task = NoTask /\ work.texture = NoTexture
    BY DEF Work, NoWork
<1>8. TypeOK'
  <2>1. call' \in [{"dart", "worker", "platform"} -> Native!Operation \cup {NoCall}]
    BY <1>1, <1>4, <1>6, <1>3 DEF TypeOK
  <2>2. work' \in [op : {"createTexture", "releaseTexture", "surface"}, task : Task \cup {NoTask}, texture : Texture]
    BY DEF Work
  <2>3. available' \in SUBSET producers'
    BY <1>1, <1>2 DEF TypeOK
  <2>. QED BY <1>1, <1>2, <1>3, <2>1, <2>2, <2>3 DEF TypeOK
<1>9. CallInv'
  <2>1. s = Current'
    BY <1>7 DEF Current
  <2>. QED BY <1>1, <1>4, <1>7, <2>1 DEF CallInv, Asks
<1>10. StageInv'
    BY <1>1, <1>2, <1>3 DEF StageInv
<1>11. ChannelInv'
    BY <1>1, <1>2, <1>7 DEF ChannelInv, Waits
<1>12. NameInv'
    BY <1>1, <1>2, <1>7 DEF NameInv
<1>13. SingleInv' /\ WidgetInv'
    BY <1>1, <1>2 DEF SingleInv, WidgetInv, Creating
<1>14. OwnerInv'
  <2>1. \A u \in Texture : Named(u)' <=> Named(u)
    BY <1>2, <1>7, NoTextureAssumption DEF Named, Brought
  <2>. QED BY <1>1, <1>2, <2>1 DEF OwnerInv, TypeOK
<1>15. SurfaceInv'
    BY <1>6 DEF SurfaceInv
<1>. QED BY <1>8, <1>9, <1>10, <1>11, <1>12, <1>13, <1>14, <1>15 DEF IInv

\* onSurfaceAvailable and onSurfaceDestroyed.
LEMMA SurfacesStep == ASSUME IInv, NEW t \in Texture, SurfaceStep(t) PROVE IInv'
<1>1. TypeOK
    BY DEF IInv
<1>2. CASE onSurfaceAvailable(t)
  <2>1. /\ work = NoWork /\ t \in producers /\ available' = available \cup {t} /\ nativeSetSurface(t)
        /\ work' = Work("surface", NoTask, t) /\ Input
        /\ UNCHANGED <<dart, channel, producers, created, history>>
    BY <1>2 DEF onSurfaceAvailable
  <2>2. inputs' \in 0..MaxInputs
    BY <1>1, <2>1, InputsAssumption DEF Input, TypeOK
  <2>. QED BY <2>1, <2>2, CallbackStep
<1>3. CASE onSurfaceDestroyed(t)
  <2>1. /\ work = NoWork /\ t \in producers /\ available' = available \ {t} /\ nativeSetSurface(NoTexture)
        /\ work' = Work("surface", NoTask, t) /\ Input
        /\ UNCHANGED <<dart, channel, producers, created, history>>
    BY <1>1, <1>3 DEF onSurfaceDestroyed, TypeOK
  <2>2. inputs' \in 0..MaxInputs
    BY <1>1, <2>1, InputsAssumption DEF Input, TypeOK
  <2>. QED BY <2>1, <2>2, CallbackStep
<1>. QED BY <1>2, <1>3 DEF SurfaceStep

\* All producers are released.
LEMMA ReleaseAllStep == ASSUME IInv, releaseTextureAll PROVE IInv'
<1>1. TypeOK /\ CallInv /\ StageInv /\ ChannelInv /\ NameInv /\ SingleInv /\ OwnerInv /\ SurfaceInv /\ WidgetInv
    BY DEF IInv
<1>2. UNCHANGED <<call, present, streaming, shown, controller, textureId, view, widget, app, task, starts, requests,
                  replies, created, work, overlapped, missed, stray>>
    BY DEF releaseTextureAll, native, dart, channel
<1>3. producers' = {} /\ available' = {} /\ cleared' /\ work = NoWork /\ cleared' \in BOOLEAN
    BY DEF releaseTextureAll
<1>4. inputs' \in 0..MaxInputs
    BY <1>1, InputsAssumption DEF releaseTextureAll, Input, TypeOK
<1>5. work.op = "none"
    BY <1>3 DEF NoWork
<1>6. TypeOK'
    BY <1>1, <1>2, <1>3, <1>4 DEF TypeOK
<1>7. CallInv'
    BY <1>1, <1>2, <1>5 DEF CallInv, Asks
<1>8. StageInv' /\ ChannelInv' /\ SingleInv' /\ WidgetInv'
  <2>1. StageInv' /\ SingleInv' /\ WidgetInv'
    BY <1>1, <1>2 DEF StageInv, SingleInv, WidgetInv, Creating
  <2>2. ChannelInv'
    BY <1>1, <1>2 DEF ChannelInv, Waits
  <2>. QED BY <2>1, <2>2
<1>9. NameInv'
    BY <1>1, <1>2, <1>3, <1>5 DEF NameInv
<1>10. OwnerInv' /\ SurfaceInv'
    BY <1>2, <1>3 DEF OwnerInv, SurfaceInv
<1>. QED BY <1>6, <1>7, <1>8, <1>9, <1>10 DEF IInv

-----------------------------------------------------------------------------
(* The native plugin.                                                      *)

\* Calls, and what they do to the camera, leave Dart and Kotlin alone.
LEMMA NativeRest ==
    ASSUME IInv, UNCHANGED <<textureId, view, widget, app, task, requests, replies, producers, available, created,
                             work, overlapped, cleared, stray>>,
           controller' = "attached" => controller = "attached" \/ view = "none",
           controller' = "none" => controller = "none",
           controller = "detached" => controller' = "detached",
           controller' = "attached" => present' = {Camera}
    PROVE  StageInv' /\ ChannelInv' /\ NameInv' /\ SingleInv' /\ OwnerInv' /\ WidgetInv'
<1>1. StageInv /\ ChannelInv /\ NameInv /\ SingleInv /\ OwnerInv /\ WidgetInv
    BY DEF IInv
<1>2. StageInv'
    BY <1>1 DEF StageInv
<1>3. ChannelInv'
    BY <1>1 DEF ChannelInv, Waits
<1>4. NameInv' /\ OwnerInv'
    BY <1>1, NamesRest
<1>5. SingleInv' /\ WidgetInv'
    BY <1>1 DEF SingleInv, WidgetInv, Creating, StageInv
<1>. QED BY <1>2, <1>3, <1>4, <1>5

\* The compute isolate calls start.
LEMMA RunStartStep == ASSUME IInv, RunStart PROVE IInv'
<1>1. TypeOK /\ CallInv /\ StageInv /\ SurfaceInv
    BY DEF IInv
<1>2. UNCHANGED <<controller, textureId, view, widget, app, task, requests, replies, producers, available, created,
                  work, overlapped, missed, cleared, stray, inputs>>
    BY DEF RunStart, channel, kotlin, history
<1>3. /\ call' = [call EXCEPT !["worker"] = [op |-> "start", device |-> Camera, surface |-> NoTexture]]
      /\ UNCHANGED <<present, streaming, shown>>
    BY DEF RunStart, Invoke, Native!Invoke
<1>4. call'["worker"] = [op |-> "start", device |-> Camera, surface |-> NoTexture]
      /\ call'["dart"] = call["dart"] /\ call'["platform"] = call["platform"]
    BY <1>1, <1>3 DEF TypeOK
<1>5. TypeOK'
  <2>1. [op |-> "start", device |-> Camera, surface |-> NoTexture] \in Native!Operation
    BY DEF Native!Operation
  <2>2. call' \in [{"dart", "worker", "platform"} -> Native!Operation \cup {NoCall}]
    BY <1>1, <1>3, <2>1 DEF TypeOK
  <2>3. starts' \in Nat
    BY <1>1 DEF RunStart, TypeOK
  <2>. QED BY <1>1, <1>2, <1>3, <2>2, <2>3 DEF TypeOK
<1>6. CallInv'
    BY <1>1, <1>2, <1>4 DEF CallInv, Asks, Current
<1>7. SurfaceInv'
    BY <1>1, <1>2, <1>3, <1>4, SurfacesRest
<1>8. StageInv' /\ ChannelInv' /\ NameInv' /\ SingleInv' /\ OwnerInv' /\ WidgetInv'
    BY <1>1, <1>2, <1>3, NativeRest DEF StageInv
<1>. QED BY <1>5, <1>6, <1>7, <1>8 DEF IInv

\* A call has its effect, or misses it.  Only the platform thread shows surfaces, and
\* missed records when it has not.
LEMMA NativeEffect ==
    ASSUME IInv, NEW t \in {"dart", "worker", "platform"}, NativeStep(t)
    PROVE  /\ call[t] # NoCall /\ call' = [call EXCEPT ![t] = NoCall]
           /\ present' = present /\ streaming' \in SUBSET {Camera} /\ missed' \in BOOLEAN
           /\ (missed => missed')
           /\ shown' = shown \/ (t = "platform" /\ shown' = [shown EXCEPT ![Camera] = Current])
           /\ t = "platform" /\ ~missed' => shown' = [shown EXCEPT ![Camera] = Current]
<1>1. TypeOK /\ CallInv
    BY DEF IInv
<1>2. call[t] # NoCall => call[t].device = Camera
    BY <1>1 DEF CallInv, Asks
<1>3. CASE (Native!Start(t) \/ Native!Stop(t)) /\ UNCHANGED missed
  <2>1. /\ call[t] # NoCall /\ call' = [call EXCEPT ![t] = NoCall] /\ UNCHANGED <<present, shown, missed>>
        /\ call[t].op \in {"start", "stop"}
    BY <1>3 DEF Native!Start, Native!Stop, Native!Take
  <2>2. t # "platform"
    BY <1>1, <2>1 DEF CallInv, Asks
  <2>3. streaming' \in SUBSET {Camera}
    BY <1>1, <1>2, <1>3 DEF Native!Start, Native!Stop, Native!Take, TypeOK
  <2>. QED BY <1>1, <2>1, <2>2, <2>3 DEF TypeOK
<1>4. CASE Native!SetSurface(t) /\ UNCHANGED missed
  <2>1. /\ call[t] # NoCall /\ call' = [call EXCEPT ![t] = NoCall] /\ UNCHANGED <<present, streaming, missed>>
        /\ call[t].op = "set_preview_surface" /\ shown' = [shown EXCEPT ![call[t].device] = call[t].surface]
    BY <1>4 DEF Native!SetSurface, Native!Take
  <2>2. t = "platform"
    BY <1>1, <2>1 DEF CallInv, Asks
  <2>3. call[t].surface = Current
    BY <1>1, <2>1, <2>2 DEF CallInv, Asks
  <2>. QED BY <1>1, <1>2, <2>1, <2>2, <2>3 DEF TypeOK
<1>5. CASE Native!Miss(t) /\ missed' = (missed \/ t = "platform")
  <2>1. call[t] # NoCall /\ call' = [call EXCEPT ![t] = NoCall] /\ UNCHANGED <<present, streaming, shown>>
    BY <1>5 DEF Native!Miss
  <2>2. missed' \in BOOLEAN
    BY <1>1, <1>5 DEF TypeOK
  <2>. QED BY <1>1, <1>5, <2>1, <2>2 DEF TypeOK
<1>. QED BY <1>3, <1>4, <1>5 DEF NativeStep

\* So a call preserves the invariant.
LEMMA CallStep == ASSUME IInv, NEW t \in {"dart", "worker", "platform"}, NativeStep(t) PROVE IInv'
<1>1. TypeOK /\ CallInv /\ StageInv /\ ChannelInv /\ NameInv /\ SingleInv /\ OwnerInv /\ SurfaceInv
    BY DEF IInv
<1>2. UNCHANGED <<controller, textureId, view, widget, app, task, starts, requests, replies, producers, available,
                  created, work, overlapped, cleared, stray, inputs>>
    BY DEF NativeStep, dart, channel, kotlin
<1>3. /\ call[t] # NoCall /\ call' = [call EXCEPT ![t] = NoCall]
      /\ present' = present /\ streaming' \in SUBSET {Camera} /\ missed' \in BOOLEAN
      /\ (missed => missed')
      /\ shown' = shown \/ (t = "platform" /\ shown' = [shown EXCEPT ![Camera] = Current])
      /\ t = "platform" /\ ~missed' => shown' = [shown EXCEPT ![Camera] = Current]
    BY NativeEffect
<1>4. call'[t] = NoCall /\ \A c \in {"dart", "worker", "platform"} : c # t => call'[c] = call[c]
    BY <1>1, <1>3 DEF TypeOK
<1>5. Current \in available \cup {NoTexture} /\ Current \in Texture \cup {NoTexture}
    BY <1>1 DEF Current, TypeOK
<1>6. TypeOK'
  <2>1. call' \in [{"dart", "worker", "platform"} -> Native!Operation \cup {NoCall}]
    BY <1>1, <1>3 DEF TypeOK
  <2>2. shown' \in [{Camera} -> Texture \cup {NoTexture}]
    BY <1>1, <1>3, <1>5 DEF TypeOK
  <2>. QED BY <1>1, <1>2, <1>3, <2>1, <2>2 DEF TypeOK
<1>7. CallInv'
    BY <1>1, <1>2, <1>4 DEF CallInv, Asks, Current
<1>8. SurfaceInv'
  <2>1. CASE t # "platform"
    BY <1>1, <1>2, <1>3, <1>4, <2>1 DEF SurfaceInv
  <2>2. CASE t = "platform" /\ missed'
    BY <2>2 DEF SurfaceInv
  <2>3. CASE t = "platform" /\ ~missed'
    <3>1. shown'[Camera] = Current /\ work.op # "none"
      BY <1>1, <1>3, <2>3 DEF TypeOK, CallInv
    <3>2. work.op = "releaseTexture" => Current = NoTexture
      BY DEF Current
    <3>3. ~overlapped /\ stray = {} /\ work.op # "releaseTexture" => \A u \in available : Current = u
      <4>. SUFFICES ASSUME ~overlapped, stray = {}, work.op # "releaseTexture", NEW u \in available PROVE Current = u
        OBVIOUS
      <4>1. work.op \in {"createTexture", "surface"}
        BY <1>1, <3>1 DEF TypeOK, NoWork
      <4>2. work.texture \in producers /\ u \in producers /\ producers \subseteq Texture
        BY <1>1, <4>1 DEF NameInv, TypeOK
      <4>3. work.texture = u
        BY <1>1, <4>2 DEF OwnerInv
      <4>. QED BY <4>3 DEF Current
    <3>. QED BY <1>2, <1>5, <3>1, <3>2, <3>3 DEF SurfaceInv
  <2>. QED BY <2>1, <2>2, <2>3
<1>9. StageInv' /\ ChannelInv' /\ NameInv' /\ SingleInv' /\ OwnerInv' /\ WidgetInv'
    BY <1>1, <1>2, <1>3, NativeRest DEF StageInv
<1>. QED BY <1>6, <1>7, <1>8, <1>9 DEF IInv

\* The camera is attached.
LEMMA AttachStep == ASSUME IInv, DeviceAttach PROVE IInv'
<1>1. TypeOK /\ CallInv /\ StageInv /\ NameInv /\ SurfaceInv
    BY DEF IInv
<1>2. UNCHANGED <<textureId, view, widget, app, task, starts, requests, replies, producers, available, created,
                  work, overlapped, missed, cleared, stray, inputs>>
    BY DEF DeviceAttach, channel, kotlin, history
<1>3. /\ controller = "none" /\ controller' = "attached"
      /\ present' = present \cup {Camera} /\ UNCHANGED <<call, streaming, shown>>
    BY DEF DeviceAttach, Native!Attach
<1>4. view = "none" /\ available = {} /\ present' = {Camera}
    BY <1>1, <1>3 DEF StageInv, NameInv, TypeOK
<1>5. TypeOK'
    BY <1>1, <1>2, <1>3 DEF TypeOK
<1>6. CallInv'
    BY <1>1, <1>2, <1>3 DEF CallInv, Asks, Current
<1>7. SurfaceInv'
    BY <1>1, <1>2, <1>3, <1>4 DEF SurfaceInv
<1>8. StageInv' /\ ChannelInv' /\ NameInv' /\ SingleInv' /\ OwnerInv' /\ WidgetInv'
    BY <1>2, <1>3, <1>4, NativeRest
<1>. QED BY <1>5, <1>6, <1>7, <1>8 DEF IInv

\* The camera is detached.
LEMMA DetachStep == ASSUME IInv, DeviceDetach PROVE IInv'
<1>1. TypeOK /\ CallInv /\ SurfaceInv
    BY DEF IInv
<1>2. UNCHANGED <<textureId, view, widget, app, task, starts, requests, replies, producers, available, created,
                  work, overlapped, missed, cleared, stray>>
    BY DEF DeviceDetach, channel, kotlin, history
<1>3. /\ controller = "attached" /\ controller' = "gone"
      /\ present' = present \ {Camera} /\ streaming' = streaming \ {Camera}
      /\ shown' = [shown EXCEPT ![Camera] = NoTexture] /\ UNCHANGED call
    BY DEF DeviceDetach, Native!Detach
<1>4. inputs' \in 0..MaxInputs
    BY <1>1, InputsAssumption DEF DeviceDetach, Input, TypeOK
<1>5. TypeOK'
    BY <1>1, <1>2, <1>3, <1>4 DEF TypeOK
<1>6. CallInv'
    BY <1>1, <1>2, <1>3 DEF CallInv, Asks, Current
<1>7. SurfaceInv'
  <2>1. shown'[Camera] = NoTexture
    BY <1>1, <1>3 DEF TypeOK
  <2>. QED BY <1>1, <1>2, <1>3, <2>1 DEF SurfaceInv
<1>8. StageInv' /\ ChannelInv' /\ NameInv' /\ SingleInv' /\ OwnerInv' /\ WidgetInv'
    BY <1>2, <1>3, NativeRest
<1>. QED BY <1>5, <1>6, <1>7, <1>8 DEF IInv

-----------------------------------------------------------------------------
(* The theorems.                                                           *)

\* The invariant holds at first.
LEMMA Initial == ASSUME Init PROVE IInv
<1>. USE DEF Init, Native!Nothing, NoTaskRunning, NoWork
<1>1. TypeOK
  <2>1. 0 \in 0..MaxInputs
    BY InputsAssumption
  <2>2. requests \in Seq(Message) /\ replies \in Seq(Message)
    OBVIOUS
  <2>3. call \in [{"dart", "worker", "platform"} -> Native!Operation \cup {NoCall}]
    OBVIOUS
  <2>4. shown \in [{Camera} -> Texture \cup {NoTexture}]
    OBVIOUS
  <2>5. task \in [Task -> [kind : {"none", "init", "resumed", "paused", "dispose", "detached"},
                           at : {"idle", "size", "create", "stop", "release"}]]
    OBVIOUS
  <2>. QED BY <2>1, <2>2, <2>3, <2>4, <2>5 DEF TypeOK
<1>2. CallInv /\ StageInv
    BY DEF CallInv, Asks, StageInv
<1>3. ChannelInv /\ NameInv
    BY DEF ChannelInv, NameInv
<1>4. SingleInv /\ OwnerInv /\ SurfaceInv /\ WidgetInv
    BY DEF SingleInv, OwnerInv, SurfaceInv, WidgetInv, Creating
<1>. QED BY <1>1, <1>2, <1>3, <1>4 DEF IInv

\* A step that changes nothing preserves it.
LEMMA Stuttering == ASSUME IInv, UNCHANGED vars PROVE IInv'
<1>1. TypeOK /\ CallInv /\ StageInv /\ ChannelInv /\ NameInv /\ SingleInv /\ OwnerInv /\ SurfaceInv /\ WidgetInv
    BY DEF IInv
<1>2. UNCHANGED <<call, present, streaming, shown, controller, textureId, view, widget, app, task, starts, requests,
                  replies, producers, available, created, work, overlapped, missed, cleared, stray, inputs>>
    BY DEF vars, native, dart, channel, kotlin, history
<1>3. TypeOK' /\ CallInv'
    BY <1>1, <1>2 DEF TypeOK, CallInv, Asks, Current
<1>4. SurfaceInv'
    BY <1>1, <1>2 DEF SurfaceInv
<1>5. StageInv' /\ ChannelInv' /\ NameInv' /\ SingleInv' /\ OwnerInv' /\ WidgetInv'
    BY <1>1, <1>2, NativeRest DEF StageInv
<1>. QED BY <1>3, <1>4, <1>5 DEF IInv

\* Every step preserves the invariant.
LEMMA Inductive == IInv /\ [Next]_vars => IInv'
<1>. SUFFICES ASSUME IInv, [Next]_vars PROVE IInv'
    OBVIOUS
<1>1. ASSUME Mount PROVE IInv'
    BY <1>1, MountStep
<1>2. ASSUME Dispose PROVE IInv'
    BY <1>2, DisposeStep
<1>3. ASSUME HandleDetached PROVE IInv'
    BY <1>3, DetachedStep
<1>4. ASSUME HandleReply PROVE IInv'
    BY <1>4, ReplyStep
<1>5. ASSUME NEW state \in {"resumed", "paused"}, ChangeLifecycle(state) PROVE IInv'
    BY <1>5, LifecycleStep
<1>6. ASSUME NEW k \in Task, TaskStep(k) PROVE IInv'
    BY <1>6, SizeKnownStep, StoppedStep DEF TaskStep
<1>7. ASSUME PlatformStep PROVE IInv'
    BY <1>7, MethodCallStep, FinishWorkStep DEF PlatformStep
<1>8. ASSUME releaseTextureAll PROVE IInv'
    BY <1>8, ReleaseAllStep
<1>9. ASSUME NEW t \in Texture, SurfaceStep(t) PROVE IInv'
    BY <1>9, SurfacesStep
<1>10. ASSUME RunStart PROVE IInv'
    BY <1>10, RunStartStep
<1>11. ASSUME DeviceAttach PROVE IInv'
    BY <1>11, AttachStep
<1>12. ASSUME DeviceDetach PROVE IInv'
    BY <1>12, DetachStep
<1>13. ASSUME NEW t \in {"dart", "worker", "platform"}, NativeStep(t) PROVE IInv'
    BY <1>13, CallStep
<1>14. ASSUME UNCHANGED vars PROVE IInv'
    BY <1>14, Stuttering
<1>. QED BY <1>1, <1>2, <1>3, <1>4, <1>5, <1>6, <1>7, <1>8, <1>9, <1>10, <1>11, <1>12, <1>13, <1>14 DEF Next

\* Whatever the handlers, the platform thread, the surfaces and the camera do, the
\* invariant holds.
THEOREM Invariance == Spec => []IInv
<1>1. Init => IInv
    BY Initial
<1>2. IInv /\ [Next]_vars => IInv'
    BY Inductive
<1>. QED BY <1>1, <1>2, PTL DEF Spec

\* Every variable has its type.
THEOREM TypeCorrect == Spec => []TypeOK
<1>1. IInv => TypeOK
    BY DEF IInv
<1>. QED BY <1>1, Invariance, PTL

\* While no nativeSetSurface has missed, the library draws only into surfaces that exist.
THEOREM WindowsAreLive == Spec => []WindowLive
<1>1. IInv => WindowLive
  <2>. SUFFICES ASSUME IInv, work = NoWork, ~missed, ~cleared PROVE shown[Camera] \in available \cup {NoTexture}
    BY DEF WindowLive
  <2>1. work.op = "none"
    BY DEF NoWork
  <2>2. call["platform"] = NoCall
    BY <2>1 DEF IInv, CallInv
  <2>. QED BY <2>1, <2>2 DEF IInv, SurfaceInv
<1>. QED BY <1>1, Invariance, PTL

\* No texture is lost: Dart has its id, or a message or call on its way does.
THEOREM TexturesAreReachable == Spec => []NoLeak
<1>1. IInv => NoLeak
  <2>. SUFFICES ASSUME IInv, ~overlapped, NEW t \in producers \ stray
                PROVE  \/ t = textureId
                       \/ work.texture = t
                       \/ \E i \in 1..Len(replies) : replies[i].texture = t
                       \/ \E i \in 1..Len(requests) : requests[i].texture = t
    BY DEF NoLeak
  <2>1. Named(t)
    BY DEF IInv, OwnerInv
  <2>. QED BY <2>1 DEF Named, Brought
<1>. QED BY <1>1, Invariance, PTL

\* Between handlers a mounted view shows the controller's texture or none.
THEOREM ViewAgrees == Spec => []WidgetAgrees
<1>1. IInv => WidgetAgrees
    BY DEF IInv, WidgetInv, WidgetAgrees
<1>. QED BY <1>1, Invariance, PTL

\* At rest, the texture that Dart shows is the one the library draws into.
THEOREM ShownIsDrawn == Spec => []VideoVisible
<1>1. IInv => VideoVisible
  <2>. SUFFICES ASSUME IInv, work = NoWork, ~missed, ~overlapped, stray = {}, controller = "attached", textureId \in available
                PROVE  shown[Camera] = textureId
    BY DEF VideoVisible, Quiet
  <2>1. work.op = "none"
    BY DEF NoWork
  <2>2. call["platform"] = NoCall
    BY <2>1 DEF IInv, CallInv
  <2>. QED BY <2>1, <2>2 DEF IInv, SurfaceInv
<1>. QED BY <1>1, Invariance, PTL

=============================================================================
