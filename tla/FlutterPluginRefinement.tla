----------------------- MODULE FlutterPluginRefinement -----------------------
(***************************************************************************)
(* FlutterPlugin implements DeviceService: seen by the callers of the C++  *)
(* plugin, each of its steps is one step of the atomic service or none.    *)
(* The proof needs the invariant of FlutterPluginProofs: which step a step *)
(* is depends on who has plugin_lock, and on whose the holders are that a  *)
(* callback or a returning call destroys.                                  *)
(***************************************************************************)
EXTENDS FlutterPluginProofs

\* Calls stay as they are for their callers.
CallsKept ==
    \A t \in Caller :
        /\ Pending(t)' <=> Pending(t)
        /\ Pending(t) => op'[t] = op[t] /\ dev'[t] = dev[t] /\ (t = "platform" => surface' = surface)

\* What callers see of the devices stays as it is.
DevicesKept ==
    /\ pluginJava' = pluginJava
    /\ pluginJava # NoPlugin => \A d \in Device :
        /\ Present(pluginJava, d)' <=> Present(pluginJava, d)
        /\ Present(pluginJava, d) =>
              /\ window'[pluginJava][d] = window[pluginJava][d]
              /\ stream'[pluginJava][d] = holders'[pluginJava][d] <=> stream[pluginJava][d] = holders[pluginJava][d]

\* Then the calls of the service stay.
LEMMA SameCalls == ASSUME CallsKept PROVE Invocations' = Invocations
<1>1. \A t \in Caller : Invoked(t)' = Invoked(t)
    BY DEF CallsKept, Invoked, NoCall
<1>. QED BY <1>1 DEF Invocations

\* Then its devices stay.
LEMMA SameDevices == ASSUME DevicesKept PROVE UNCHANGED <<pluginJava, Reached, Streaming, Shown>>
<1>1. Reached' = Reached
    BY DEF DevicesKept, Reached, Present
<1>2. \A d \in Reached : pluginJava # NoPlugin /\ d \in Device /\ Present(pluginJava, d)
    BY DEF Reached, Present
<1>3. Streaming' = Streaming
    BY <1>1, <1>2 DEF DevicesKept, Streaming
<1>4. Shown' = Shown
    BY <1>1, <1>2 DEF DevicesKept, Shown
<1>. QED BY <1>1, <1>3, <1>4 DEF DevicesKept

\* A step that keeps both is none of the service's.
LEMMA Silent == ASSUME CallsKept, DevicesKept PROVE UNCHANGED Promise!service
    BY SameCalls, SameDevices DEF Promise!service

Implemented == Promise!Next \/ UNCHANGED Promise!service

\* Calls stay as they are when no caller begins or ends one.
LEMMA CallersRest ==
    ASSUME \A t \in Caller : pc'[t] = pc[t] \/ (~Pending(t) /\ pc'[t] \notin CallLabel \cup {"enter"}),
           UNCHANGED op, \A t \in Caller : dev'[t] = dev[t],
           Pending("platform") => UNCHANGED surface
    PROVE  CallsKept
BY DEF CallsKept, Pending

\* Devices stay as they are when nothing of the current object changes.
LEMMA DevicesRest ==
    ASSUME UNCHANGED pluginJava,
           pluginJava # NoPlugin => \A d \in Device : /\ holders'[pluginJava][d] = holders[pluginJava][d]
                                                      /\ stream'[pluginJava][d] = stream[pluginJava][d]
                                                      /\ window'[pluginJava][d] = window[pluginJava][d]
    PROVE  DevicesKept
BY DEF DevicesKept, Present

\* A call that is over is gone from the service.
LEMMA Returned ==
    ASSUME NEW t \in Caller, Pending(t), ~Pending(t)', IInv,
           \A u \in Caller \ {t} : pc'[u] = pc[u], UNCHANGED <<op, dev, surface>>
    PROVE  /\ Invocations[t] = Invoked(t) /\ Invocations[t] # NoCall
           /\ Invocations' = [Invocations EXCEPT ![t] = NoCall]
<1>1. Invocations[t] # NoCall
    BY DEF IInv, ThreadInv, InCall, Pending, Ops, Caller, Invocations, Invoked, NoCall
<1>2. \A u \in Caller : Invoked(u)' = IF u = t THEN NoCall ELSE Invoked(u)
    BY DEF Invoked, NoCall, Pending
<1>3. Invocations' = [Invocations EXCEPT ![t] = NoCall]
    BY <1>2 DEF Invocations
<1>. QED BY <1>1, <1>3 DEF Invocations

\* If it has changed nothing, it has missed.
LEMMA MissMaps ==
    ASSUME NEW t \in Caller, Pending(t), ~Pending(t)', IInv,
           \A u \in Caller \ {t} : pc'[u] = pc[u], UNCHANGED <<op, dev, surface>>, DevicesKept
    PROVE  Promise!Miss(t)
BY Returned, SameDevices DEF Promise!Miss

\* The beginning of a call of Dart or the platform invokes it.
LEMMA CallMaps ==
    ASSUME IInv, NEW t \in Caller, NEW d \in Device, NEW o \in Ops(t), pc[t] = "idle", Request(t, o, d),
           surface' = surface \/ (t = "platform" /\ surface' \in Surface \cup {NoSurface}),
           DevicesKept
    PROVE  Invocations' # Invocations /\ \E v \in Promise!Operation : Promise!Invoke(t, v)
<1>. DEFINE v == Invoked(t)'
<1>1. /\ pc' = [pc EXCEPT ![t] = "enter"] /\ op' = [op EXCEPT ![t] = o] /\ dev' = [dev EXCEPT ![t] = d]
      /\ t \in Thread
    BY DEF Request, Goto, Thread
<1>2. /\ pc'[t] = "enter" /\ op'[t] = o /\ dev'[t] = d
      /\ \A u \in Caller \ {t} : pc'[u] = pc[u] /\ op'[u] = op[u] /\ dev'[u] = dev[u]
    BY <1>1 DEF IInv, TypeOK, Thread
<1>3. v \in Promise!Operation
    BY <1>2 DEF IInv, TypeOK, Invoked, Pending, Promise!Operation
<1>4. Invocations[t] = NoCall
    BY DEF Invocations, Invoked, Pending, CallLabel
<1>5. \A u \in Caller \ {t} : Invoked(u)' = Invoked(u)
    BY <1>2 DEF Invoked, Pending, NoCall
<1>6. Invocations' = [Invocations EXCEPT ![t] = v]
    BY <1>5 DEF Invocations
<1>7. Invocations' # Invocations
  <2>1. v.op # "none"
    BY <1>3 DEF Promise!Operation
  <2>2. Invocations'[t] # Invocations[t]
    BY <1>4, <2>1 DEF Invocations, NoCall
  <2>. QED BY <2>2
<1>. QED BY <1>3, <1>4, <1>6, <1>7, SameDevices DEF Promise!Invoke

-----------------------------------------------------------------------------
(* The steps of a call.                                                    *)

\* A call that finds no plugin object misses; otherwise entering is not seen.
LEMMA EnterMaps == ASSUME IInv, NEW t \in Caller, Enter(t) PROVE Implemented
<1>1. /\ t \in Thread /\ Pending(t)
      /\ UNCHANGED <<pluginJava, holders, stream, window, op, dev, surface>>
    BY DEF Enter, Pending, Thread, objects, library
<1>2. DevicesKept
    BY <1>1, DevicesRest
<1>3. CASE pluginJava = NoPlugin
  <2>1. Goto(t, "leave")
    BY <1>3 DEF Enter
  <2>2. ~Pending(t)' /\ \A u \in Caller \ {t} : pc'[u] = pc[u]
    BY <1>1, <2>1 DEF Goto, Pending, CallLabel, IInv, TypeOK, Thread
  <2>. QED BY <1>1, <1>2, <2>2, MissMaps DEF Implemented, Promise!Next
<1>4. CASE pluginJava # NoPlugin
  <2>1. \E l \in CallLabel : Goto(t, l)
    BY <1>4 DEF Enter, FirstStep, CallLabel
  <2>2. Pending(t)' /\ \A u \in Caller \ {t} : pc'[u] = pc[u]
    BY <1>1, <2>1 DEF Goto, Pending, IInv, TypeOK, Thread
  <2>3. CallsKept
    BY <1>1, <2>2 DEF CallsKept, Pending
  <2>. QED BY <1>2, <2>3, Silent DEF Implemented
<1>. QED BY <1>3, <1>4

\* Looking the holder up is not seen.
LEMMA LookupMaps ==
    ASSUME IInv, NEW t \in Caller, IsAvailable(t) \/ FindHolder(t) \/ LockHolder(t)
    PROVE  Implemented
<1>1. /\ t \in Thread /\ Pending(t) /\ \E l \in CallLabel : Goto(t, l)
      /\ UNCHANGED <<pluginJava, holders, stream, window, op, dev, surface>>
    BY DEF IsAvailable, FindHolder, LockHolder, Pending, CallLabel, Thread, statics, objects, library, locals
<1>2. DevicesKept
    BY <1>1, DevicesRest
<1>3. Pending(t)' /\ \A u \in Caller \ {t} : pc'[u] = pc[u]
    BY <1>1 DEF Goto, Pending, IInv, TypeOK, Thread
<1>4. CallsKept
    BY <1>1, <1>3 DEF CallsKept, Pending
<1>. QED BY <1>2, <1>4, Silent DEF Implemented

\* Whatever a reference that is given up ends, it is not the stream of a holder in the map.
LEMMA DropMaps ==
    ASSUME IInv, NEW t \in Thread, Drop(t), UNCHANGED <<pluginJava, holders, window>>
    PROVE  DevicesKept
<1>1. \A p \in Plugin, d \in Device :
         stream'[p][d] = stream[p][d] \/ (stream'[p][d] = NoHolder /\ stream[p][d] # holders[p][d])
    BY DropRef
<1>. QED BY <1>1 DEF DevicesKept, Present, IInv, TypeOK

\* A surface for a device that is not there is missed; the copy of the pointer is not seen.
LEMMA AvailableMaps == ASSUME IInv, NEW t \in Caller, Available(t) PROVE Implemented
<1>1. /\ t \in Thread /\ Pending(t) /\ Drop(t)
      /\ \E l \in {"find", "leave"} : Goto(t, l)
      /\ UNCHANGED <<pluginJava, holders, window, op, dev, surface>>
    BY DEF Available, Pending, CallLabel, Thread, statics, objects, locals
<1>2. DevicesKept
    BY <1>1, DropMaps
<1>3. pc'[t] \in {"find", "leave"} /\ \A u \in Caller \ {t} : pc'[u] = pc[u]
    BY <1>1 DEF Goto, IInv, TypeOK, Thread
<1>4. CASE pc'[t] = "leave"
  <2>1. ~Pending(t)'
    BY <1>4 DEF Pending, CallLabel
  <2>. QED BY <1>1, <1>2, <1>3, <2>1, MissMaps DEF Implemented, Promise!Next
<1>5. CASE pc'[t] = "find"
  <2>1. CallsKept
    BY <1>1, <1>3, <1>5 DEF CallsKept, Pending, CallLabel
  <2>. QED BY <1>2, <2>1, Silent DEF Implemented
<1>. QED BY <1>3, <1>4, <1>5

\* The return of a call is not seen.
LEMMA LeaveMaps == ASSUME IInv, NEW t \in Caller, Leave(t) PROVE Implemented
<1>1. /\ t \in Thread /\ pc[t] = "leave" /\ Drop(t)
      /\ pc' = [pc EXCEPT ![t] = "idle"] /\ dev' = [dev EXCEPT ![t] = NoDevice] /\ op' = [op EXCEPT ![t] = "none"]
      /\ t = "platform" \/ surface' = surface
      /\ UNCHANGED <<pluginJava, holders, window>>
    BY DEF Leave, Goto, Thread
<1>2. DevicesKept
    BY <1>1, DropMaps
<1>3. CallsKept
    BY <1>1 DEF CallsKept, Pending, CallLabel, IInv, TypeOK, Thread
<1>. QED BY <1>2, <1>3, Silent DEF Implemented

\* The call of the library is the instant of start, stop and set_preview_surface, if the
\* holder it is made on is the one in the map.
LEMMA ActMaps == ASSUME IInv, NEW t \in Caller, Act(t) PROVE Implemented
<1>0. PICK p \in Plugin, d \in Device : p = cur[t] /\ d = dev[t]
    BY DEF Act, IInv, TypeOK, ThreadInv, LockInv, InCall, CallLabel
<1>1. /\ t \in Thread /\ Pending(t) /\ pc' = [pc EXCEPT ![t] = "leave"] /\ p = pluginJava /\ p # NoPlugin
      /\ UNCHANGED <<pluginJava, holders, ref, op, dev, surface>>
    BY <1>0, NonesAssumption DEF Act, Goto, Pending, IInv, LockInv, CallLabel, Thread, statics, objects, locals
<1>2. pc'[t] = "leave" /\ ~Pending(t)' /\ \A u \in Caller \ {t} : pc'[u] = pc[u]
    BY <1>1 DEF IInv, TypeOK, Pending, CallLabel, Thread
<1>3. /\ Invocations[t] # NoCall /\ Invocations[t].device = d
      /\ op[t] \in {"start", "stop", "set_preview_surface"} => Invocations[t].op = op[t]
      /\ op[t] = "set_preview_surface" => Invocations[t].surface = surface
      /\ Invocations' = [Invocations EXCEPT ![t] = NoCall]
  <2>1. Invocations[t] = Invoked(t) /\ Invocations[t] # NoCall /\ Invocations' = [Invocations EXCEPT ![t] = NoCall]
    BY <1>1, <1>2, Returned
  <2>2. op[t] = "set_preview_surface" => t = "platform"
    BY <1>1 DEF IInv, ThreadInv, Pending, InCall, Ops, Caller
  <2>. QED BY <1>0, <1>1, <2>1, <2>2 DEF Invoked
<1>4. DevicesKept => Implemented
    BY <1>1, <1>2, MissMaps DEF Implemented, Promise!Next
<1>5. Reached = {e \in Device : Present(p, e)} /\ Reached' = Reached
    BY <1>1 DEF Reached, Present
<1>6. CASE UNCHANGED library
  <2>1. DevicesKept
    BY <1>1, <1>6, DevicesRest DEF library
  <2>. QED BY <1>4, <2>1
<1>7. ASSUME op[t] \in {"start", "stop"}, NEW g \in {NoHolder, ref[t]}, g # NoHolder <=> op[t] = "start",
             SetStream(p, d, g), UNCHANGED window
      PROVE  Implemented
  <2>1. /\ stream'[p][d] = g
        /\ \A e \in Device \ {d} : stream'[p][e] = stream[p][e]
    BY <1>7 DEF SetStream, IInv, TypeOK
  <2>2. Shown' = Shown
    BY <1>1, <1>5, <1>7 DEF Shown
  <2>3. CASE op[t] = "start" /\ holders[p][d] = g
    <3>1. d \in Reached
        BY <1>5, <1>7, <2>3 DEF Present
    <3>2. Streaming' = Streaming \cup {d}
        BY <1>1, <1>5, <2>1, <2>3, <3>1 DEF Streaming
    <3>. QED BY <1>1, <1>3, <1>5, <2>2, <2>3, <3>1, <3>2 DEF Implemented, Promise!Next, Promise!Start, Promise!Take
  <2>4. CASE op[t] = "start" /\ holders[p][d] # g
    <3>1. home[g] = [plugin |-> p, device |-> d] /\ g \in Holder
        BY <1>0, <1>7, <2>4 DEF IInv, TypeOK, RefInv, Thread
    <3>2. Present(p, d) => stream[p][d] # holders[p][d]
        BY <2>4, <3>1 DEF IInv, NoStaleStop, Present
    <3>3. DevicesKept
        BY <1>1, <1>7, <2>1, <2>4, <3>2 DEF DevicesKept, Present
    <3>. QED BY <1>4, <3>3
  <2>5. CASE op[t] = "stop"
    <3>1. Streaming' = Streaming \ {d}
        BY <1>1, <1>5, <1>7, <2>1, <2>5 DEF Streaming, Present
    <3>. QED BY <1>1, <1>3, <1>5, <2>2, <2>5, <3>1 DEF Implemented, Promise!Next, Promise!Stop, Promise!Take
  <2>. QED BY <1>7, <2>3, <2>4, <2>5
<1>8. ASSUME op[t] = "set_preview_surface", window' = [window EXCEPT ![p][d] = surface], UNCHANGED stream
      PROVE  Implemented
  <2>1. window'[p][d] = surface /\ \A e \in Device \ {d} : window'[p][e] = window[p][e]
    BY <1>8 DEF IInv, TypeOK
  <2>2. CASE d \in Reached
    <3>1. Shown' = [Shown EXCEPT ![d] = surface]
        BY <1>1, <1>5, <2>1, <2>2 DEF Shown
    <3>2. Streaming' = Streaming
        BY <1>1, <1>5, <1>8 DEF Streaming
    <3>. QED BY <1>1, <1>3, <1>5, <1>8, <2>2, <3>1, <3>2 DEF Implemented, Promise!Next, Promise!SetSurface, Promise!Take
  <2>3. CASE d \notin Reached
    <3>1. DevicesKept
        BY <1>1, <1>5, <1>8, <2>1, <2>3 DEF DevicesKept, Present
    <3>. QED BY <1>4, <3>1
  <2>. QED BY <2>2, <2>3
<1>9. CASE Start(t)
    BY <1>0, <1>6, <1>7, <1>9 DEF Start, library
<1>10. CASE Stop(t)
    BY <1>0, <1>6, <1>7, <1>10 DEF Stop, library
<1>11. CASE SetPreviewWindow(t)
    BY <1>0, <1>6, <1>8, <1>11 DEF SetPreviewWindow, library
<1>12. CASE GetDeviceState(t) \/ Query(t)
    BY <1>6, <1>12 DEF GetDeviceState, Query
<1>. QED BY <1>9, <1>10, <1>11, <1>12 DEF Act

-----------------------------------------------------------------------------
(* The steps of a callback.                                                *)

\* What happens to another object is not seen.
LEMMA OthersRest ==
    ASSUME NEW p \in Plugin, p # pluginJava, UNCHANGED pluginJava, pluginJava \in Plugin \cup {NoPlugin},
           \A q \in Plugin \ {p}, d \in Device : /\ holders'[q][d] = holders[q][d]
                                                 /\ stream'[q][d] = stream[q][d]
                                                 /\ window'[q][d] = window[q][d]
    PROVE  DevicesKept
BY DevicesRest

\* The start of a callback, its wait for the lock and its message are not seen.
LEMMA CallbackMaps ==
    ASSUME IInv, NEW p \in Plugin, NEW d \in Device,
           DeviceAttach(p, d) \/ DeviceDetach(p, d) \/ AddLock(p) \/ SendAttached(p)
    PROVE  Implemented
<1>1. /\ p \in Thread /\ p \notin Caller
      /\ \E l \in {"addLock", "remove", "create", "idle"} : pc' = [pc EXCEPT ![p] = l]
      /\ dev' = dev \/ \E e \in Device \cup {NoDevice} : dev' = [dev EXCEPT ![p] = e]
      /\ UNCHANGED <<pluginJava, holders, stream, window, op, surface>>
    BY ThreadAssumption DEF DeviceAttach, DeviceDetach, AddLock, SendAttached, Goto, Thread, statics, objects, library, locals
<1>2. DevicesKept
    BY <1>1, DevicesRest
<1>3. CallsKept
  <2>1. \A t \in Caller : pc'[t] = pc[t] /\ dev'[t] = dev[t]
    BY <1>1 DEF IInv, TypeOK, Thread
  <2>. QED BY <1>1, <2>1, CallersRest
<1>. QED BY <1>2, <1>3, Silent DEF Implemented

\* A device appears when its holder is put into the map of the current object.
LEMMA AddHolderMaps == ASSUME IInv, NEW p \in Plugin, AddHolder(p) PROVE Implemented
<1>0. PICK d \in Device : d = dev[p]
    BY DEF AddHolder, IInv, ThreadInv
<1>1. /\ p \in Thread /\ p \notin Caller /\ pc' = [pc EXCEPT ![p] = "sendAttached"]
      /\ UNCHANGED <<pluginJava, stream, ref, op, surface, dev>>
    BY ThreadAssumption DEF AddHolder, Goto, Thread, statics, locals
<1>2. CallsKept
  <2>1. \A t \in Caller : pc'[t] = pc[t] /\ dev'[t] = dev[t]
    BY <1>1 DEF IInv, TypeOK, Thread
  <2>. QED BY <1>1, <2>1, CallersRest
<1>3. CASE Present(p, d)
  <2>1. UNCHANGED <<holders, window>>
    BY <1>0, <1>3 DEF AddHolder, Present
  <2>2. DevicesKept
    BY <1>1, <2>1, DevicesRest
  <2>. QED BY <1>2, <2>2, Silent DEF Implemented
<1>4. CASE ~Present(p, d)
  <2>1. FreeHolder \in Holder /\ home[FreeHolder] = NoHome
    BY <1>0, <1>4 DEF AddHolder, Present, FreeHolder
  <2>2. PICK h \in Holder : h = FreeHolder
    BY <2>1
  <2>3. /\ home[h] = NoHome /\ holders' = [holders EXCEPT ![p][d] = h]
        /\ home' = [home EXCEPT ![h] = [plugin |-> p, device |-> d]]
        /\ window' = [window EXCEPT ![p][d] = NoSurface]
    BY <1>0, <1>4, <2>1, <2>2 DEF AddHolder, Present
  <2>4. UNCHANGED <<ref, stream>>
    BY <1>1
  <2>5. /\ holders' \in [Plugin -> [Device -> Holder \cup {NoHolder}]]
        /\ home' \in [Holder -> Place \cup {NoHome}]
        /\ holders'[p][d] = h /\ h # NoHolder
        /\ \A q \in Plugin, e \in Device : <<q, e>> # <<p, d>> => holders'[q][e] = holders[q][e]
        /\ \A t \in Thread : ref[t] # NoHolder => home'[ref[t]] = home[ref[t]]
        /\ \A q \in Plugin, e \in Device : stream[q][e] # h
        /\ HolderInv' /\ NoStaleStop'
    BY <1>4, <2>3, <2>4, NewHolder, Zenon
  <2>6. /\ window'[p][d] = NoSurface
        /\ \A q \in Plugin, e \in Device : <<q, e>> # <<p, d>> => window'[q][e] = window[q][e]
    BY <2>3 DEF IInv, TypeOK
  <2>7. CASE p = pluginJava
    <3>1. p # NoPlugin
        BY NonesAssumption DEF Thread
    <3>2. /\ Reached = {e \in Device : Present(p, e)}
          /\ Reached' = {e \in Device : holders'[p][e] # NoHolder}
        BY <1>1, <2>7, <3>1 DEF Reached, Present
    <3>3. d \notin Reached /\ Reached' = Reached \cup {d}
        BY <1>4, <2>5, <3>2 DEF Present
    <3>4. Streaming' = Streaming
        BY <1>1, <2>5, <2>7, <3>2, <3>3 DEF Streaming
    <3>5. Shown' = Shown
        BY <1>1, <2>6, <2>7, <3>2, <3>3 DEF Shown
    <3>. QED BY <1>1, <1>2, <2>7, <3>1, <3>3, <3>4, <3>5, SameCalls DEF Implemented, Promise!Next, Promise!Attach
  <2>8. CASE p # pluginJava
    <3>1. DevicesKept
        BY <1>1, <2>5, <2>6, <2>8, OthersRest DEF IInv, TypeOK
    <3>. QED BY <1>2, <3>1, Silent DEF Implemented
  <2>. QED BY <2>7, <2>8
<1>. QED BY <1>3, <1>4

\* A device goes when its holder is taken out of the map of the current object.
LEMMA RemoveHolderMaps == ASSUME IInv, NEW p \in Plugin, RemoveHolder(p) PROVE Implemented
<1>0. PICK d \in Device : d = dev[p]
    BY DEF RemoveHolder, IInv, ThreadInv
<1>1. /\ p \in Thread /\ p \notin Caller
      /\ \E l \in {"idle", "removeStop"} : pc' = [pc EXCEPT ![p] = l]
      /\ dev' = dev \/ dev' = [dev EXCEPT ![p] = NoDevice]
      /\ holders' = [holders EXCEPT ![p][d] = NoHolder]
      /\ UNCHANGED <<pluginJava, stream, window, op, surface>>
    BY <1>0, ThreadAssumption DEF RemoveHolder, Goto, Thread, statics, library
<1>2. CallsKept
  <2>1. \A t \in Caller : pc'[t] = pc[t] /\ dev'[t] = dev[t]
    BY <1>1 DEF IInv, TypeOK, Thread
  <2>. QED BY <1>1, <2>1, CallersRest
<1>3. /\ holders'[p][d] = NoHolder
      /\ \A q \in Plugin, e \in Device : <<q, e>> # <<p, d>> => holders'[q][e] = holders[q][e]
    BY <1>1 DEF IInv, TypeOK
<1>4. CASE p = pluginJava /\ Present(p, d)
  <2>1. p # NoPlugin
    BY NonesAssumption DEF Thread
  <2>2. /\ Reached = {e \in Device : Present(p, e)}
        /\ Reached' = {e \in Device : holders'[p][e] # NoHolder}
    BY <1>1, <1>4, <2>1 DEF Reached, Present
  <2>3. d \in Reached /\ Reached' = Reached \ {d}
    BY <1>3, <1>4, <2>2 DEF Present
  <2>4. Streaming' = Streaming \ {d}
    BY <1>1, <1>3, <1>4, <2>2, <2>3 DEF Streaming
  <2>5. Shown' = [Shown EXCEPT ![d] = NoSurface]
    BY <1>1, <1>4, <2>2, <2>3 DEF Shown
  <2>. QED BY <1>1, <1>2, <2>3, <2>4, <2>5, SameCalls DEF Implemented, Promise!Next, Promise!Detach
<1>5. CASE p # pluginJava
  <2>1. DevicesKept
    BY <1>1, <1>3, <1>5, OthersRest DEF IInv, TypeOK
  <2>. QED BY <1>2, <2>1, Silent DEF Implemented
<1>6. CASE ~Present(p, d)
  <2>1. \A q \in Plugin, e \in Device : holders'[q][e] = holders[q][e]
    BY <1>3, <1>6 DEF Present
  <2>2. DevicesKept
    BY <1>1, <2>1, DevicesRest DEF IInv, TypeOK
  <2>. QED BY <1>2, <2>2, Silent DEF Implemented
<1>. QED BY <1>4, <1>5, <1>6

\* The stream that the callback stops is one of a device that has gone already.
LEMMA RemoveStopMaps == ASSUME IInv, NEW p \in Plugin, RemoveStop(p) PROVE Implemented
<1>0. PICK d \in Device : d = dev[p]
    BY DEF RemoveStop, IInv, ThreadInv
<1>1. /\ p \in Thread /\ p \notin Caller /\ pc' = [pc EXCEPT ![p] = "sendDetached"] /\ ~Present(p, d)
      /\ stream' = [stream EXCEPT ![p][d] = NoHolder]
      /\ UNCHANGED <<pluginJava, holders, window, op, surface, dev>>
    BY <1>0, ThreadAssumption
    DEF RemoveStop, SetStream, Goto, Thread, statics, objects, locals, IInv, RefInv, Removed
<1>2. CallsKept
  <2>1. \A t \in Caller : pc'[t] = pc[t] /\ dev'[t] = dev[t]
    BY <1>1 DEF IInv, TypeOK, Thread
  <2>. QED BY <1>1, <2>1, CallersRest
<1>3. \A q \in Plugin, e \in Device : <<q, e>> # <<p, d>> => stream'[q][e] = stream[q][e]
    BY <1>1 DEF IInv, TypeOK
<1>4. DevicesKept
    BY <1>1, <1>3 DEF DevicesKept, Present, IInv, TypeOK
<1>. QED BY <1>2, <1>4, Silent DEF Implemented

\* Nor is the message that it has gone, or the end of its holder.
LEMMA SendDetachedMaps == ASSUME IInv, NEW p \in Plugin, SendDetached(p) PROVE Implemented
<1>1. /\ p \in Thread /\ p \notin Caller /\ Drop(p) /\ pc' = [pc EXCEPT ![p] = "idle"]
      /\ dev' = [dev EXCEPT ![p] = NoDevice]
      /\ UNCHANGED <<pluginJava, holders, window, op, surface>>
    BY ThreadAssumption DEF SendDetached, Goto, Thread, statics, objects
<1>2. DevicesKept
    BY <1>1, DropMaps
<1>3. CallsKept
  <2>1. \A t \in Caller : pc'[t] = pc[t] /\ dev'[t] = dev[t]
    BY <1>1 DEF IInv, TypeOK, Thread
  <2>. QED BY <1>1, <2>1, CallersRest
<1>. QED BY <1>2, <1>3, Silent DEF Implemented

-----------------------------------------------------------------------------
(* The steps of nativeInit, nativeRelease, the destructor and Dart.        *)

\* They begin and end no call.
LEMMA PlatformRests ==
    ASSUME IInv, ~Pending("platform"), NEW l \in Label \ (CallLabel \cup {"enter"}),
           pc' = [pc EXCEPT !["platform"] = l], UNCHANGED <<op, dev>>
    PROVE  CallsKept
<1>1. \A t \in Caller : pc'[t] = pc[t] \/ (t = "platform" /\ pc'[t] = l)
    BY DEF IInv, TypeOK, Thread, Caller
<1>. QED BY <1>1, CallersRest

\* The current object is replaced by one that no call has reached, or by none: the service
\* changes over at that instant, not when the destructor is done.
LEMMA ReplaceMaps == ASSUME IInv, Install \/ NativeRelease PROVE Implemented
<1>1. CallsKept
  <2>1. /\ ~Pending("platform") /\ UNCHANGED <<op, dev>>
        /\ \E l \in {"idle", "terminate"} : pc' = [pc EXCEPT !["platform"] = l]
    BY DEF Install, NativeRelease, Goto, Pending, CallLabel
  <2>2. {"idle", "terminate"} \subseteq Label \ (CallLabel \cup {"enter"})
    BY DEF Label, CallLabel
  <2>. QED BY <2>1, <2>2, PlatformRests
<1>2. PICK q \in Plugin \cup {NoPlugin} : q = pluginJava' /\ q # pluginJava
    BY DEF Install, NativeRelease, IInv, LifeInv
<1>3. q # NoPlugin => Fresh(q) /\ UNCHANGED <<holders, stream, window>>
    BY <1>2 DEF Install, NativeRelease, objects, library, IInv, FreshInv
<1>4. Reached' \in IF q = NoPlugin THEN {{}} ELSE SUBSET Device
    BY <1>2 DEF Reached
<1>5. Streaming' = {} /\ Shown' = [d \in Device |-> NoSurface]
  <2>1. CASE q = NoPlugin
    BY <1>4, <2>1 DEF Streaming, Shown
  <2>2. CASE q # NoPlugin
    <3>1. \A d \in Reached' : d \in Device /\ holders[q][d] # NoHolder
        BY <1>2, <1>3, <2>2 DEF Reached
    <3>2. \A d \in Device : stream'[q][d] = NoHolder /\ window'[q][d] = NoSurface /\ holders'[q][d] = holders[q][d]
        BY <1>3, <2>2 DEF Fresh
    <3>. QED BY <1>2, <3>1, <3>2 DEF Streaming, Shown
  <2>. QED BY <2>1, <2>2
<1>6. Promise!Replace(q)
    BY <1>1, <1>2, <1>4, <1>5, SameCalls DEF Promise!Replace, Promise!Nothing
<1>. QED BY <1>6 DEF Implemented, Promise!Next

\* The destructor works on an object that no call can reach any more.
LEMMA DestructorMaps == ASSUME IInv, TerminateAll \/ ManagerRelease \/ DestroyMembers PROVE Implemented
<1>0. PICK p \in Plugin : p = cur["platform"] /\ p # pluginJava
    BY DEF TerminateAll, ManagerRelease, DestroyMembers, IInv, LifeInv, Destroying
<1>1. /\ ~Pending("platform") /\ UNCHANGED <<pluginJava, op, dev>>
      /\ \E l \in {"idle", "release", "members"} : pc' = [pc EXCEPT !["platform"] = l]
    BY DEF TerminateAll, ManagerRelease, DestroyMembers, Goto, Pending, CallLabel, statics, locals
<1>2. /\ holders' = holders \/ \E r : holders' = [holders EXCEPT ![p] = r]
      /\ stream' = stream \/ \E r : stream' = [stream EXCEPT ![p] = r]
      /\ window' = window \/ \E r : window' = [window EXCEPT ![p] = r]
    BY <1>0 DEF TerminateAll, ManagerRelease, DestroyMembers, library
<1>3. CallsKept
  <2>1. {"idle", "release", "members"} \subseteq Label \ (CallLabel \cup {"enter"})
    BY DEF Label, CallLabel
  <2>. QED BY <1>1, <2>1, PlatformRests
<1>4. DevicesKept
  <2>1. \A q \in Plugin \ {p}, d \in Device : /\ holders'[q][d] = holders[q][d]
                                              /\ stream'[q][d] = stream[q][d]
                                              /\ window'[q][d] = window[q][d]
    BY <1>2 DEF IInv, TypeOK
  <2>2. pluginJava \in Plugin \cup {NoPlugin}
    BY DEF IInv, TypeOK
  <2>. QED BY <1>0, <1>1, <2>1, <2>2, OthersRest
<1>. QED BY <1>3, <1>4, Silent DEF Implemented

\* A new object is not seen before it is installed, nor is a new isolate.
LEMMA StartMaps == ASSUME IInv, (\E p \in Plugin : NativeInit(p)) \/ DartStart \/ DartExit PROVE Implemented
<1>1. UNCHANGED <<pluginJava, holders, stream, window, op, dev, surface>>
    BY DEF NativeInit, DartStart, DartExit, statics, objects, library, locals
<1>2. DevicesKept
    BY <1>1, DevicesRest
<1>3. CASE DartStart \/ DartExit
  <2>1. UNCHANGED pc
    BY <1>3 DEF DartStart, DartExit
  <2>2. CallsKept
    BY <1>1, <2>1, CallersRest
  <2>. QED BY <1>2, <2>2, Silent DEF Implemented
<1>4. CASE \E p \in Plugin : NativeInit(p)
  <2>1. ~Pending("platform") /\ pc' = [pc EXCEPT !["platform"] = "install"]
    BY <1>4 DEF NativeInit, Goto, Pending, CallLabel
  <2>2. "install" \in Label \ (CallLabel \cup {"enter"})
    BY DEF Label, CallLabel
  <2>3. CallsKept
    BY <1>1, <2>1, <2>2, PlatformRests
  <2>. QED BY <1>2, <2>3, Silent DEF Implemented
<1>. QED BY <1>3, <1>4

\* A call begins.
LEMMA InvokeMaps == ASSUME IInv, NEW t \in Caller, NEW d \in Device, NEW o \in Ops(t), Call(t, o, d) PROVE Implemented
<1>1. /\ pc[t] = "idle" /\ Request(t, o, d)
      /\ surface' = surface \/ (t = "platform" /\ surface' \in Surface \cup {NoSurface})
      /\ UNCHANGED <<pluginJava, holders, stream, window>>
    BY DEF Call, statics, objects, library
<1>2. DevicesKept
    BY <1>1, DevicesRest
<1>. QED BY <1>1, <1>2, CallMaps DEF Implemented, Promise!Next

\* A message is not seen, unless Dart stops the device that has gone.
LEMMA MessageMaps == ASSUME IInv, HandleMessage PROVE Implemented
<1>1. pc["dart"] = "idle" /\ UNCHANGED <<pluginJava, holders, stream, window, surface>>
    BY DEF HandleMessage, statics, objects, library
<1>2. DevicesKept
    BY <1>1, DevicesRest
<1>3. CASE UNCHANGED <<pc, op, dev>>
  <2>1. CallsKept
    BY <1>1, <1>3, CallersRest
  <2>. QED BY <1>2, <2>1, Silent DEF Implemented
<1>4. ASSUME NEW d \in Device, Request("dart", "stop", d) PROVE Implemented
  <2>1. "dart" \in Caller /\ "stop" \in Ops("dart")
    BY DEF Caller, Ops
  <2>. QED BY <1>1, <1>2, <1>4, <2>1, CallMaps DEF Implemented, Promise!Next
<1>5. Head(queue).device \in Device
  <2>1. queue # << >> /\ queue \in Seq([device : Device, attached : BOOLEAN])
    BY DEF HandleMessage, IInv, TypeOK
  <2>2. 1 \in 1..Len(queue)
    BY <2>1
  <2>3. queue[1] \in [device : Device, attached : BOOLEAN]
    BY <2>1, <2>2, Element
  <2>4. Head(queue) = queue[1]
    BY <2>1
  <2>. QED BY <2>3, <2>4
<1>. QED BY <1>3, <1>4, <1>5 DEF HandleMessage

-----------------------------------------------------------------------------
\* The service has no calls and no devices at first.
LEMMA InitialMaps == Init => Promise!Init
<1>. SUFFICES ASSUME Init PROVE Promise!Init
    OBVIOUS
<1>1. \A t \in Caller : ~Pending(t)
    BY DEF Init, Pending, CallLabel, Thread
<1>2. Invocations = [t \in Caller |-> NoCall]
    BY <1>1 DEF Invocations, Invoked
<1>3. Reached = {}
    BY DEF Init, Reached
<1>4. Streaming = {} /\ Shown = [d \in Device |-> NoSurface]
    BY <1>3 DEF Streaming, Shown
<1>. QED BY <1>2, <1>3, <1>4 DEF Init, Promise!Init, Promise!Nothing

\* Each step of the plugin is one of the service, or none.
LEMMA StepMaps == IInv /\ [Next]_vars => [Promise!Next]_(Promise!service)
<1>. SUFFICES ASSUME IInv, [Next]_vars PROVE Implemented
    BY DEF Implemented
<1>1. ASSUME NEW t \in Caller, CallStep(t) PROVE Implemented
    BY <1>1, EnterMaps, LookupMaps, AvailableMaps, ActMaps, LeaveMaps DEF CallStep
<1>2. ASSUME NEW p \in Plugin, CallbackStep(p) PROVE Implemented
  <2>1. ASSUME AddLock(p) \/ SendAttached(p) PROVE Implemented
    <3>1. dev[p] \in Device
        BY <2>1 DEF AddLock, SendAttached, IInv, ThreadInv
    <3>. QED BY <2>1, <3>1, CallbackMaps
  <2>. QED BY <1>2, <2>1, AddHolderMaps, RemoveHolderMaps, RemoveStopMaps, SendDetachedMaps DEF CallbackStep
<1>3. ASSUME NEW t \in Caller, NEW d \in Device, NEW o \in Ops(t), Call(t, o, d) PROVE Implemented
    BY <1>3, InvokeMaps
<1>4. ASSUME DestructorStep PROVE Implemented
    BY <1>4, ReplaceMaps, DestructorMaps DEF DestructorStep
<1>5. ASSUME HandleMessage PROVE Implemented
    BY <1>5, MessageMaps
<1>6. ASSUME Library PROVE Implemented
    BY <1>6, CallbackMaps DEF Library
<1>7. ASSUME Engine PROVE Implemented
    BY <1>7, ReplaceMaps, StartMaps DEF Engine
<1>8. CASE UNCHANGED vars
  <2>1. CallsKept
    BY <1>8, CallersRest DEF vars, locals
  <2>2. DevicesKept
    BY <1>8, DevicesRest DEF vars, statics, objects, library
  <2>. QED BY <2>1, <2>2, Silent DEF Implemented
<1>. QED BY <1>1, <1>2, <1>3, <1>4, <1>5, <1>6, <1>7, <1>8 DEF Next

\* However lookups, try_locks, callbacks and destructors interleave, callers see one atomic
\* step at a time: a call takes effect once and before it returns, or not at all, and
\* nothing ends a stream but a stop, the device going or the plugin going.
THEOREM CallsAreAtomic == Spec => Atomic
<1>1. Init => Promise!Init
    BY InitialMaps
<1>2. IInv /\ [Next]_vars => [Promise!Next]_(Promise!service)
    BY StepMaps
<1>. QED BY <1>1, <1>2, Invariance, PTL DEF Spec, Atomic, Promise!Spec

=============================================================================
