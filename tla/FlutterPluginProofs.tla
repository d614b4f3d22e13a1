------------------------- MODULE FlutterPluginProofs -------------------------
(***************************************************************************)
(* FlutterPlugin is safe, and implements DeviceService, for any number of  *)
(* devices, plugin objects, holders and calls.  The invariant says who has *)
(* which lock, in which part of its life each plugin object is, that every *)
(* live holder is in the map or in the hands of one thread, and that the   *)
(* messages under way and Dart's controllers add up to the map.            *)
(***************************************************************************)
EXTENDS FlutterPlugin, TLAPS

InCall     == CallLabel \cup {"enter", "leave"}
Destroying == {"terminate", "release", "members"}
Callback   == {"addLock", "create", "sendAttached", "remove", "removeStop", "sendDetached"}
Removed    == {"removeStop", "sendDetached"}    \* the holder has left the map, p has it
Present(p, d) == holders[p][d] # NoHolder

\* Where each thread can be, and the arguments of what it is doing.
ThreadInv ==
    /\ \A t \in Caller :
        /\ pc[t] \in InCall \cup Destroying \cup {"idle", "install"}
        /\ pc[t] \in Destroying \cup {"install"} => t = "platform"
        /\ pc[t] \in InCall => dev[t] \in Device /\ op[t] \in Ops(t)
    /\ \A p \in Plugin :
        /\ pc[p] \in Callback \cup {"idle"}
        /\ pc[p] # "idle" => dev[p] \in Device

\* Whoever is inside a call has plugin_lock, and the plugin object it found is still
\* the current one.
LockInv ==
    \A t \in Caller :
        /\ pc[t] \in CallLabel \cup {"leave"} => plugin_lock = t /\ cur[t] = pluginJava
        /\ pc[t] \in CallLabel => pluginJava # NoPlugin

\* No call has reached the object: it has no stream and no surface, though it may have
\* holders already.
Fresh(p) == \A d \in Device : stream[p][d] = NoHolder /\ window[p][d] = NoSurface

\* The current object is alive, and so is the one being installed or destroyed, which is
\* another; no others are.
LifeInv ==
    /\ pluginJava # NoPlugin => life[pluginJava] = "alive"
    /\ served # NoPlugin => life[served] # "unborn"
    /\ pc["platform"] \in Destroying \cup {"install"} => cur["platform"] \in Plugin \ {pluginJava}
    /\ pc["platform"] \in {"install", "terminate"} => life[cur["platform"]] = "alive"
    /\ pc["platform"] = "release" => life[cur["platform"]] = "terminated"
    /\ pc["platform"] = "members" => life[cur["platform"]] = "released"
    /\ \A p \in Plugin :
        /\ pc[p] # "idle" => Alive(p)
        /\ Alive(p) /\ p # pluginJava =>
              pc["platform"] \in Destroying \cup {"install"} /\ cur["platform"] = p
        /\ ~Alive(p) => \A d \in Device : stream[p][d] = NoHolder
        /\ life[p] = "unborn" => Fresh(p)

\* An object is fresh until it is installed; Dart is started on it when the object before
\* is destroyed.
FreshInv ==
    /\ pluginJava # NoPlugin /\ served = pluginJava => pc["platform"] \notin Destroying
    /\ pc["platform"] = "install" => served # cur["platform"] /\ Fresh(cur["platform"])

\* A thread that has a reference has it to a live holder of the device it works on.
RefInv ==
    /\ \A t \in Caller : ref[t] # NoHolder =>
        /\ pc[t] \in {"available", "act", "leave"} /\ cur[t] # NoPlugin
        /\ home[ref[t]] = [plugin |-> cur[t], device |-> dev[t]]
    /\ \A p \in Plugin : ref[p] # NoHolder =>
        /\ pc[p] \in Removed
        /\ home[ref[p]] = [plugin |-> p, device |-> dev[p]]
    /\ \A p \in Plugin : pc[p] \in Removed => ~Present(p, dev[p])

\* A holder is alive as long as the map or a thread refers to it, and no longer; the
\* map and the streams have it under its own device.
Referred(h) == Mapped(h) \/ \E t \in Thread : ref[t] = h
HolderInv ==
    /\ \A p \in Plugin, d \in Device :
        /\ Present(p, d) => home[holders[p][d]] = [plugin |-> p, device |-> d]
        /\ stream[p][d] # NoHolder => home[stream[p][d]] = [plugin |-> p, device |-> d]
    /\ \A h \in Holder : home[h] # NoHome => Referred(h)

\* What Dart will have of a device it was told of, when it has handled its messages, is
\* what is in the map, unless the callback for it is between the map and its message.  Of
\* the others it has nothing.
Between(d) == pc[served] \in {"sendAttached", "removeStop", "sendDetached"} /\ dev[served] = d
Unmentioned(d, n) == \A j \in n + 1..Len(queue) : queue[j].device # d
Told(d) ==
    /\ Unmentioned(d, 0) => (d \in controllers <=> Present(served, d))
    /\ \A i \in 1..Len(queue) :
        queue[i].device = d /\ Unmentioned(d, i) => (queue[i].attached <=> Present(served, d))
ToldInv ==
    /\ served # NoPlugin /\ served = pluginJava /\ pc["platform"] # "install" =>
           \A d \in Device : IF d \in told THEN Between(d) \/ Told(d)
                                          ELSE d \notin controllers /\ Unmentioned(d, 0)
    /\ \A p \in Plugin : pc[p] = "sendAttached" /\ life[p] = "alive" => Present(p, dev[p])

\* Only a call that finds no plugin object answers UNINITIALIZED.
AnswerInv ==
    /\ answer # "DISCONNECTED"
    /\ answer = "UNINITIALIZED" => pc["dart"] = "leave" /\ pluginJava = NoPlugin

IInv ==
    /\ TypeOK /\ ThreadInv /\ LockInv /\ LifeInv /\ FreshInv
    /\ RefInv /\ HolderInv /\ NoStaleStop
    /\ ToldInv /\ AnswerInv

-----------------------------------------------------------------------------
(* Steps that touch neither a holder nor a reference.                      *)

ownership == <<holders, home, ref, stream>>

\* They preserve what is said of holders, if dev and cur stay for whoever has one.
LEMMA Quiet ==
    ASSUME RefInv, HolderInv, NoStaleStop, UNCHANGED ownership,
           \A t \in Caller : ref[t] # NoHolder =>
               pc'[t] \in {"available", "act", "leave"} /\ cur'[t] = cur[t] /\ dev'[t] = dev[t],
           \A p \in Plugin : ref[p] # NoHolder => pc'[p] \in Removed /\ dev'[p] = dev[p],
           \A p \in Plugin : pc'[p] \in Removed => pc[p] \in Removed /\ dev'[p] = dev[p]
    PROVE  RefInv' /\ HolderInv' /\ NoStaleStop'
<1>. USE DEF ownership
<1>1. RefInv'
    BY DEF RefInv, Present
<1>2. HolderInv'
    BY DEF HolderInv, Present, Referred, Mapped
<1>3. NoStaleStop'
    BY DEF NoStaleStop
<1>. QED BY <1>1, <1>2, <1>3

\* A call begins, with its arguments.
LEMMA InvokeStep == ASSUME IInv, NEW t \in Caller, NEW d \in Device, NEW o \in Ops(t), Call(t, o, d) PROVE IInv'
<1>. USE DEF Call, Request, Input, statics, objects, library, dart, Goto
<1>1. TypeOK'
    BY InputAssumption DEF IInv, TypeOK, Label, Ops, Thread, Caller
<1>2. ThreadInv'
    BY ThreadAssumption DEF IInv, TypeOK, ThreadInv, Thread, InCall, CallLabel, Destroying, Callback, Caller
<1>3. LockInv' /\ LifeInv' /\ FreshInv'
    BY ThreadAssumption, NonesAssumption DEF IInv, TypeOK, ThreadInv, LockInv, LifeInv, FreshInv, Fresh, Alive, Present,
       Thread, Caller, InCall, Destroying, CallLabel, Callback
<1>4. RefInv' /\ HolderInv' /\ NoStaleStop'
    BY ThreadAssumption, Quiet DEF IInv, TypeOK, RefInv, ownership, Thread, Removed, Caller
<1>5. ToldInv' /\ AnswerInv'
    BY ThreadAssumption, NonesAssumption DEF IInv, TypeOK, ThreadInv, ToldInv, AnswerInv, Told, Between, Unmentioned, Present,
       Thread, Caller
<1>. QED BY <1>1, <1>2, <1>3, <1>4, <1>5 DEF IInv

\* A call takes plugin_lock and finds the current object, or none.
LEMMA EnterStep == ASSUME IInv, NEW t \in Caller, Enter(t) PROVE IInv'
<1>. USE DEF Enter, statics, objects, library, dart
<1>1. \E l \in {"is_available", "lock", "act", "find", "leave"} :
         /\ Goto(t, l)
         /\ IF l = "leave" THEN pluginJava = NoPlugin /\ answer' \in {answer, "UNINITIALIZED"}
                           ELSE pluginJava # NoPlugin /\ answer' = answer
    BY DEF FirstStep
<1>2. answer' = answer \/ (t = "dart" /\ answer' = "UNINITIALIZED" /\ Goto(t, "leave"))
  <2>1. op[t] \in Ops(t)
    BY DEF IInv, ThreadInv, InCall
  <2>2. op[t] \in {"get_state", "resume"} => t = "dart"
    BY <2>1 DEF Ops, Caller
  <2>. QED BY <2>2 DEF Goto
<1>3. TypeOK'
    BY <1>1, ThreadAssumption DEF IInv, TypeOK, Goto, Label, CallLabel, Thread
<1>4. ThreadInv'
    BY <1>1, ThreadAssumption DEF IInv, TypeOK, ThreadInv, Goto, Thread, InCall, CallLabel, Destroying, Callback
<1>5. LockInv' /\ LifeInv' /\ FreshInv'
  <2>0. PICK l \in CallLabel \cup {"leave"} : /\ pc' = [pc EXCEPT ![t] = l]
                                              /\ l = "leave" \/ pluginJava # NoPlugin
    BY <1>1 DEF Goto, CallLabel
  <2>1. /\ pc[t] = "enter" /\ pc'[t] = l /\ cur'[t] = pluginJava
        /\ \A u \in Caller \ {t} : pc'[u] = pc[u] /\ cur'[u] = cur[u]
        /\ \A p \in Plugin : pc'[p] = pc[p]
        /\ plugin_lock' = t /\ UNCHANGED <<pluginJava, life, holders, stream, served>>
    BY <2>0, ThreadAssumption DEF IInv, TypeOK, Thread
  <2>2. LockInv'
    <3>1. \A u \in Caller : pc[u] \notin CallLabel \cup {"leave"}
        BY DEF IInv, LockInv, Caller
    <3>2. "leave" \notin CallLabel
        BY DEF CallLabel
    <3>. QED BY <2>0, <2>1, <3>1, <3>2 DEF LockInv
  <2>3. /\ pc["platform"] \in Destroying \cup {"install"} <=> pc'["platform"] \in Destroying \cup {"install"}
        /\ pc["platform"] \in Destroying \cup {"install"} => pc'["platform"] = pc["platform"] /\ cur'["platform"] = cur["platform"]
    BY <2>1 DEF Caller, Destroying, CallLabel
  <2>4. \A p \in Plugin : Fresh(p)' <=> Fresh(p)
    BY <2>1 DEF Fresh, Present
  <2>5. LifeInv'
    BY <2>1, <2>3, <2>4 DEF IInv, LifeInv, Alive, Destroying
  <2>6. FreshInv'
    BY <2>1, <2>3, <2>4 DEF IInv, TypeOK, LifeInv, FreshInv, Destroying
  <2>. QED BY <2>2, <2>5, <2>6
<1>6. RefInv' /\ HolderInv' /\ NoStaleStop'
  <2>1. RefInv /\ HolderInv /\ NoStaleStop /\ UNCHANGED ownership
    BY DEF IInv, ownership
  <2>2. ASSUME NEW u \in Caller, ref[u] # NoHolder
        PROVE  pc'[u] \in {"available", "act", "leave"} /\ cur'[u] = cur[u] /\ dev'[u] = dev[u]
    <3>1. pc[u] \in {"available", "act", "leave"} /\ u \in Thread
        BY <2>2 DEF IInv, RefInv, Thread
    <3>. QED BY <1>1, <3>1 DEF IInv, TypeOK, Goto
  <2>3. \A p \in Plugin : pc'[p] = pc[p] /\ dev'[p] = dev[p]
    BY <1>1, ThreadAssumption DEF IInv, TypeOK, Goto, Thread
  <2>. QED BY <2>1, <2>2, <2>3, Quiet DEF IInv, RefInv
<1>7. ToldInv'
    BY <1>1, ThreadAssumption DEF IInv, TypeOK, ToldInv, Told, Between, Unmentioned, Present, Goto, Thread
<1>8. AnswerInv'
    BY <1>1, <1>2, ThreadAssumption DEF IInv, TypeOK, AnswerInv, Goto, Thread, Caller
<1>. QED BY <1>3, <1>4, <1>5, <1>6, <1>7, <1>8 DEF IInv

\* The callback waits for m_lock.
LEMMA AddLockStep == ASSUME IInv, NEW p \in Plugin, AddLock(p) PROVE IInv'
<1>. USE DEF AddLock, statics, library, locals, dart, Goto
<1>1. TypeOK'
    BY InputAssumption, ThreadAssumption DEF IInv, TypeOK, ThreadInv, Label, Thread, Caller
<1>2. ThreadInv'
    BY ThreadAssumption DEF IInv, TypeOK, ThreadInv, Thread, InCall, CallLabel, Destroying, Callback, Caller
<1>3. LockInv' /\ LifeInv' /\ FreshInv'
    BY ThreadAssumption, NonesAssumption DEF IInv, TypeOK, ThreadInv, LockInv, LifeInv, FreshInv, Fresh, Alive, Present,
       Thread, Caller, InCall, Destroying, CallLabel, Callback
<1>4. RefInv' /\ HolderInv' /\ NoStaleStop'
    BY ThreadAssumption, Quiet DEF IInv, TypeOK, RefInv, ownership, Thread, Removed, Caller
<1>5. ToldInv' /\ AnswerInv'
    BY ThreadAssumption, NonesAssumption DEF IInv, TypeOK, ThreadInv, ToldInv, AnswerInv, Told, Between, Unmentioned, Present,
       Thread, Caller
<1>. QED BY <1>1, <1>2, <1>3, <1>4, <1>5 DEF IInv

\* A device may be reported to any object that has a manager.
LEMMA DeviceAttachStep == ASSUME IInv, NEW p \in Plugin, NEW d \in Device, DeviceAttach(p, d) PROVE IInv'
<1>. USE DEF DeviceAttach, Alive, Input, statics, objects, library, dart, Goto
<1>1. TypeOK'
    BY InputAssumption, ThreadAssumption DEF IInv, TypeOK, ThreadInv, Label, Thread, Caller
<1>2. ThreadInv'
    BY ThreadAssumption DEF IInv, TypeOK, ThreadInv, Thread, InCall, CallLabel, Destroying, Callback, Caller
<1>3. LockInv' /\ LifeInv' /\ FreshInv'
    BY ThreadAssumption, NonesAssumption DEF IInv, TypeOK, ThreadInv, LockInv, LifeInv, FreshInv, Fresh, Alive, Present,
       Thread, Caller, InCall, Destroying, CallLabel, Callback
<1>4. RefInv' /\ HolderInv' /\ NoStaleStop'
    BY ThreadAssumption, Quiet DEF IInv, TypeOK, RefInv, ownership, Thread, Removed, Caller
<1>5. ToldInv' /\ AnswerInv'
    BY ThreadAssumption, NonesAssumption DEF IInv, TypeOK, ThreadInv, ToldInv, AnswerInv, Told, Between, Unmentioned, Present,
       Thread, Caller
<1>. QED BY <1>1, <1>2, <1>3, <1>4, <1>5 DEF IInv

\* A device may be reported gone at any time.
LEMMA DeviceDetachStep == ASSUME IInv, NEW p \in Plugin, NEW d \in Device, DeviceDetach(p, d) PROVE IInv'
<1>. USE DEF DeviceDetach, Alive, Input, statics, objects, library, dart, Goto
<1>1. TypeOK'
    BY InputAssumption, ThreadAssumption DEF IInv, TypeOK, ThreadInv, Label, Thread, Caller
<1>2. ThreadInv'
    BY ThreadAssumption DEF IInv, TypeOK, ThreadInv, Thread, InCall, CallLabel, Destroying, Callback, Caller
<1>3. LockInv' /\ LifeInv' /\ FreshInv'
    BY ThreadAssumption, NonesAssumption DEF IInv, TypeOK, ThreadInv, LockInv, LifeInv, FreshInv, Fresh, Alive, Present,
       Thread, Caller, InCall, Destroying, CallLabel, Callback
<1>4. RefInv' /\ HolderInv' /\ NoStaleStop'
    BY ThreadAssumption, Quiet DEF IInv, TypeOK, RefInv, ownership, Thread, Removed, Caller
<1>5. ToldInv' /\ AnswerInv'
    BY ThreadAssumption, NonesAssumption DEF IInv, TypeOK, ThreadInv, ToldInv, AnswerInv, Told, Between, Unmentioned, Present,
       Thread, Caller
<1>. QED BY <1>1, <1>2, <1>3, <1>4, <1>5 DEF IInv

\* A new object is alive, and no call has reached it.
LEMMA NativeInitStep == ASSUME IInv, NEW p \in Plugin, NativeInit(p) PROVE IInv'
<1>. USE DEF NativeInit, Input, statics, library, dart, Goto
<1>1. TypeOK'
    BY InputAssumption, ThreadAssumption DEF IInv, TypeOK, ThreadInv, Label, Thread, Caller
<1>2. ThreadInv'
    BY ThreadAssumption DEF IInv, TypeOK, ThreadInv, Thread, InCall, CallLabel, Destroying, Callback, Caller
<1>3. LockInv' /\ LifeInv' /\ FreshInv'
    BY ThreadAssumption, NonesAssumption DEF IInv, TypeOK, ThreadInv, LockInv, LifeInv, FreshInv, Fresh, Alive, Present,
       Thread, Caller, InCall, Destroying, CallLabel, Callback
<1>4. RefInv' /\ HolderInv' /\ NoStaleStop'
    BY ThreadAssumption, Quiet DEF IInv, TypeOK, RefInv, ownership, Thread, Removed, Caller
<1>5. ToldInv' /\ AnswerInv'
  <2>1. /\ pc'["platform"] = "install" /\ \A q \in Plugin : pc'[q] = pc[q]
        /\ pc["dart"] = "leave" => pc'["dart"] = "leave"
        /\ \A q \in Plugin : life'[q] = "alive" => life[q] = "alive" \/ q = p
    BY ThreadAssumption DEF IInv, TypeOK, Thread, Caller
  <2>2. pc[p] = "idle"
    BY DEF IInv, LifeInv, Alive
  <2>. QED BY <2>1, <2>2 DEF IInv, ToldInv, AnswerInv, Present
<1>. QED BY <1>1, <1>2, <1>3, <1>4, <1>5 DEF IInv

\* It becomes the current one; the one it replaces is destroyed.
LEMMA InstallStep == ASSUME IInv, Install PROVE IInv'
<1>. USE DEF Install, objects, library, dart
<1>1. /\ \E l \in {"idle", "terminate"} : Goto("platform", l) /\ (l = "idle" <=> pluginJava = NoPlugin)
      /\ plugin_lock' \in {plugin_lock, "platform"}
      /\ "platform" \in Caller
      /\ \A t \in Caller : pc[t] \notin CallLabel \cup {"leave"}
    BY DEF IInv, LockInv, Caller
<1>2. TypeOK'
    BY <1>1, ThreadAssumption DEF IInv, TypeOK, LifeInv, Goto, Label, Thread
<1>3. ThreadInv'
    BY <1>1, ThreadAssumption DEF IInv, TypeOK, ThreadInv, Goto, Thread, InCall, CallLabel, Destroying
<1>4. LockInv'
    BY <1>1, ThreadAssumption DEF IInv, TypeOK, LockInv, Goto, Thread, CallLabel
<1>5. LifeInv' /\ FreshInv'
  <2>1. /\ pc'["platform"] \in {"idle", "terminate"} /\ (pc'["platform"] = "idle" <=> pluginJava = NoPlugin)
        /\ \A p \in Plugin : pc'[p] = pc[p]
        /\ pc["platform"] = "install" /\ pluginJava' = cur["platform"] /\ cur'["platform"] = pluginJava
        /\ UNCHANGED <<life, holders, stream, served>>
    BY <1>1, ThreadAssumption DEF IInv, TypeOK, Goto, Thread
  <2>2. /\ cur["platform"] \in Plugin \ {pluginJava} /\ life[cur["platform"]] = "alive"
        /\ pluginJava # NoPlugin => pluginJava \in Plugin /\ life[pluginJava] = "alive"
        /\ served # cur["platform"] /\ Fresh(cur["platform"])
    BY <2>1 DEF IInv, TypeOK, LifeInv, FreshInv, Destroying
  <2>3. \A p \in Plugin : Fresh(p)' <=> Fresh(p)
    BY <2>1 DEF Fresh, Present
  <2>4. \A p \in Plugin : Alive(p)' <=> Alive(p)
    BY <2>1 DEF Alive
  <2>5. NoPlugin \notin Plugin
    BY NonesAssumption DEF Thread
  <2>6. ASSUME NEW p \in Plugin, Alive(p), p # cur["platform"]
        PROVE  pc'["platform"] = "terminate" /\ p = pluginJava
    BY <2>1, <2>2, <2>5, <2>6 DEF IInv, LifeInv
  <2>7. LifeInv'
    BY <2>1, <2>2, <2>3, <2>4, <2>5, <2>6 DEF IInv, LifeInv, Destroying
  <2>8. FreshInv'
    BY <2>1, <2>2, <2>3 DEF FreshInv
  <2>. QED BY <2>7, <2>8
<1>6. RefInv' /\ HolderInv' /\ NoStaleStop'
  <2>1. RefInv /\ HolderInv /\ NoStaleStop /\ UNCHANGED ownership
    BY DEF IInv, ownership
  <2>2. ASSUME NEW u \in Caller, ref[u] # NoHolder
        PROVE  pc'[u] \in {"available", "act", "leave"} /\ cur'[u] = cur[u] /\ dev'[u] = dev[u]
    <3>1. pc[u] \in {"available", "act", "leave"} /\ u \in Thread
        BY <2>2 DEF IInv, RefInv, Thread
    <3>. QED BY <1>1, <3>1 DEF IInv, TypeOK, Goto, CallLabel
  <2>3. \A p \in Plugin : pc'[p] = pc[p] /\ dev'[p] = dev[p]
    BY <1>1, ThreadAssumption DEF IInv, TypeOK, Goto, Thread
  <2>. QED BY <2>1, <2>2, <2>3, Quiet DEF IInv, RefInv
<1>7. ToldInv'
  <2>1. pluginJava' # served' /\ \A p \in Plugin : pc'[p] = pc[p]
    BY <1>1, ThreadAssumption DEF IInv, TypeOK, FreshInv, Goto, Thread
  <2>. QED BY <2>1 DEF IInv, ToldInv, Present
<1>8. AnswerInv'
    BY <1>1 DEF IInv, TypeOK, AnswerInv, Goto, Thread, Caller
<1>. QED BY <1>2, <1>3, <1>4, <1>5, <1>6, <1>7, <1>8 DEF IInv

\* The current object is taken away while no call is inside it.
LEMMA NativeReleaseStep == ASSUME IInv, NativeRelease PROVE IInv'
<1>. USE DEF NativeRelease, Input, objects, library, dart, Goto
<1>1. TypeOK'
    BY InputAssumption, ThreadAssumption DEF IInv, TypeOK, ThreadInv, Label, Thread, Caller
<1>2. ThreadInv'
    BY ThreadAssumption DEF IInv, TypeOK, ThreadInv, Thread, InCall, CallLabel, Destroying, Callback, Caller
<1>3. LockInv' /\ LifeInv' /\ FreshInv'
    BY ThreadAssumption, NonesAssumption DEF IInv, TypeOK, ThreadInv, LockInv, LifeInv, FreshInv, Fresh, Alive, Present,
       Thread, Caller, InCall, Destroying, CallLabel, Callback
<1>4. RefInv' /\ HolderInv' /\ NoStaleStop'
    BY ThreadAssumption, Quiet DEF IInv, TypeOK, RefInv, ownership, Thread, Removed, Caller
<1>5. ToldInv' /\ AnswerInv'
    BY ThreadAssumption, NonesAssumption DEF IInv, TypeOK, ThreadInv, ToldInv, AnswerInv, Told, Between, Unmentioned, Present,
       Thread, Caller
<1>. QED BY <1>1, <1>2, <1>3, <1>4, <1>5 DEF IInv

\* Dart starts with no controllers, and has been told of no device.
LEMMA DartStartStep == ASSUME IInv, DartStart PROVE IInv'
<1>. USE DEF DartStart, statics, objects, library, locals, Goto
<1>1. TypeOK'
    BY InputAssumption, ThreadAssumption DEF IInv, TypeOK, ThreadInv, Label, Thread, Caller
<1>2. ThreadInv'
    BY ThreadAssumption DEF IInv, TypeOK, ThreadInv, Thread, InCall, CallLabel, Destroying, Callback, Caller
<1>3. LockInv' /\ LifeInv' /\ FreshInv'
    BY ThreadAssumption, NonesAssumption DEF IInv, TypeOK, ThreadInv, LockInv, LifeInv, FreshInv, Fresh, Alive, Present,
       Thread, Caller, InCall, Destroying, CallLabel, Callback
<1>4. RefInv' /\ HolderInv' /\ NoStaleStop'
    BY ThreadAssumption, Quiet DEF IInv, TypeOK, RefInv, ownership, Thread, Removed, Caller
<1>5. ToldInv' /\ AnswerInv'
    BY ThreadAssumption, NonesAssumption DEF IInv, TypeOK, ThreadInv, FreshInv, Fresh, ToldInv, AnswerInv, Told, Between, Unmentioned, Present,
       Thread, Caller
<1>. QED BY <1>1, <1>2, <1>3, <1>4, <1>5 DEF IInv

\* Dart ends when its object is no longer the current one.
LEMMA DartExitStep == ASSUME IInv, DartExit PROVE IInv'
<1>. USE DEF DartExit, statics, objects, library, locals, Goto
<1>1. TypeOK'
    BY InputAssumption, ThreadAssumption DEF IInv, TypeOK, ThreadInv, Label, Thread, Caller
<1>2. ThreadInv'
    BY ThreadAssumption DEF IInv, TypeOK, ThreadInv, Thread, InCall, CallLabel, Destroying, Callback, Caller
<1>3. LockInv' /\ LifeInv' /\ FreshInv'
    BY ThreadAssumption, NonesAssumption DEF IInv, TypeOK, ThreadInv, LockInv, LifeInv, FreshInv, Fresh, Alive, Present,
       Thread, Caller, InCall, Destroying, CallLabel, Callback
<1>4. RefInv' /\ HolderInv' /\ NoStaleStop'
    BY ThreadAssumption, Quiet DEF IInv, TypeOK, RefInv, ownership, Thread, Removed, Caller
<1>5. ToldInv' /\ AnswerInv'
    BY ThreadAssumption, NonesAssumption DEF IInv, TypeOK, ThreadInv, ToldInv, AnswerInv, Told, Between, Unmentioned, Present,
       Thread, Caller
<1>. QED BY <1>1, <1>2, <1>3, <1>4, <1>5 DEF IInv

\* A message says what is in the map; those about other devices still do.  The object
\* that Dart is served by is the only one that posts, unless another is being installed.
LEMMA SendStep ==
    ASSUME IInv, NEW p \in Plugin, NEW b \in BOOLEAN, Send(p, b),
           pc[p] \in {"sendAttached", "sendDetached"}, dev[p] \in Device,
           pc' = [pc EXCEPT ![p] = "idle"], dev' = [dev EXCEPT ![p] = NoDevice],
           UNCHANGED <<served, pluginJava, controllers, holders, life>>,
           life[p] = "alive" => (b <=> Present(p, dev[p]))
    PROVE  /\ queue' \in Seq([device : Device, attached : BOOLEAN])
           /\ told' \in SUBSET Device
           /\ ToldInv'
<1>. DEFINE e == dev[p]
<1>1. queue' \in Seq([device : Device, attached : BOOLEAN])
  <2>1. [device |-> e, attached |-> b] \in [device : Device, attached : BOOLEAN]
    OBVIOUS
  <2>2. queue \in Seq([device : Device, attached : BOOLEAN])
    BY DEF IInv, TypeOK
  <2>3. \A m \in [device : Device, attached : BOOLEAN] :
           Append(queue, m) \in Seq([device : Device, attached : BOOLEAN])
    BY <2>2
  <2>. QED BY <2>1, <2>2, <2>3 DEF Send, Post
<1>2. told' \in SUBSET Device
    BY DEF Send, IInv, TypeOK
<1>3. /\ p \in Thread /\ p # "platform" /\ "platform" \in Thread /\ pc'[p] = "idle"
      /\ \A t \in Thread \ {p} : pc'[t] = pc[t] /\ dev'[t] = dev[t]
    BY ThreadAssumption DEF IInv, TypeOK, Thread, Caller
<1>4. \A q \in Plugin : pc'[q] = "sendAttached" /\ life'[q] = "alive" => Present(q, dev[q])' /\ q # p
    BY <1>3 DEF IInv, ToldInv, Present, Thread
<1>5. ASSUME served # NoPlugin, served = pluginJava, pc'["platform"] # "install", NEW d \in Device
      PROVE  IF d \in told' THEN Told(d)' ELSE d \notin controllers' /\ Unmentioned(d, 0)'
  <2>1. pc["platform"] # "install" /\ served = p /\ life[p] = "alive"
    BY <1>3, <1>5 DEF IInv, LifeInv, FreshInv, Alive
  <2>2. /\ queue \in Seq([device : Device, attached : BOOLEAN])
        /\ queue' = Append(queue, [device |-> e, attached |-> b])
        /\ told' = told \cup {e}
    BY <1>5, <2>1 DEF IInv, TypeOK, Send, Post
  <2>3. /\ Len(queue') = Len(queue) + 1 /\ Len(queue) \in Nat
        /\ \A i \in 1..Len(queue) : queue'[i] = queue[i]
        /\ queue'[Len(queue) + 1] = [device |-> e, attached |-> b]
    BY <2>2
  <2>4. \A f \in Device : Present(served, f)' <=> Present(served, f)
    BY DEF Present
  <2>5. CASE d = e
    <3>1. ~Unmentioned(d, 0)'
        BY <2>3, <2>5 DEF Unmentioned
    <3>2. \A i \in 1..Len(queue') : Unmentioned(d, i)' => i = Len(queue) + 1
        BY <2>3, <2>5 DEF Unmentioned
    <3>3. b <=> Present(served, d)'
        BY <2>1, <2>4, <2>5
    <3>. QED BY <2>2, <2>3, <2>5, <3>1, <3>2, <3>3 DEF Told
  <2>6. CASE d # e
    <3>1. \A n \in 0..Len(queue) : Unmentioned(d, n)' <=> Unmentioned(d, n)
        BY <2>3, <2>6 DEF Unmentioned
    <3>2. \A i \in 1..Len(queue') : queue'[i].device = d => i \in 1..Len(queue)
        BY <2>3, <2>6
    <3>3. CASE d \in told
      <4>1. Told(d)
        BY <1>5, <2>1, <2>6, <3>3 DEF IInv, ToldInv, Between
      <4>. QED BY <2>2, <2>3, <2>4, <3>1, <3>2, <3>3, <4>1 DEF Told
    <3>4. CASE d \notin told
      <4>1. d \notin controllers /\ Unmentioned(d, 0)
        BY <1>5, <2>1, <3>4 DEF IInv, ToldInv
      <4>. QED BY <2>2, <2>3, <2>6, <3>1, <3>4, <4>1
    <3>. QED BY <3>3, <3>4
  <2>. QED BY <2>5, <2>6
<1>6. ToldInv'
    BY <1>4, <1>5 DEF ToldInv
<1>. QED BY <1>1, <1>2, <1>6

\* The message that the device is attached.
LEMMA SendAttachedStep == ASSUME IInv, NEW p \in Plugin, SendAttached(p) PROVE IInv'
<1>. USE DEF SendAttached, Goto, statics, objects, library
<1>0. /\ dev[p] \in Device /\ TRUE \in BOOLEAN
      /\ life[p] = "alive" => Present(p, dev[p])
    BY DEF IInv, ThreadInv, ToldInv
<1>1. ToldInv' /\ queue' \in Seq([device : Device, attached : BOOLEAN]) /\ told' \in SUBSET Device
    BY <1>0, SendStep
<1>2. TypeOK'
    BY <1>1, ThreadAssumption DEF IInv, TypeOK, Label, Thread
<1>3. ThreadInv'
    BY ThreadAssumption DEF IInv, TypeOK, ThreadInv, Thread, InCall, CallLabel, Destroying, Callback, Caller
<1>4. LockInv' /\ LifeInv' /\ FreshInv'
    BY ThreadAssumption DEF IInv, TypeOK, ThreadInv, LockInv, LifeInv, FreshInv, Fresh, Alive, Present,
       Thread, Caller, InCall, Destroying, CallLabel, Callback
<1>5. RefInv' /\ HolderInv' /\ NoStaleStop'
    BY ThreadAssumption, Quiet DEF IInv, TypeOK, RefInv, ownership, Thread, Removed, Caller
<1>6. AnswerInv'
    BY ThreadAssumption DEF IInv, TypeOK, AnswerInv, Thread, Caller
<1>. QED BY <1>1, <1>2, <1>3, <1>4, <1>5, <1>6 DEF IInv

\* An element of a sequence has the type of its elements.
LEMMA Element == ASSUME NEW S, NEW q \in Seq(S), NEW i \in 1..Len(q) PROVE q[i] \in S
OBVIOUS

\* Dart handles the oldest message; what the others will make of a device stays.
LEMMA HandleMessageStep == ASSUME IInv, HandleMessage PROVE IInv'
<1>. USE DEF statics, objects, library
<1>1. /\ queue \in Seq([device : Device, attached : BOOLEAN]) /\ Len(queue) \in Nat \ {0}
      /\ queue' \in Seq([device : Device, attached : BOOLEAN]) /\ queue' = Tail(queue)
    BY DEF HandleMessage, IInv, TypeOK
<1>2. /\ Len(queue') = Len(queue) - 1 /\ Len(queue) \in Nat /\ Len(queue') \in Nat
      /\ \A i \in 1..Len(queue') : queue'[i] = queue[i + 1]
    BY <1>1
<1>3. /\ queue[1] \in [device : Device, attached : BOOLEAN] /\ queue[1].device \in Device
      /\ 1 \in 1..Len(queue)
  <2>1. 1 \in 1..Len(queue)
    BY <1>1
  <2>2. queue[1] \in [device : Device, attached : BOOLEAN]
    BY <1>1, <2>1, Element
  <2>. QED BY <2>1, <2>2
<1>4. controllers' = IF queue[1].attached THEN controllers \cup {queue[1].device}
                                          ELSE controllers \ {queue[1].device}
    BY DEF HandleMessage
<1>5. UNCHANGED <<pc, op, dev>> \/ (pc["dart"] = "idle" /\ Request("dart", "stop", queue[1].device))
    BY DEF HandleMessage
<1>. USE DEF Request, Goto
<1>6. TypeOK'
    BY <1>1, <1>3, <1>4, <1>5, ThreadAssumption DEF HandleMessage, IInv, TypeOK, Label, Thread, Caller, Ops
<1>7. ThreadInv'
    BY <1>3, <1>5, ThreadAssumption DEF HandleMessage, IInv, TypeOK, ThreadInv, Thread, InCall, Destroying, Caller, Ops
<1>8. LockInv' /\ LifeInv' /\ FreshInv'
  <2>1. /\ pc'["platform"] = pc["platform"] /\ \A p \in Plugin : pc'[p] = pc[p]
        /\ \A t \in Caller : pc'[t] \in CallLabel \cup {"leave"} => pc'[t] = pc[t]
    <3>1. \/ UNCHANGED pc
          \/ "dart" \in Thread \cap Caller /\ "dart" # "platform" /\ pc' = [pc EXCEPT !["dart"] = "enter"]
        BY <1>5 DEF Thread, Caller
    <3>2. "enter" \notin CallLabel \cup {"leave"} /\ "dart" \notin Plugin
        BY ThreadAssumption DEF CallLabel, Caller
    <3>. QED BY <3>1, <3>2 DEF IInv, TypeOK, Thread, Caller
  <2>2. UNCHANGED <<pluginJava, plugin_lock, life, holders, stream, window, cur, served>>
    BY DEF HandleMessage
  <2>3. \A p \in Plugin : Fresh(p)' <=> Fresh(p)
    BY <2>2 DEF Fresh
  <2>4. LockInv'
    BY <2>1, <2>2 DEF IInv, LockInv
  <2>5. LifeInv'
    BY <2>1, <2>2, <2>3 DEF IInv, LifeInv, Alive
  <2>6. FreshInv'
    BY <2>1, <2>2, <2>3 DEF IInv, TypeOK, LifeInv, FreshInv
  <2>. QED BY <2>4, <2>5, <2>6
<1>9. RefInv' /\ HolderInv' /\ NoStaleStop'
  <2>1. RefInv /\ HolderInv /\ NoStaleStop /\ UNCHANGED ownership
    BY DEF HandleMessage, IInv, ownership
  <2>2. ASSUME NEW u \in Caller, ref[u] # NoHolder
        PROVE  pc'[u] \in {"available", "act", "leave"} /\ cur'[u] = cur[u] /\ dev'[u] = dev[u]
    <3>1. pc[u] \in {"available", "act", "leave"} /\ u \in Thread
        BY <2>2 DEF IInv, RefInv, Thread
    <3>. QED BY <1>5, <3>1 DEF HandleMessage, IInv, TypeOK, Thread, Caller
  <2>3. \A p \in Plugin : pc'[p] = pc[p] /\ dev'[p] = dev[p]
    BY <1>5, ThreadAssumption DEF IInv, TypeOK, Thread, Caller
  <2>. QED BY <2>1, <2>2, <2>3, Quiet DEF IInv, RefInv
<1>10. ToldInv'
  <2>1. /\ UNCHANGED <<served, pluginJava, life, holders, told>> /\ pc'["platform"] = pc["platform"]
        /\ \A p \in Plugin : pc'[p] = pc[p] /\ dev'[p] = dev[p]
    BY <1>5, ThreadAssumption DEF HandleMessage, IInv, TypeOK, Thread, Caller
  <2>2. \A p \in Plugin : pc'[p] = "sendAttached" /\ life'[p] = "alive" => Present(p, dev[p])'
    BY <2>1 DEF IInv, ToldInv, Present
  <2>3. SUFFICES ASSUME served # NoPlugin, served = pluginJava, pc["platform"] # "install", NEW d \in Device
                 PROVE  IF d \in told THEN Between(d)' \/ Told(d)'
                                     ELSE d \notin controllers' /\ Unmentioned(d, 0)'
    BY <2>1, <2>2 DEF ToldInv
  <2>4. CASE d \notin told
    <3>1. d \notin controllers /\ Unmentioned(d, 0)
        BY <2>3, <2>4 DEF IInv, ToldInv
    <3>2. queue[1].device # d /\ Unmentioned(d, 0)'
        BY <1>2, <1>3, <3>1 DEF Unmentioned
    <3>. QED BY <1>4, <2>4, <3>1, <3>2
  <2>5. CASE d \in told /\ Between(d)
    BY <2>1, <2>3, <2>5 DEF IInv, TypeOK, Between
  <2>6. SUFFICES ASSUME d \in told, Told(d) PROVE Told(d)'
    BY <2>3, <2>4, <2>5 DEF IInv, ToldInv
  <2>7. \A n \in 0..Len(queue') : Unmentioned(d, n)' => Unmentioned(d, n + 1)
    <3>1. SUFFICES ASSUME NEW n \in 0..Len(queue'), Unmentioned(d, n)', NEW j \in n + 2..Len(queue)
                   PROVE  queue[j].device # d
        BY DEF Unmentioned
    <3>2. j - 1 \in n + 1..Len(queue') /\ queue'[j - 1] = queue[j]
        BY <1>2, <3>1
    <3>. QED BY <3>1, <3>2 DEF Unmentioned
  <2>8. Unmentioned(d, 1) => queue[1].device = d \/ Unmentioned(d, 0)
    BY <1>2 DEF Unmentioned
  <2>9. Unmentioned(d, 0)' => (d \in controllers' <=> Present(served, d))
    BY <1>2, <1>3, <1>4, <2>6, <2>7, <2>8 DEF Told
  <2>10. \A i \in 1..Len(queue') : queue'[i].device = d /\ Unmentioned(d, i)' =>
           (queue'[i].attached <=> Present(served, d))
    <3>1. SUFFICES ASSUME NEW i \in 1..Len(queue'), queue'[i].device = d, Unmentioned(d, i)'
                   PROVE  queue'[i].attached <=> Present(served, d)
        OBVIOUS
    <3>2. i + 1 \in 1..Len(queue) /\ queue'[i] = queue[i + 1] /\ i \in 0..Len(queue')
        BY <1>2
    <3>3. Unmentioned(d, i + 1)
        BY <2>7, <3>1, <3>2
    <3>4. queue[i + 1].attached <=> Present(served, d)
        BY <2>6, <3>1, <3>2, <3>3 DEF Told
    <3>. QED BY <3>2, <3>4
  <2>. QED BY <2>6, <2>9, <2>10 DEF HandleMessage, Told, Present
<1>11. AnswerInv'
    BY <1>5, ThreadAssumption DEF HandleMessage, IInv, TypeOK, AnswerInv, Thread, Caller
<1>. QED BY <1>6, <1>7, <1>8, <1>9, <1>10, <1>11 DEF IInv

-----------------------------------------------------------------------------
(* Steps that take or give up a reference.                                 *)

\* A call that copies the shared pointer of the map refers to the holder of its device.
LEMMA TakeRef ==
    ASSUME IInv, NEW t \in Caller, pc[t] \in CallLabel, ref[t] = NoHolder,
           NEW h \in {NoHolder, holders[cur[t]][dev[t]]}, NEW l \in {"available", "act"},
           ref' = [ref EXCEPT ![t] = h], Goto(t, l),
           UNCHANGED <<pluginJava, life, holders, home, library, cur, dev, op, answer, dart>>,
           plugin_lock' = plugin_lock
    PROVE  /\ ref' \in [Thread -> Holder \cup {NoHolder}] /\ pc' \in [Thread -> Label]
           /\ ThreadInv' /\ LockInv' /\ LifeInv' /\ FreshInv'
           /\ RefInv' /\ HolderInv' /\ NoStaleStop' /\ ToldInv' /\ AnswerInv'
<1>. USE DEF library, dart, Goto
<1>1. /\ cur[t] = pluginJava /\ cur[t] \in Plugin /\ dev[t] \in Device /\ plugin_lock = t
      /\ t \in Thread /\ h \in Holder \cup {NoHolder}
    BY DEF IInv, TypeOK, ThreadInv, LockInv, Thread, InCall
<1>2. ref' \in [Thread -> Holder \cup {NoHolder}] /\ pc' \in [Thread -> Label]
    BY <1>1 DEF IInv, TypeOK, Label, CallLabel
<1>3. ThreadInv'
    BY <1>1, ThreadAssumption DEF IInv, TypeOK, ThreadInv, Thread, InCall, CallLabel, Destroying
<1>4. LockInv' /\ LifeInv' /\ FreshInv'
    BY <1>1, ThreadAssumption DEF IInv, TypeOK, LockInv, LifeInv, FreshInv, Fresh, Alive, Present,
       Thread, CallLabel, Destroying
<1>5. HolderInv'
  <2>1. \A g \in Holder : Referred(g) => Referred(g)'
    BY <1>1, NonesAssumption DEF IInv, TypeOK, Referred, Mapped
  <2>. QED BY <2>1 DEF IInv, HolderInv, Present
<1>6. RefInv'
    BY <1>1, ThreadAssumption, NonesAssumption DEF IInv, TypeOK, RefInv, HolderInv, Present, Removed, Thread
<1>7. ToldInv' /\ AnswerInv' /\ NoStaleStop'
    BY <1>1, ThreadAssumption DEF IInv, TypeOK, ToldInv, Told, Between, Unmentioned, Present, AnswerInv, NoStaleStop,
       Thread, Caller, CallLabel
<1>. QED BY <1>2, <1>3, <1>4, <1>5, <1>6, <1>7

\* Looking the device up in the map, if m_lock is free.
LEMMA TryHolderStep ==
    ASSUME IInv, NEW t \in Caller, IsAvailable(t) \/ FindHolder(t)
    PROVE  IInv'
<1>1. pc[t] \in {"is_available", "find"} /\ ref[t] = NoHolder
    BY DEF IsAvailable, FindHolder, IInv, RefInv
<1>2. \E h \in {NoHolder, holders[cur[t]][dev[t]]}, l \in {"available", "act"} :
         ref' = [ref EXCEPT ![t] = h] /\ Goto(t, l)
    BY DEF IsAvailable, FindHolder, TryHolder
<1>3. UNCHANGED <<statics, objects, home, library, locals, answer, dart, inputs>>
    BY DEF IsAvailable, FindHolder
<1>. USE DEF statics, objects, library, locals, dart
<1>4. /\ ref' \in [Thread -> Holder \cup {NoHolder}] /\ pc' \in [Thread -> Label]
      /\ ThreadInv' /\ LockInv' /\ LifeInv' /\ FreshInv'
      /\ RefInv' /\ HolderInv' /\ NoStaleStop' /\ ToldInv' /\ AnswerInv'
    BY <1>1, <1>2, <1>3, TakeRef DEF CallLabel
<1>. QED BY <1>3, <1>4 DEF IInv, TypeOK

\* Waiting for m_lock and looking the device up.
LEMMA LockHolderStep == ASSUME IInv, NEW t \in Caller, LockHolder(t) PROVE IInv'
<1>1. pc[t] = "lock" /\ ref[t] = NoHolder
    BY DEF LockHolder, IInv, RefInv
<1>. USE DEF LockHolder, statics, library, locals, dart
<1>2. ref' = [ref EXCEPT ![t] = holders[cur[t]][dev[t]]] /\ Goto(t, "act")
    OBVIOUS
<1>3. /\ ref' \in [Thread -> Holder \cup {NoHolder}] /\ pc' \in [Thread -> Label]
      /\ ThreadInv' /\ LockInv' /\ LifeInv' /\ FreshInv'
      /\ RefInv' /\ HolderInv' /\ NoStaleStop' /\ ToldInv' /\ AnswerInv'
    BY <1>1, <1>2, TakeRef DEF CallLabel
<1>4. m_lock' \in [Plugin -> Thread \cup {"free"}]
    BY DEF IInv, TypeOK, Thread
<1>. QED BY <1>3, <1>4 DEF IInv, TypeOK

\* The last reference to a holder ends its stream, and no other stream; a holder in the
\* map survives.
LEMMA DropRef ==
    ASSUME IInv, NEW t \in Thread, Drop(t), UNCHANGED holders
    PROVE  /\ ref' \in [Thread -> Holder \cup {NoHolder}]
           /\ home' \in [Holder -> Place \cup {NoHome}]
           /\ stream' \in [Plugin -> [Device -> Holder \cup {NoHolder}]]
           /\ ref'[t] = NoHolder /\ \A u \in Thread \ {t} : ref'[u] = ref[u]
           /\ \A u \in Thread : ref'[u] # NoHolder => home'[ref'[u]] = home[ref'[u]]
           /\ \A p \in Plugin, d \in Device :
                 stream'[p][d] = stream[p][d] \/ (stream'[p][d] = NoHolder /\ stream[p][d] # holders[p][d])
           /\ HolderInv' /\ NoStaleStop'
<1>. DEFINE h == ref[t]
<1>1. CASE h # NoHolder /\ ~Shared(h, t)
  <2>1. /\ h \in Holder /\ home[h] # NoHome
        /\ home[h].plugin \in Plugin /\ home[h].device \in Device
        /\ home[h] = [plugin |-> home[h].plugin, device |-> home[h].device]
    <3>1. \E q \in Plugin, e \in Device : home[h] = [plugin |-> q, device |-> e]
        <4>1. CASE t \in Caller
            <5>1. /\ pc[t] \in {"available", "act", "leave"} /\ cur[t] # NoPlugin
                  /\ home[h] = [plugin |-> cur[t], device |-> dev[t]]
                BY <1>1, <4>1 DEF IInv, RefInv
            <5>2. cur[t] \in Plugin /\ dev[t] \in Device
                BY <4>1, <5>1 DEF IInv, TypeOK, ThreadInv, InCall, CallLabel
            <5>. QED BY <5>1, <5>2
        <4>2. CASE t \in Plugin
            BY <1>1, <4>2 DEF IInv, RefInv, ThreadInv, Removed
        <4>. QED BY <4>1, <4>2 DEF Thread
    <3>2. h \in Holder
        BY <1>1 DEF IInv, TypeOK
    <3>. QED BY <3>1, <3>2, NonesAssumption DEF NoHome, Thread
  <2>2. /\ ref' = [ref EXCEPT ![t] = NoHolder]
        /\ home' = [home EXCEPT ![h] = NoHome]
        /\ stream' = [stream EXCEPT ![home[h].plugin][home[h].device] = NoHolder]
    BY <1>1 DEF Drop
  <2>3. /\ \A u \in Thread \ {t} : ref[u] # h
        /\ \A p \in Plugin, d \in Device : holders[p][d] # h
    BY <1>1 DEF Shared, Mapped
  <2>4. /\ ref' \in [Thread -> Holder \cup {NoHolder}]
        /\ home' \in [Holder -> Place \cup {NoHome}]
        /\ stream' \in [Plugin -> [Device -> Holder \cup {NoHolder}]]
    BY <2>1, <2>2 DEF IInv, TypeOK
  <2>5. ref'[t] = NoHolder /\ \A u \in Thread \ {t} : ref'[u] = ref[u]
    BY <2>2 DEF IInv, TypeOK
  <2>6. home'[h] = NoHome /\ \A g \in Holder \ {h} : home'[g] = home[g]
    BY <2>1, <2>2 DEF IInv, TypeOK
  <2>7. \A u \in Thread : ref'[u] # NoHolder => home'[ref'[u]] = home[ref'[u]]
    BY <2>3, <2>4, <2>5, <2>6
  <2>8. \A p \in Plugin, d \in Device :
           IF [plugin |-> p, device |-> d] = home[h] THEN stream'[p][d] = NoHolder
                                                     ELSE stream'[p][d] = stream[p][d]
    BY <2>1, <2>2 DEF IInv, TypeOK
  <2>9. \A p \in Plugin, d \in Device :
           stream'[p][d] = stream[p][d] \/ (stream'[p][d] = NoHolder /\ stream[p][d] # holders[p][d])
    <3>1. SUFFICES ASSUME NEW p \in Plugin, NEW d \in Device, stream'[p][d] # stream[p][d]
                   PROVE  stream'[p][d] = NoHolder /\ stream[p][d] # holders[p][d]
        OBVIOUS
    <3>2. [plugin |-> p, device |-> d] = home[h] /\ stream'[p][d] = NoHolder /\ stream[p][d] # NoHolder
        BY <2>8, <3>1
    <3>3. CASE Present(p, d)
        <4>1. stream[p][d] = h \/ stream[p][d] # holders[p][d]
            BY <2>1, <3>2, <3>3 DEF IInv, NoStaleStop, Present
        <4>. QED BY <2>3, <3>2, <4>1
    <3>. QED BY <3>2, <3>3 DEF Present
  <2>10. HolderInv'
    <3>1. ASSUME NEW p \in Plugin, NEW d \in Device
          PROVE  /\ Present(p, d) => home'[holders[p][d]] = [plugin |-> p, device |-> d]
                 /\ stream'[p][d] # NoHolder => home'[stream'[p][d]] = [plugin |-> p, device |-> d]
        BY <2>3, <2>4, <2>6, <2>8 DEF IInv, TypeOK, HolderInv, Present
    <3>2. ASSUME NEW g \in Holder, home'[g] # NoHome
          PROVE  Referred(g)'
        BY <2>5, <2>6, <3>2 DEF IInv, HolderInv, Referred, Mapped
    <3>. QED BY <3>1, <3>2 DEF HolderInv, Present
  <2>11. NoStaleStop'
    <3>1. \A p \in Plugin, d \in Device, g \in Holder :
             home'[g] = [plugin |-> p, device |-> d] => home[g] = home'[g]
        BY <2>6, NonesAssumption DEF NoHome, Thread
    <3>. QED BY <2>8, <3>1 DEF IInv, NoStaleStop
  <2>. QED BY <2>4, <2>5, <2>7, <2>9, <2>10, <2>11
<1>2. CASE h = NoHolder \/ Shared(h, t)
  <2>1. ref' = [ref EXCEPT ![t] = NoHolder] /\ UNCHANGED <<home, stream>>
    BY <1>2 DEF Drop
  <2>2. /\ ref' \in [Thread -> Holder \cup {NoHolder}]
        /\ ref'[t] = NoHolder /\ \A u \in Thread \ {t} : ref'[u] = ref[u]
    BY <2>1 DEF IInv, TypeOK
  <2>3. \A g \in Holder : Referred(g) => Referred(g)'
    BY <1>2, <2>1, <2>2, NonesAssumption DEF Referred, Mapped, Shared
  <2>4. HolderInv' /\ NoStaleStop'
    BY <2>1, <2>3 DEF IInv, HolderInv, NoStaleStop, Present
  <2>. QED BY <2>1, <2>2, <2>4 DEF IInv, TypeOK
<1>. QED BY <1>1, <1>2

\* The copy made for the test of the device is given up.
LEMMA AvailableStep == ASSUME IInv, NEW t \in Caller, Available(t) PROVE IInv'
<1>. USE DEF statics, objects, library, locals, dart
<1>1. /\ t \in Thread /\ pc[t] = "available"
      /\ UNCHANGED <<statics, objects, window, locals, answer, dart, inputs>>
      /\ \E l \in {"find", "leave"} : Goto(t, l)
    BY DEF Available, Thread
<1>2. /\ ref' \in [Thread -> Holder \cup {NoHolder}]
      /\ home' \in [Holder -> Place \cup {NoHome}]
      /\ stream' \in [Plugin -> [Device -> Holder \cup {NoHolder}]]
      /\ ref'[t] = NoHolder /\ \A u \in Thread \ {t} : ref'[u] = ref[u]
      /\ \A u \in Thread : ref'[u] # NoHolder => home'[ref'[u]] = home[ref'[u]]
      /\ \A p \in Plugin, d \in Device : stream'[p][d] \in {stream[p][d], NoHolder}
      /\ HolderInv' /\ NoStaleStop'
    BY <1>1, DropRef DEF Available
<1>3. TypeOK'
  <2>1. pc' \in [Thread -> Label]
    BY <1>1 DEF IInv, TypeOK, Goto, Label, CallLabel
  <2>. QED BY <1>1, <1>2, <2>1 DEF IInv, TypeOK
<1>4. ThreadInv'
    BY <1>1, ThreadAssumption DEF IInv, TypeOK, ThreadInv, Goto, Thread, InCall, CallLabel, Destroying
<1>5. LockInv' /\ LifeInv' /\ FreshInv'
    BY <1>1, <1>2, ThreadAssumption DEF IInv, TypeOK, LockInv, LifeInv, FreshInv, Fresh, Alive, Present, Goto,
       Thread, CallLabel, Destroying
<1>6. RefInv'
    BY <1>1, <1>2, ThreadAssumption DEF IInv, TypeOK, RefInv, Present, Goto, Removed, Thread
<1>7. ToldInv' /\ AnswerInv'
    BY <1>1, ThreadAssumption DEF IInv, TypeOK, ToldInv, Told, Between, Unmentioned, Present, AnswerInv, Goto, Thread, Caller
<1>. QED BY <1>2, <1>3, <1>4, <1>5, <1>6, <1>7 DEF IInv

\* The call gives up its reference and its locks and returns.
LEMMA LeaveStep == ASSUME IInv, NEW t \in Caller, Leave(t) PROVE IInv'
<1>. USE DEF library, dart
<1>1. /\ t \in Thread /\ pc[t] = "leave" /\ plugin_lock = t /\ cur[t] = pluginJava
      /\ pc' = [pc EXCEPT ![t] = "idle"]
      /\ cur' = [cur EXCEPT ![t] = NoPlugin] /\ dev' = [dev EXCEPT ![t] = NoDevice]
      /\ op' = [op EXCEPT ![t] = "none"]
      /\ plugin_lock' = "free"
      /\ UNCHANGED <<pluginJava, life, holders, window, served, queue, told, inputs>>
    BY DEF Leave, Goto, Thread, IInv, LockInv
<1>2. /\ ref' \in [Thread -> Holder \cup {NoHolder}]
      /\ home' \in [Holder -> Place \cup {NoHome}]
      /\ stream' \in [Plugin -> [Device -> Holder \cup {NoHolder}]]
      /\ ref'[t] = NoHolder /\ \A u \in Thread \ {t} : ref'[u] = ref[u]
      /\ \A u \in Thread : ref'[u] # NoHolder => home'[ref'[u]] = home[ref'[u]]
      /\ \A p \in Plugin, d \in Device : stream'[p][d] \in {stream[p][d], NoHolder}
      /\ HolderInv' /\ NoStaleStop'
    BY <1>1, DropRef DEF Leave
<1>3. m_lock' \in [Plugin -> Thread \cup {"free"}] /\ surface' \in Surface \cup {NoSurface}
    BY DEF Leave, IInv, TypeOK
<1>4. TypeOK'
  <2>1. pc' \in [Thread -> Label] /\ dev' \in [Thread -> Device \cup {NoDevice}]
        /\ cur' \in [Caller -> Plugin \cup {NoPlugin}]
        /\ DOMAIN op' = Caller /\ \A u \in Caller : op'[u] \in Ops(u) \cup {"none"}
    BY <1>1 DEF IInv, TypeOK, Label
  <2>2. /\ controllers' \in SUBSET Device
        /\ answer' \in {"none", "UNINITIALIZED", "DISCONNECTED", "CONNECTED", "STREAMING"}
    BY DEF Leave, IInv, TypeOK
  <2>. QED BY <1>1, <1>2, <1>3, <2>1, <2>2 DEF IInv, TypeOK
<1>5. ThreadInv'
    BY <1>1, ThreadAssumption DEF IInv, TypeOK, ThreadInv, Thread, InCall, CallLabel, Destroying
<1>6. \A u \in Caller \ {t} : pc[u] \notin CallLabel \cup {"leave"}
    BY <1>1 DEF IInv, LockInv
<1>7. LockInv' /\ LifeInv' /\ FreshInv'
    BY <1>1, <1>2, <1>6, ThreadAssumption DEF IInv, TypeOK, LockInv, LifeInv, FreshInv, Fresh, Alive, Present,
       Thread, CallLabel, Destroying
<1>8. RefInv'
    BY <1>1, <1>2, ThreadAssumption DEF IInv, TypeOK, RefInv, Present, Removed, Thread
<1>9. served # NoPlugin /\ served = pluginJava => UNCHANGED controllers
    BY DEF Leave, IInv, AnswerInv
<1>10. ToldInv'
  <2>1. \A p \in Plugin : pc'[p] = pc[p] /\ dev'[p] = dev[p]
    BY <1>1, ThreadAssumption DEF IInv, TypeOK, Thread
  <2>2. pc'["platform"] # "install" => pc["platform"] # "install"
    BY <1>1, ThreadAssumption DEF IInv, TypeOK, Thread
  <2>. QED BY <1>1, <1>9, <2>1, <2>2 DEF IInv, TypeOK, ToldInv, Told, Between, Unmentioned, Present
<1>11. AnswerInv'
    BY <1>1, ThreadAssumption DEF Leave, IInv, TypeOK, AnswerInv, Thread, Caller
<1>. QED BY <1>2, <1>4, <1>5, <1>7, <1>8, <1>10, <1>11 DEF IInv

\* The message that the device is gone, after which its holder may be destroyed.
LEMMA SendDetachedStep == ASSUME IInv, NEW p \in Plugin, SendDetached(p) PROVE IInv'
<1>. USE DEF statics, objects
<1>1. /\ p \in Thread /\ pc[p] = "sendDetached" /\ dev[p] \in Device /\ ~Present(p, dev[p]) /\ FALSE \in BOOLEAN
      /\ pc' = [pc EXCEPT ![p] = "idle"] /\ dev' = [dev EXCEPT ![p] = NoDevice]
      /\ UNCHANGED <<statics, objects, window, cur, op, surface, answer, served, controllers, inputs>>
    BY DEF SendDetached, Goto, Thread, IInv, ThreadInv, RefInv, Removed
<1>2. /\ ref' \in [Thread -> Holder \cup {NoHolder}]
      /\ home' \in [Holder -> Place \cup {NoHome}]
      /\ stream' \in [Plugin -> [Device -> Holder \cup {NoHolder}]]
      /\ ref'[p] = NoHolder /\ \A u \in Thread \ {p} : ref'[u] = ref[u]
      /\ \A u \in Thread : ref'[u] # NoHolder => home'[ref'[u]] = home[ref'[u]]
      /\ \A q \in Plugin, d \in Device : stream'[q][d] \in {stream[q][d], NoHolder}
      /\ HolderInv' /\ NoStaleStop'
    BY <1>1, DropRef DEF SendDetached
<1>3. ToldInv' /\ queue' \in Seq([device : Device, attached : BOOLEAN]) /\ told' \in SUBSET Device
  <2>1. Send(p, FALSE) /\ UNCHANGED <<served, pluginJava, controllers, holders, life>>
    BY <1>1 DEF SendDetached
  <2>. QED BY <1>1, <2>1, SendStep
<1>4. TypeOK'
    BY <1>1, <1>2, <1>3 DEF IInv, TypeOK, Label
<1>5. ThreadInv'
    BY <1>1, ThreadAssumption DEF IInv, TypeOK, ThreadInv, Thread, InCall, CallLabel, Destroying
<1>6. LockInv' /\ LifeInv' /\ FreshInv'
  <2>1. \A q \in Plugin : Fresh(q) => Fresh(q)'
    BY <1>1, <1>2 DEF Fresh
  <2>2. \A t \in Caller : pc'[t] = pc[t]
    BY <1>1, ThreadAssumption DEF IInv, TypeOK, Thread
  <2>3. \A q \in Plugin : pc'[q] # "idle" => pc[q] # "idle"
    BY <1>1 DEF IInv, TypeOK, Thread
  <2>. QED BY <1>1, <1>2, <2>1, <2>2, <2>3 DEF IInv, TypeOK, LockInv, LifeInv, FreshInv, Alive, Caller
<1>7. RefInv'
    BY <1>1, <1>2, ThreadAssumption DEF IInv, TypeOK, RefInv, Present, Removed, Thread
<1>8. AnswerInv'
    BY <1>1, ThreadAssumption DEF IInv, TypeOK, AnswerInv, Thread, Caller
<1>. QED BY <1>2, <1>3, <1>4, <1>5, <1>6, <1>7, <1>8 DEF IInv

-----------------------------------------------------------------------------
(* Steps that begin or end a stream.                                       *)

\* Only the holder of a call begins a stream; it is the one in the map, or all others of
\* the device are gone.
LEMMA StreamStep ==
    ASSUME IInv, NEW p \in Plugin, NEW d \in Device, NEW g \in Holder \cup {NoHolder}, SetStream(p, d, g),
           UNCHANGED <<holders, home, ref>>,
           g # NoHolder => /\ home[g] = [plugin |-> p, device |-> d]
                           /\ \E t \in Caller : ref[t] = g
    PROVE  /\ stream' \in [Plugin -> [Device -> Holder \cup {NoHolder}]]
           /\ stream'[p][d] = g
           /\ \A q \in Plugin, e \in Device : <<q, e>> # <<p, d>> => stream'[q][e] = stream[q][e]
           /\ HolderInv' /\ NoStaleStop'
<1>1. /\ stream' \in [Plugin -> [Device -> Holder \cup {NoHolder}]]
      /\ stream'[p][d] = g
      /\ \A q \in Plugin, e \in Device : <<q, e>> # <<p, d>> => stream'[q][e] = stream[q][e]
    BY DEF SetStream, IInv, TypeOK
<1>2. HolderInv'
  <2>1. \A h \in Holder : Referred(h) => Referred(h)'
    BY DEF Referred, Mapped
  <2>2. ASSUME NEW q \in Plugin, NEW e \in Device
        PROVE  /\ Present(q, e) => home[holders[q][e]] = [plugin |-> q, device |-> e]
               /\ stream'[q][e] # NoHolder => home[stream'[q][e]] = [plugin |-> q, device |-> e]
    <3>1. CASE q = p /\ e = d
        BY <1>1, <3>1 DEF IInv, HolderInv
    <3>2. CASE <<q, e>> # <<p, d>>
        BY <1>1, <3>2 DEF IInv, HolderInv
    <3>. QED BY <3>1, <3>2
  <2>. QED BY <2>1, <2>2 DEF IInv, HolderInv, Present
<1>3. ASSUME g # NoHolder, g = holders[p][d], NEW h \in Holder, home[h] = [plugin |-> p, device |-> d]
      PROVE  h = g
  <2>1. Referred(h)
    BY <1>3, NonesAssumption DEF IInv, HolderInv, NoHome, Thread
  <2>2. CASE Mapped(h)
    <3>1. PICK q \in Plugin, e \in Device : holders[q][e] = h
        BY <2>2 DEF Mapped
    <3>2. home[h] = [plugin |-> q, device |-> e]
        BY <3>1, NonesAssumption DEF IInv, HolderInv, Present
    <3>. QED BY <1>3, <3>1, <3>2
  <2>3. ASSUME NEW q \in Plugin, ref[q] = h
        PROVE  FALSE
    <3>1. h # NoHolder /\ pc[q] \in Removed /\ home[h] = [plugin |-> q, device |-> dev[q]] /\ ~Present(q, dev[q])
        BY <2>3, NonesAssumption DEF IInv, RefInv
    <3>. QED BY <1>3, <3>1 DEF Present
  <2>4. ASSUME NEW u \in Caller, ref[u] = h
        PROVE  h = g
    <3>1. PICK t \in Caller : ref[t] = g
        BY <1>3
    <3>2. h # NoHolder
        BY NonesAssumption
    <3>3. plugin_lock = t /\ plugin_lock = u
        BY <1>3, <2>4, <3>1, <3>2 DEF IInv, RefInv, LockInv, CallLabel
    <3>. QED BY <2>4, <3>1, <3>3
  <2>. QED BY <2>1, <2>2, <2>3, <2>4 DEF Referred, Thread
<1>4. NoStaleStop'
  <2>1. ASSUME NEW q \in Plugin, NEW e \in Device, NEW h \in Holder,
               stream'[q][e] # NoHolder, stream'[q][e] = holders[q][e], home[h] = [plugin |-> q, device |-> e]
        PROVE  h = stream'[q][e]
    <3>1. CASE q = p /\ e = d
        BY <1>1, <1>3, <2>1, <3>1
    <3>2. CASE <<q, e>> # <<p, d>>
        BY <1>1, <2>1, <3>2 DEF IInv, NoStaleStop
    <3>. QED BY <3>1, <3>2
  <2>. QED BY <2>1 DEF NoStaleStop
<1>. QED BY <1>1, <1>2, <1>4

\* The call of the library, on the holder the call has found.
LEMMA ActStep == ASSUME IInv, NEW t \in Caller, Act(t) PROVE IInv'
<1>. USE DEF statics, objects, locals, dart
<1>1. /\ t \in Thread /\ pc[t] = "act" /\ plugin_lock = t /\ cur[t] = pluginJava /\ Alive(pluginJava)
      /\ cur[t] \in Plugin /\ dev[t] \in Device
      /\ pc' = [pc EXCEPT ![t] = "leave"]
      /\ UNCHANGED <<statics, objects, home, ref, locals, dart, inputs>>
    BY DEF Act, Goto, Thread, IInv, TypeOK, LockInv, LifeInv, ThreadInv, Alive, InCall, CallLabel
<1>2. /\ window' \in [Plugin -> [Device -> Surface \cup {NoSurface}]]
      /\ answer' = answer \/ (t = "dart" /\ answer' \in {"STREAMING", "CONNECTED"})
      /\ UNCHANGED stream \/ \E g \in {NoHolder, ref[t]} : SetStream(cur[t], dev[t], g)
  <2>1. op[t] \in Ops(t)
    BY <1>1 DEF IInv, ThreadInv, InCall, CallLabel
  <2>2. op[t] \in {"get_state", "resume"} => t = "dart"
    BY <2>1 DEF Ops, Caller
  <2>3. window' \in [Plugin -> [Device -> Surface \cup {NoSurface}]]
    <3>1. window' = window \/ window' = [window EXCEPT ![cur[t]][dev[t]] = surface]
        BY DEF Act, Start, Stop, GetDeviceState, SetPreviewWindow, Query, library
    <3>2. /\ window \in [Plugin -> [Device -> Surface \cup {NoSurface}]]
          /\ surface \in Surface \cup {NoSurface} /\ cur[t] \in Plugin /\ dev[t] \in Device
        BY <1>1 DEF IInv, TypeOK
    <3>. QED BY <3>1, <3>2
  <2>4. answer' = answer \/ (t = "dart" /\ answer' \in {"STREAMING", "CONNECTED"})
    BY <2>2 DEF Act, Start, Stop, GetDeviceState, SetPreviewWindow, Query
  <2>5. UNCHANGED stream \/ \E g \in {NoHolder, ref[t]} : SetStream(cur[t], dev[t], g)
    BY DEF Act, Start, Stop, GetDeviceState, SetPreviewWindow, Query, library
  <2>. QED BY <2>3, <2>4, <2>5
<1>3. /\ stream' \in [Plugin -> [Device -> Holder \cup {NoHolder}]]
      /\ \A q \in Plugin, e \in Device : q # cur[t] => stream'[q][e] = stream[q][e]
      /\ HolderInv' /\ NoStaleStop'
  <2>1. CASE UNCHANGED stream
    <3>1. HolderInv' /\ NoStaleStop'
        BY <1>1, <2>1 DEF IInv, HolderInv, NoStaleStop, Present, Referred, Mapped
    <3>. QED BY <2>1, <3>1 DEF IInv, TypeOK
  <2>2. ASSUME NEW g \in {NoHolder, ref[t]}, SetStream(cur[t], dev[t], g)
        PROVE  /\ stream' \in [Plugin -> [Device -> Holder \cup {NoHolder}]]
               /\ \A q \in Plugin, e \in Device : q # cur[t] => stream'[q][e] = stream[q][e]
               /\ HolderInv' /\ NoStaleStop'
    <3>1. g \in Holder \cup {NoHolder}
        BY <1>1 DEF IInv, TypeOK
    <3>2. g # NoHolder => /\ home[g] = [plugin |-> cur[t], device |-> dev[t]]
                          /\ \E u \in Caller : ref[u] = g
        BY <2>2 DEF IInv, RefInv
    <3>. QED BY <1>1, <2>2, <3>1, <3>2, StreamStep
  <2>. QED BY <1>2, <2>1, <2>2
<1>4. TypeOK'
    BY <1>1, <1>2, <1>3 DEF IInv, TypeOK, Label
<1>5. ThreadInv'
    BY <1>1, ThreadAssumption DEF IInv, TypeOK, ThreadInv, Thread, InCall, CallLabel, Destroying
<1>6. LockInv' /\ LifeInv' /\ FreshInv'
  <2>1. ASSUME NEW q \in Plugin, q # cur[t], Fresh(q) PROVE Fresh(q)'
    <3>1. \A e \in Device : window'[q][e] = window[q][e]
        BY <1>1, <2>1 DEF Act, Start, Stop, GetDeviceState, SetPreviewWindow, Query, library, IInv, TypeOK
    <3>. QED BY <1>3, <2>1, <3>1 DEF Fresh
  <2>2. /\ \A u \in Caller \ {t} : pc'[u] = pc[u]
        /\ \A q \in Plugin : pc'[q] = pc[q]
        /\ pc'[t] = "leave" /\ "act" \in CallLabel /\ "act" \notin Destroying \cup {"install"}
    BY <1>1, ThreadAssumption DEF IInv, TypeOK, Thread, CallLabel, Destroying
  <2>3. LockInv'
    BY <1>1, <2>2 DEF IInv, LockInv
  <2>4. \A q \in Plugin : life[q] = "unborn" => q # cur[t]
    BY <1>1 DEF Alive
  <2>5. LifeInv'
    BY <1>1, <1>3, <2>1, <2>2, <2>4 DEF IInv, LifeInv, Alive, Destroying
  <2>6. FreshInv'
    BY <1>1, <2>1, <2>2 DEF IInv, TypeOK, LifeInv, FreshInv, Destroying
  <2>. QED BY <2>3, <2>5, <2>6
<1>7. RefInv'
    BY <1>1, ThreadAssumption DEF IInv, TypeOK, RefInv, Present, Removed, Thread
<1>8. ToldInv' /\ AnswerInv'
    BY <1>1, <1>2, ThreadAssumption DEF IInv, TypeOK, ToldInv, Told, Between, Unmentioned, Present, AnswerInv, Thread, Caller
<1>. QED BY <1>3, <1>4, <1>5, <1>6, <1>7, <1>8 DEF IInv

\* The stream of a device that is gone is stopped.
LEMMA RemoveStopStep == ASSUME IInv, NEW p \in Plugin, RemoveStop(p) PROVE IInv'
<1>. USE DEF statics, objects, locals, dart
<1>1. /\ p \in Thread /\ pc[p] = "removeStop" /\ dev[p] \in Device
      /\ pc' = [pc EXCEPT ![p] = "sendDetached"] /\ SetStream(p, dev[p], NoHolder)
      /\ UNCHANGED <<statics, objects, home, window, ref, locals, answer, dart, inputs>>
    BY DEF RemoveStop, Goto, Thread, IInv, ThreadInv
<1>2. /\ stream' \in [Plugin -> [Device -> Holder \cup {NoHolder}]]
      /\ \A q \in Plugin, e \in Device : stream'[q][e] \in {stream[q][e], NoHolder}
      /\ HolderInv' /\ NoStaleStop'
  <2>1. /\ stream' \in [Plugin -> [Device -> Holder \cup {NoHolder}]]
        /\ stream'[p][dev[p]] = NoHolder
        /\ \A q \in Plugin, e \in Device : <<q, e>> # <<p, dev[p]>> => stream'[q][e] = stream[q][e]
        /\ HolderInv' /\ NoStaleStop'
    BY <1>1, StreamStep
  <2>. QED BY <2>1
<1>3. TypeOK'
    BY <1>1, <1>2 DEF IInv, TypeOK, Label
<1>4. ThreadInv'
    BY <1>1, ThreadAssumption DEF IInv, TypeOK, ThreadInv, Thread, Callback
<1>5. LockInv' /\ LifeInv' /\ FreshInv'
  <2>1. \A q \in Plugin : Fresh(q) => Fresh(q)'
    BY <1>1, <1>2 DEF Fresh
  <2>2. \A t \in Caller : pc'[t] = pc[t]
    BY <1>1, ThreadAssumption DEF IInv, TypeOK, Thread
  <2>3. \A q \in Plugin : pc'[q] # "idle" => pc[q] # "idle"
    BY <1>1 DEF IInv, TypeOK, Thread
  <2>. QED BY <1>1, <1>2, <2>1, <2>2, <2>3 DEF IInv, TypeOK, LockInv, LifeInv, FreshInv, Alive, Caller
<1>6. RefInv'
    BY <1>1, ThreadAssumption DEF IInv, TypeOK, RefInv, Present, Removed, Thread
<1>7. ToldInv' /\ AnswerInv'
    BY <1>1, ThreadAssumption DEF IInv, TypeOK, ToldInv, Told, Between, Unmentioned, Present, AnswerInv, Thread, Caller
<1>. QED BY <1>2, <1>3, <1>4, <1>5, <1>6, <1>7 DEF IInv

-----------------------------------------------------------------------------
(* Steps that change the map.                                              *)

\* The map gets a holder that nobody refers to yet, and no stream is another one's.
LEMMA NewHolder ==
    ASSUME IInv, NEW p \in Plugin, NEW d \in Device, NEW h \in Holder, ~Present(p, d), home[h] = NoHome,
           holders' = [holders EXCEPT ![p][d] = h],
           home' = [home EXCEPT ![h] = [plugin |-> p, device |-> d]],
           UNCHANGED <<ref, stream>>
    PROVE  /\ holders' \in [Plugin -> [Device -> Holder \cup {NoHolder}]]
           /\ home' \in [Holder -> Place \cup {NoHome}]
           /\ holders'[p][d] = h /\ h # NoHolder
           /\ \A q \in Plugin, e \in Device : <<q, e>> # <<p, d>> => holders'[q][e] = holders[q][e]
           /\ \A t \in Thread : ref[t] # NoHolder => home'[ref[t]] = home[ref[t]]
           /\ \A q \in Plugin, e \in Device : stream[q][e] # h
           /\ HolderInv' /\ NoStaleStop'
<1>1. /\ holders' \in [Plugin -> [Device -> Holder \cup {NoHolder}]]
      /\ holders'[p][d] = h /\ h # NoHolder
      /\ \A q \in Plugin, e \in Device : <<q, e>> # <<p, d>> => holders'[q][e] = holders[q][e]
    BY NonesAssumption DEF IInv, TypeOK
<1>2. /\ home' \in [Holder -> Place \cup {NoHome}]
      /\ home'[h] = [plugin |-> p, device |-> d] /\ \A g \in Holder \ {h} : home'[g] = home[g]
    BY DEF IInv, TypeOK, Place
<1>3. \A q \in Plugin, e \in Device : [plugin |-> q, device |-> e] # NoHome
    BY NonesAssumption DEF NoHome, Thread
<1>4. ASSUME NEW q \in Plugin, NEW e \in Device
      PROVE  holders[q][e] # h /\ stream[q][e] # h
  <2>1. /\ holders[q][e] # NoHolder => home[holders[q][e]] = [plugin |-> q, device |-> e]
        /\ stream[q][e] # NoHolder => home[stream[q][e]] = [plugin |-> q, device |-> e]
    BY DEF IInv, HolderInv, Present
  <2>2. [plugin |-> q, device |-> e] # NoHome
    BY <1>3
  <2>. QED BY <1>1, <2>1, <2>2
<1>5. \A t \in Thread : ref[t] # NoHolder => home'[ref[t]] = home[ref[t]]
  <2>1. \A t \in Thread : ref[t] # h
    <3>1. ASSUME NEW t \in Caller, ref[t] = h PROVE FALSE
        <4>1. cur[t] # NoPlugin /\ NoHome = [plugin |-> cur[t], device |-> dev[t]]
            BY <1>1, <3>1 DEF IInv, RefInv
        <4>. QED BY <4>1 DEF NoHome
    <3>2. ASSUME NEW q \in Plugin, ref[q] = h PROVE FALSE
        <4>1. NoHome = [plugin |-> q, device |-> dev[q]]
            BY <1>1, <3>2 DEF IInv, RefInv
        <4>. QED BY <4>1, NonesAssumption DEF NoHome, Thread
    <3>. QED BY <3>1, <3>2 DEF Thread
  <2>. QED BY <1>2, <2>1 DEF IInv, TypeOK
<1>6. HolderInv'
  <2>1. ASSUME NEW q \in Plugin, NEW e \in Device
        PROVE  /\ holders'[q][e] # NoHolder => home'[holders'[q][e]] = [plugin |-> q, device |-> e]
               /\ stream[q][e] # NoHolder => home'[stream[q][e]] = [plugin |-> q, device |-> e]
    <3>1. stream[q][e] # NoHolder => home'[stream[q][e]] = [plugin |-> q, device |-> e]
        BY <1>2, <1>4 DEF IInv, TypeOK, HolderInv
    <3>2. CASE q = p /\ e = d
        BY <1>1, <1>2, <3>1, <3>2
    <3>3. CASE <<q, e>> # <<p, d>>
        BY <1>1, <1>2, <1>4, <3>1, <3>3 DEF IInv, TypeOK, HolderInv, Present
    <3>. QED BY <3>2, <3>3
  <2>2. ASSUME NEW g \in Holder, home'[g] # NoHome
        PROVE  Referred(g)'
    <3>1. CASE g = h
        BY <1>1, <3>1 DEF Referred, Mapped
    <3>2. CASE g # h
        <4>1. Referred(g)
            BY <1>2, <2>2, <3>2 DEF IInv, HolderInv
        <4>2. ASSUME NEW q \in Plugin, NEW e \in Device, holders[q][e] = g
              PROVE  holders'[q][e] = g
            <5>1. <<q, e>> # <<p, d>>
                BY <4>2, NonesAssumption DEF Present
            <5>. QED BY <1>1, <4>2, <5>1
        <4>. QED BY <4>1, <4>2 DEF Referred, Mapped
    <3>. QED BY <3>1, <3>2
  <2>. QED BY <2>1, <2>2 DEF HolderInv, Present
<1>7. NoStaleStop'
  <2>1. ASSUME NEW q \in Plugin, NEW e \in Device, NEW g \in Holder,
               stream[q][e] # NoHolder, stream[q][e] = holders'[q][e], home'[g] = [plugin |-> q, device |-> e]
        PROVE  g = stream[q][e]
    <3>1. <<q, e>> # <<p, d>>
        BY <1>1, <1>4, <2>1
    <3>2. g # h
        BY <1>2, <2>1, <3>1
    <3>. QED BY <1>1, <1>2, <2>1, <3>1, <3>2 DEF IInv, NoStaleStop
  <2>. QED BY <2>1 DEF NoStaleStop
<1>. QED BY <1>1, <1>2, <1>4, <1>5, <1>6, <1>7

\* The callback puts a new holder into the map if there is none.
LEMMA AddHolderStep == ASSUME IInv, NEW p \in Plugin, AddHolder(p) PROVE IInv'
<1>. USE DEF statics, locals, dart
<1>0. PICK d \in Device : d = dev[p]
    BY DEF AddHolder, IInv, ThreadInv
<1>1. /\ p \in Thread /\ pc[p] = "create" /\ Alive(p)
      /\ pc' = [pc EXCEPT ![p] = "sendAttached"] /\ m_lock' = [m_lock EXCEPT ![p] = "free"]
      /\ UNCHANGED <<statics, life, stream, ref, locals, answer, dart, inputs>>
    BY DEF AddHolder, Goto, Thread, IInv, ThreadInv, LifeInv
<1>2. /\ holders' \in [Plugin -> [Device -> Holder \cup {NoHolder}]]
      /\ home' \in [Holder -> Place \cup {NoHome}]
      /\ window' \in [Plugin -> [Device -> Surface \cup {NoSurface}]]
      /\ holders'[p][d] # NoHolder
      /\ \A q \in Plugin, e \in Device : <<q, e>> # <<p, d>> => holders'[q][e] = holders[q][e]
      /\ \A t \in Thread : ref[t] # NoHolder => home'[ref[t]] = home[ref[t]]
      /\ HolderInv' /\ NoStaleStop'
  <2>1. CASE Present(p, d)
    <3>1. UNCHANGED <<holders, home, window>>
        BY <1>0, <2>1 DEF AddHolder, Present
    <3>2. HolderInv' /\ NoStaleStop'
        BY <1>1, <3>1 DEF IInv, HolderInv, NoStaleStop, Present, Referred, Mapped
    <3>. QED BY <2>1, <3>1, <3>2 DEF IInv, TypeOK, Present
  <2>2. CASE ~Present(p, d)
    <3>1. FreeHolder \in Holder /\ home[FreeHolder] = NoHome
        BY <1>0, <2>2 DEF AddHolder, Present, FreeHolder
    <3>2. /\ holders' = [holders EXCEPT ![p][d] = FreeHolder]
          /\ home' = [home EXCEPT ![FreeHolder] = [plugin |-> p, device |-> d]]
          /\ window' = [window EXCEPT ![p][d] = NoSurface]
        BY <1>0, <2>2 DEF AddHolder, Present
    <3>3. window' \in [Plugin -> [Device -> Surface \cup {NoSurface}]]
        BY <1>1, <3>2 DEF IInv, TypeOK
    <3>4. /\ holders' \in [Plugin -> [Device -> Holder \cup {NoHolder}]]
          /\ home' \in [Holder -> Place \cup {NoHome}]
          /\ holders'[p][d] = FreeHolder /\ FreeHolder # NoHolder
          /\ \A q \in Plugin, e \in Device : <<q, e>> # <<p, d>> => holders'[q][e] = holders[q][e]
          /\ \A t \in Thread : ref[t] # NoHolder => home'[ref[t]] = home[ref[t]]
          /\ HolderInv' /\ NoStaleStop'
        <4>1. UNCHANGED <<ref, stream>>
            BY <1>1
        <4>2. PICK h \in Holder : h = FreeHolder
            BY <3>1
        <4>3. home[h] = NoHome /\ holders' = [holders EXCEPT ![p][d] = h]
              /\ home' = [home EXCEPT ![h] = [plugin |-> p, device |-> d]]
            BY <3>1, <3>2, <4>2
        <4>4. /\ holders' \in [Plugin -> [Device -> Holder \cup {NoHolder}]]
              /\ home' \in [Holder -> Place \cup {NoHome}]
              /\ holders'[p][d] = h /\ h # NoHolder
              /\ \A q \in Plugin, e \in Device : <<q, e>> # <<p, d>> => holders'[q][e] = holders[q][e]
              /\ \A t \in Thread : ref[t] # NoHolder => home'[ref[t]] = home[ref[t]]
              /\ \A q \in Plugin, e \in Device : stream[q][e] # h
              /\ HolderInv' /\ NoStaleStop'
            BY <2>2, <4>1, <4>3, NewHolder, Zenon
        <4>. QED BY <4>2, <4>4
    <3>. QED BY <3>3, <3>4
  <2>. QED BY <2>1, <2>2
<1>3. TypeOK'
  <2>1. m_lock' \in [Plugin -> Thread \cup {"free"}] /\ pc' \in [Thread -> Label]
    BY <1>1 DEF IInv, TypeOK, Label
  <2>. QED BY <1>1, <1>2, <2>1 DEF IInv, TypeOK
<1>4. ThreadInv'
    BY <1>0, <1>1, ThreadAssumption DEF IInv, TypeOK, ThreadInv, Thread, Callback
<1>5. \A q \in Plugin, e \in Device : q # p => holders'[q][e] = holders[q][e]
    BY <1>2
<1>6. /\ p # "platform" /\ pc'["platform"] = pc["platform"] /\ pc'[p] = "sendAttached"
      /\ \A t \in Caller : pc'[t] = pc[t]
      /\ \A q \in Plugin : q # p => pc'[q] = pc[q]
    BY <1>1, ThreadAssumption DEF IInv, TypeOK, Thread, Caller
<1>11. \A q \in Plugin : Fresh(q) => Fresh(q)'
  <2>1. UNCHANGED stream /\ d \in Device
    BY <1>1
  <2>2. window' = window \/ window' = [window EXCEPT ![p][d] = NoSurface]
    BY <1>0 DEF AddHolder
  <2>3. \A q \in Plugin, e \in Device : window'[q][e] \in {window[q][e], NoSurface}
    <3>1. window \in [Plugin -> [Device -> Surface \cup {NoSurface}]]
        BY DEF IInv, TypeOK
    <3>2. CASE window' = window
        BY <3>2
    <3>3. CASE window' = [window EXCEPT ![p][d] = NoSurface]
        BY <3>1, <3>3
    <3>. QED BY <2>2, <3>2, <3>3
  <2>. QED BY <2>1, <2>3 DEF Fresh
<1>7. LockInv' /\ LifeInv' /\ FreshInv'
  <2>1. LockInv'
    BY <1>1, <1>6 DEF IInv, LockInv
  <2>2. LifeInv'
    BY <1>1, <1>6, <1>11 DEF IInv, LifeInv, Alive
  <2>3. FreshInv'
    BY <1>1, <1>6, <1>11 DEF IInv, TypeOK, LifeInv, FreshInv
  <2>. QED BY <2>1, <2>2, <2>3
<1>8. RefInv'
  <2>1. UNCHANGED <<ref, cur, dev>>
    BY <1>1
  <2>2. ASSUME NEW t \in Caller, ref[t] # NoHolder
        PROVE  /\ pc'[t] \in {"available", "act", "leave"} /\ cur[t] # NoPlugin
               /\ home'[ref[t]] = [plugin |-> cur[t], device |-> dev[t]]
    BY <1>2, <1>6, <2>2 DEF IInv, RefInv, Thread
  <2>3. ASSUME NEW q \in Plugin, pc'[q] \in Removed \/ ref[q] # NoHolder
        PROVE  pc'[q] = pc[q] /\ q # p
    BY <1>1, <1>6, <2>3 DEF IInv, RefInv, Removed
  <2>4. ASSUME NEW q \in Plugin, ref[q] # NoHolder
        PROVE  pc'[q] \in Removed /\ home'[ref[q]] = [plugin |-> q, device |-> dev[q]]
    BY <1>2, <2>3, <2>4 DEF IInv, RefInv, Thread
  <2>5. ASSUME NEW q \in Plugin, pc'[q] \in Removed
        PROVE  holders'[q][dev[q]] = NoHolder
    <3>1. pc[q] \in Removed /\ q # p /\ dev[q] \in Device
        BY <2>3, <2>5 DEF IInv, ThreadInv, Removed
    <3>. QED BY <1>5, <3>1 DEF IInv, RefInv, Present
  <2>. QED BY <2>1, <2>2, <2>4, <2>5 DEF RefInv, Present
<1>9. ToldInv'
  <2>1. UNCHANGED <<served, pluginJava, dev, queue, controllers, told, life>>
    BY <1>1
  <2>2. ASSUME NEW q \in Plugin, pc'[q] = "sendAttached", life[q] = "alive"
        PROVE  Present(q, dev[q])'
    <3>1. CASE q = p
        BY <1>0, <1>2, <2>1, <3>1 DEF Present
    <3>2. CASE q # p
        BY <1>5, <1>6, <2>1, <2>2, <3>2 DEF IInv, ToldInv, ThreadInv, Callback, Present
    <3>. QED BY <3>1, <3>2
  <2>3. ASSUME served # NoPlugin, served = pluginJava, pc["platform"] # "install", NEW e \in Device
        PROVE  IF e \in told THEN Between(e)' \/ Told(e)' ELSE e \notin controllers' /\ Unmentioned(e, 0)'
    <3>1. IF e \in told THEN Between(e) \/ Told(e) ELSE e \notin controllers /\ Unmentioned(e, 0)
        BY <2>3 DEF IInv, ToldInv
    <3>2. served = p /\ e = d => Between(e)'
        BY <1>0, <1>6, <2>1 DEF Between
    <3>3. served # p \/ e # d => (Present(served, e)' <=> Present(served, e))
        BY <1>2, <2>1, <2>3 DEF Present, IInv, TypeOK
    <3>4. Between(e) => Between(e)'
        BY <1>1, <1>6, <2>1, <2>3 DEF Between, IInv, TypeOK
    <3>5. Told(e) /\ (served # p \/ e # d) => Told(e)'
        BY <2>1, <3>3 DEF Told, Unmentioned
    <3>. QED BY <2>1, <3>1, <3>2, <3>4, <3>5 DEF Unmentioned
  <2>. QED BY <1>6, <2>1, <2>2, <2>3 DEF ToldInv
<1>10. AnswerInv'
    BY <1>1, ThreadAssumption DEF IInv, TypeOK, AnswerInv, Thread, Caller
<1>. QED BY <1>2, <1>3, <1>4, <1>7, <1>8, <1>9, <1>10 DEF IInv

\* The callback takes the holder out of the map, and keeps a reference to it.
LEMMA RemoveHolderStep == ASSUME IInv, NEW p \in Plugin, RemoveHolder(p) PROVE IInv'
<1>. USE DEF statics, dart
<1>0. PICK d \in Device : d = dev[p]
    BY DEF RemoveHolder, IInv, ThreadInv
<1>1. /\ p \in Thread /\ pc[p] = "remove" /\ Alive(p)
      /\ \/ /\ Present(p, d)
            /\ pc' = [pc EXCEPT ![p] = "removeStop"] /\ dev' = dev
         \/ /\ ~Present(p, d)
            /\ pc' = [pc EXCEPT ![p] = "idle"] /\ dev' = [dev EXCEPT ![p] = NoDevice]
      /\ UNCHANGED <<statics, life, m_lock, home, stream, window, cur, op, surface, answer, dart, inputs>>
    BY <1>0 DEF RemoveHolder, Goto, library, Present, Thread, IInv, ThreadInv, LifeInv
<1>2. /\ holders' \in [Plugin -> [Device -> Holder \cup {NoHolder}]]
      /\ holders'[p][d] = NoHolder
      /\ \A q \in Plugin, e \in Device : <<q, e>> # <<p, d>> => holders'[q][e] = holders[q][e]
    BY <1>0 DEF RemoveHolder, IInv, TypeOK
<1>3. /\ ref[p] = NoHolder
      /\ ref' \in [Thread -> Holder \cup {NoHolder}]
      /\ ref'[p] = holders[p][d] /\ \A t \in Thread \ {p} : ref'[t] = ref[t]
  <2>1. ref[p] = NoHolder
    BY <1>1 DEF IInv, RefInv, Removed
  <2>2. ref' = [ref EXCEPT ![p] = holders[p][d]] /\ holders[p][d] \in Holder \cup {NoHolder}
    BY <1>0 DEF RemoveHolder, IInv, TypeOK
  <2>. QED BY <1>1, <2>1, <2>2 DEF IInv, TypeOK
<1>4. /\ pc' \in [Thread -> Label] /\ dev' \in [Thread -> Device \cup {NoDevice}]
      /\ pc'[p] \in {"idle", "removeStop"}
      /\ pc'[p] = "removeStop" => Present(p, d) /\ dev'[p] = d
      /\ Present(p, d) => pc'[p] = "removeStop"
      /\ \A t \in Thread \ {p} : pc'[t] = pc[t] /\ dev'[t] = dev[t]
  <2>1. CASE Present(p, d)
    <3>1. pc' = [pc EXCEPT ![p] = "removeStop"] /\ dev' = dev
        BY <1>1, <2>1
    <3>. QED BY <1>0, <1>1, <2>1, <3>1 DEF IInv, TypeOK, Label
  <2>2. CASE ~Present(p, d)
    <3>1. pc' = [pc EXCEPT ![p] = "idle"] /\ dev' = [dev EXCEPT ![p] = NoDevice]
        BY <1>1, <2>2
    <3>. QED BY <1>1, <2>2, <3>1 DEF IInv, TypeOK, Label
  <2>. QED BY <2>1, <2>2
<1>5. p \notin Caller /\ \A q \in Plugin \cup Caller : q \in Thread
    BY ThreadAssumption DEF Thread
<1>6. HolderInv'
  <2>1. ASSUME NEW q \in Plugin, NEW e \in Device, holders'[q][e] # NoHolder
        PROVE  holders'[q][e] = holders[q][e]
    BY <1>2, <2>1
  <2>2. ASSUME NEW g \in Holder, home[g] # NoHome PROVE Referred(g)'
    <3>1. Referred(g) /\ g # NoHolder
        BY <2>2, NonesAssumption DEF IInv, HolderInv
    <3>2. CASE \E t \in Thread : ref[t] = g
        BY <1>3, <3>1, <3>2 DEF Referred
    <3>3. CASE Mapped(g)
        <4>1. PICK q \in Plugin, e \in Device : holders[q][e] = g
            BY <3>3 DEF Mapped
        <4>2. CASE q = p /\ e = d
            BY <1>1, <1>3, <4>1, <4>2 DEF Referred
        <4>3. CASE <<q, e>> # <<p, d>>
            BY <1>2, <4>1, <4>3 DEF Referred, Mapped
        <4>. QED BY <4>2, <4>3
    <3>. QED BY <3>1, <3>2, <3>3 DEF Referred
  <2>3. UNCHANGED <<home, stream>>
    BY <1>1
  <2>. QED BY <2>1, <2>2, <2>3 DEF IInv, HolderInv, Present
<1>7. NoStaleStop'
  <2>1. ASSUME NEW q \in Plugin, NEW e \in Device, NEW h \in Holder,
               stream[q][e] # NoHolder, stream[q][e] = holders'[q][e], home[h] = [plugin |-> q, device |-> e]
        PROVE  h = stream[q][e]
    <3>1. holders'[q][e] = holders[q][e]
        BY <1>2, <2>1
    <3>. QED BY <2>1, <3>1 DEF IInv, NoStaleStop
  <2>2. UNCHANGED <<home, stream>>
    BY <1>1
  <2>. QED BY <2>1, <2>2 DEF NoStaleStop
<1>8. TypeOK'
  <2>1. UNCHANGED <<statics, life, m_lock, home, stream, window, cur, op, surface, answer, dart, inputs>>
    BY <1>1
  <2>. QED BY <1>2, <1>3, <1>4, <2>1 DEF IInv, TypeOK
<1>9. ThreadInv'
    BY <1>0, <1>1, <1>4, <1>5 DEF IInv, ThreadInv, Callback
<1>10. \A q \in Plugin : Fresh(q) => Fresh(q)'
    BY <1>1 DEF Fresh
<1>11. LockInv' /\ LifeInv' /\ FreshInv'
  <2>1. /\ \A t \in Caller : pc'[t] = pc[t]
        /\ \A q \in Plugin : pc'[q] # "idle" => pc[q] # "idle"
        /\ "platform" \in Caller
    BY <1>1, <1>4, <1>5 DEF Caller
  <2>2. LockInv'
    BY <1>1, <2>1 DEF IInv, LockInv
  <2>3. LifeInv'
    BY <1>1, <1>10, <2>1 DEF IInv, LifeInv, Alive
  <2>4. FreshInv'
    BY <1>1, <1>10, <2>1 DEF IInv, TypeOK, LifeInv, FreshInv
  <2>. QED BY <2>2, <2>3, <2>4
<1>12. RefInv'
  <2>1. ASSUME NEW t \in Caller, ref'[t] # NoHolder
        PROVE  /\ pc'[t] \in {"available", "act", "leave"} /\ cur'[t] # NoPlugin
               /\ home'[ref'[t]] = [plugin |-> cur'[t], device |-> dev'[t]]
    <3>1. t # p /\ ref'[t] = ref[t] /\ pc'[t] = pc[t] /\ dev'[t] = dev[t] /\ UNCHANGED <<cur, home>>
        BY <1>1, <1>3, <1>4, <1>5
    <3>. QED BY <2>1, <3>1 DEF IInv, RefInv
  <2>2. CASE ~Present(p, d)
    <3>1. pc'[p] = "idle" /\ ref'[p] = NoHolder
        BY <1>3, <1>4, <2>2 DEF Present
    <3>2. ASSUME NEW q \in Plugin, q # p
          PROVE  pc'[q] = pc[q] /\ dev'[q] = dev[q] /\ ref'[q] = ref[q]
        BY <1>3, <1>4, <1>5, <3>2
    <3>3. \A q \in Plugin, e \in Device : holders[q][e] = NoHolder => holders'[q][e] = NoHolder
        BY <1>2
    <3>4. \A q \in Plugin : pc[q] \in Removed => dev[q] \in Device
        BY DEF IInv, ThreadInv, Removed
    <3>5. UNCHANGED home
        BY <1>1
    <3>. QED BY <2>1, <3>1, <3>2, <3>3, <3>4, <3>5 DEF IInv, RefInv, Present, Removed
  <2>3. CASE Present(p, d)
    <3>1. /\ pc'[p] = "removeStop" /\ dev'[p] = d /\ holders'[p][d] = NoHolder
          /\ home'[ref'[p]] = [plugin |-> p, device |-> d]
        BY <1>1, <1>2, <1>3, <1>4, <2>3 DEF IInv, HolderInv, Present
    <3>2. ASSUME NEW q \in Plugin, q # p
          PROVE  pc'[q] = pc[q] /\ dev'[q] = dev[q] /\ ref'[q] = ref[q]
        BY <1>3, <1>4, <1>5, <3>2
    <3>3. \A q \in Plugin, e \in Device : holders[q][e] = NoHolder => holders'[q][e] = NoHolder
        BY <1>2
    <3>4. \A q \in Plugin : pc[q] \in Removed => dev[q] \in Device
        BY DEF IInv, ThreadInv, Removed
    <3>5. UNCHANGED home
        BY <1>1
    <3>. QED BY <2>1, <3>1, <3>2, <3>3, <3>4, <3>5 DEF IInv, RefInv, Present, Removed
  <2>. QED BY <2>2, <2>3
<1>13. ToldInv'
  <2>1. UNCHANGED <<served, pluginJava, queue, controllers, told, life>> /\ pc'["platform"] = pc["platform"]
    BY <1>1, <1>4, <1>5 DEF Caller
  <2>2. ASSUME NEW q \in Plugin, pc'[q] = "sendAttached", life[q] = "alive"
        PROVE  Present(q, dev[q])'
    <3>1. q # p /\ pc[q] = "sendAttached" /\ dev'[q] = dev[q] /\ dev[q] \in Device
        BY <1>4, <1>5, <2>2 DEF IInv, ThreadInv
    <3>. QED BY <1>2, <2>2, <3>1 DEF IInv, ToldInv, Present
  <2>3. ASSUME served # NoPlugin, served = pluginJava, pc["platform"] # "install", NEW e \in Device
        PROVE  IF e \in told THEN Between(e)' \/ Told(e)' ELSE e \notin controllers' /\ Unmentioned(e, 0)'
    <3>1. IF e \in told THEN Between(e) \/ Told(e) ELSE e \notin controllers /\ Unmentioned(e, 0)
        BY <2>3 DEF IInv, ToldInv
    <3>2. served = p /\ e = d /\ Present(p, d) => Between(e)'
        BY <1>4, <2>1 DEF Between
    <3>3. served # p \/ e # d \/ ~Present(p, d) => (Present(served, e)' <=> Present(served, e))
        BY <1>2, <2>1, <2>3 DEF Present, IInv, TypeOK
    <3>4. Between(e) => Between(e)'
        BY <1>1, <1>4, <1>5, <2>1, <2>3 DEF Between, IInv, TypeOK
    <3>5. Told(e) /\ (served # p \/ e # d \/ ~Present(p, d)) => Told(e)'
        BY <2>1, <3>3 DEF Told, Unmentioned
    <3>. QED BY <2>1, <3>1, <3>2, <3>4, <3>5 DEF Unmentioned
  <2>. QED BY <2>1, <2>2, <2>3 DEF ToldInv
<1>14. AnswerInv'
    BY <1>1, <1>4, <1>5 DEF IInv, AnswerInv, Caller
<1>. QED BY <1>6, <1>7, <1>8, <1>9, <1>11, <1>12, <1>13, <1>14 DEF IInv

\* The map is emptied, and the holders that only it referred to are destroyed; their
\* streams have been stopped.
LEMMA ClearMap ==
    ASSUME IInv, NEW p \in Plugin,
           holders' = [holders EXCEPT ![p] = NoHolders],
           home' = [h \in Holder |-> IF h \in Cleared(p) THEN NoHome ELSE home[h]],
           UNCHANGED ref,
           stream' \in [Plugin -> [Device -> Holder \cup {NoHolder}]],
           \A q \in Plugin, e \in Device : q # p => stream'[q][e] = stream[q][e],
           \A e \in Device : stream'[p][e] = NoHolder \/ (stream'[p][e] = stream[p][e] /\ ~Present(p, e))
    PROVE  /\ holders' \in [Plugin -> [Device -> Holder \cup {NoHolder}]]
           /\ home' \in [Holder -> Place \cup {NoHome}]
           /\ \A e \in Device : holders'[p][e] = NoHolder
           /\ \A q \in Plugin, e \in Device : q # p => holders'[q][e] = holders[q][e]
           /\ \A t \in Thread : ref[t] # NoHolder => home'[ref[t]] = home[ref[t]]
           /\ HolderInv' /\ NoStaleStop'
<1>1. /\ holders' \in [Plugin -> [Device -> Holder \cup {NoHolder}]]
      /\ \A e \in Device : holders'[p][e] = NoHolder
      /\ \A q \in Plugin, e \in Device : q # p => holders'[q][e] = holders[q][e]
    BY DEF NoHolders, IInv, TypeOK
<1>2. /\ home' \in [Holder -> Place \cup {NoHome}]
      /\ \A h \in Holder : home'[h] = IF h \in Cleared(p) THEN NoHome ELSE home[h]
    BY DEF IInv, TypeOK
<1>3. \A q \in Plugin, e \in Device : [plugin |-> q, device |-> e] # NoHome
    BY NonesAssumption DEF NoHome, Thread
<1>4. ASSUME NEW h \in Cleared(p)
      PROVE  /\ h \in Holder /\ \A t \in Thread : ref[t] # h
             /\ \E e \in Device : holders[p][e] = h /\ Present(p, e) /\ home[h] = [plugin |-> p, device |-> e]
    BY NonesAssumption DEF Cleared, IInv, HolderInv, Present
<1>5. \A t \in Thread : ref[t] # NoHolder => home'[ref[t]] = home[ref[t]]
    BY <1>2, <1>4 DEF IInv, TypeOK
<1>6. HolderInv'
  <2>1. ASSUME NEW q \in Plugin, NEW e \in Device, holders'[q][e] # NoHolder
        PROVE  home'[holders'[q][e]] = [plugin |-> q, device |-> e]
    <3>1. /\ q # p /\ holders'[q][e] = holders[q][e] /\ holders[q][e] \in Holder
          /\ home[holders[q][e]] = [plugin |-> q, device |-> e]
        BY <1>1, <2>1 DEF IInv, TypeOK, HolderInv, Present
    <3>2. holders[q][e] \notin Cleared(p)
      <4>1. SUFFICES ASSUME holders[q][e] \in Cleared(p) PROVE FALSE
        OBVIOUS
      <4>2. PICK f \in Device : home[holders[q][e]] = [plugin |-> p, device |-> f]
        BY <1>4, <4>1
      <4>. QED BY <3>1, <4>2
    <3>. QED BY <1>2, <3>1, <3>2
  <2>2. ASSUME NEW q \in Plugin, NEW e \in Device, stream'[q][e] # NoHolder
        PROVE  home'[stream'[q][e]] = [plugin |-> q, device |-> e]
    <3>1. /\ stream'[q][e] = stream[q][e] /\ stream[q][e] \in Holder
          /\ home[stream[q][e]] = [plugin |-> q, device |-> e]
          /\ q = p => ~Present(p, e)
        BY <2>2 DEF IInv, TypeOK, HolderInv
    <3>2. stream[q][e] \notin Cleared(p)
      <4>1. SUFFICES ASSUME stream[q][e] \in Cleared(p) PROVE FALSE
        OBVIOUS
      <4>2. PICK f \in Device : Present(p, f) /\ home[stream[q][e]] = [plugin |-> p, device |-> f]
        BY <1>4, <4>1
      <4>. QED BY <3>1, <4>2
    <3>. QED BY <1>2, <3>1, <3>2
  <2>3. ASSUME NEW g \in Holder, home'[g] # NoHome PROVE Referred(g)'
    <3>1. g \notin Cleared(p) /\ Referred(g)
        BY <1>2, <2>3 DEF IInv, HolderInv
    <3>2. CASE \E t \in Thread : ref[t] = g
        BY <3>2 DEF Referred
    <3>3. CASE ~\E t \in Thread : ref[t] = g
        <4>1. PICK q \in Plugin, e \in Device : holders[q][e] = g
            BY <3>1, <3>3 DEF Referred, Mapped
        <4>2. q # p
            BY <3>1, <3>3, <4>1 DEF Cleared
        <4>. QED BY <1>1, <4>1, <4>2 DEF Referred, Mapped
    <3>. QED BY <3>2, <3>3
  <2>. QED BY <2>1, <2>2, <2>3 DEF HolderInv, Present
<1>7. NoStaleStop'
  <2>1. ASSUME NEW q \in Plugin, NEW e \in Device, NEW g \in Holder,
               stream'[q][e] # NoHolder, stream'[q][e] = holders'[q][e], home'[g] = [plugin |-> q, device |-> e]
        PROVE  g = stream'[q][e]
    <3>1. q # p /\ holders'[q][e] = holders[q][e] /\ stream'[q][e] = stream[q][e]
        BY <1>1, <2>1
    <3>2. home[g] = [plugin |-> q, device |-> e]
        BY <1>2, <1>3, <2>1
    <3>. QED BY <2>1, <3>1, <3>2 DEF IInv, NoStaleStop
  <2>. QED BY <2>1 DEF NoStaleStop
<1>. QED BY <1>1, <1>2, <1>5, <1>6, <1>7

\* The object being destroyed is not the current one, and Dart is not served by it as
\* such; what the destructor leaves of holders, streams and references is what the rest of
\* the invariant needs.
LEMMA DestructorKeeps ==
    ASSUME IInv, NEW p \in Plugin, p = cur["platform"], pc["platform"] \in Destroying,
           UNCHANGED <<pluginJava, ref, dev, served, queue, controllers, told, answer>>,
           \A t \in Thread \ {"platform"} : pc'[t] = pc[t],
           \A q \in Plugin : life'[q] = "alive" => life[q] = "alive" /\ q # p,
           \A q \in Plugin, e \in Device : q # p => holders'[q][e] = holders[q][e],
           \A q \in Plugin, e \in Device : stream'[q][e] \in {stream[q][e], NoHolder},
           \A q \in Plugin, e \in Device : window'[q][e] \in {window[q][e], NoSurface},
           pc'["platform"] \in Destroying \cup {"idle"},
           \A t \in Caller \ {"platform"} : cur'[t] = cur[t],
           \A q \in Plugin, e \in Device : holders'[q][e] \in {holders[q][e], NoHolder},
           \A t \in Thread : ref[t] # NoHolder => home'[ref[t]] = home[ref[t]]
    PROVE  /\ p # pluginJava
           /\ \A q \in Plugin : Fresh(q) => Fresh(q)'
           /\ FreshInv' /\ RefInv' /\ ToldInv' /\ AnswerInv'
<1>1. p # pluginJava
    BY DEF IInv, LifeInv, Destroying
<1>2. "platform" \in Caller /\ \A q \in Plugin : q # "platform" /\ pc'[q] = pc[q]
    BY ThreadAssumption DEF Thread, Caller
<1>3. \A q \in Plugin : Fresh(q) => Fresh(q)'
    BY DEF Fresh
<1>4. pluginJava # NoPlugin => served # pluginJava
    BY DEF IInv, FreshInv
<1>5. FreshInv'
    BY <1>3, <1>4 DEF IInv, TypeOK, FreshInv, Destroying
<1>6. RefInv'
  <2>1. ASSUME NEW t \in Caller, ref[t] # NoHolder
        PROVE  t # "platform" /\ t \in Thread
    BY <2>1 DEF IInv, RefInv, Destroying, Thread
  <2>2. \A q \in Plugin : pc[q] \in Removed => dev[q] \in Device
    BY DEF IInv, ThreadInv, Removed
  <2>3. \A q \in Plugin : q \in Thread
    BY DEF Thread
  <2>. QED BY <1>2, <2>1, <2>2, <2>3 DEF IInv, RefInv, Present
<1>7. ToldInv'
  <2>1. \A q \in Plugin : pc'[q] = "sendAttached" /\ life'[q] = "alive" => Present(q, dev[q])'
    BY <1>2 DEF IInv, ToldInv, ThreadInv, Present
  <2>. QED BY <1>4, <2>1 DEF ToldInv
<1>8. AnswerInv'
    BY DEF IInv, AnswerInv, Thread, Caller
<1>. QED BY <1>1, <1>3, <1>5, <1>6, <1>7, <1>8

\* The destructor stops every stream of the map and empties it.
LEMMA TerminateAllStep == ASSUME IInv, TerminateAll PROVE IInv'
<1>. USE DEF statics, locals, dart
<1>0. PICK p \in Plugin : p = cur["platform"]
    BY DEF TerminateAll, IInv, LifeInv, Destroying
<1>1. /\ pc["platform"] = "terminate" /\ "platform" \in Thread /\ "platform" \in Caller
      /\ pc["platform"] \in Destroying /\ life[p] = "alive"
      /\ pc' = [pc EXCEPT !["platform"] = "release"] /\ life' = [life EXCEPT ![p] = "terminated"]
      /\ stream' = [stream EXCEPT ![p] = [d \in Device |-> IF holders[p][d] # NoHolder THEN NoHolder ELSE @[d]]]
      /\ home' = [h \in Holder |-> IF h \in Cleared(p) THEN NoHome ELSE home[h]]
      /\ holders' = [holders EXCEPT ![p] = NoHolders]
      /\ UNCHANGED <<statics, m_lock, window, ref, locals, answer, dart, inputs>>
    BY <1>0 DEF TerminateAll, Goto, Thread, Caller, Destroying, IInv, LifeInv
<1>2. /\ stream' \in [Plugin -> [Device -> Holder \cup {NoHolder}]]
      /\ \A q \in Plugin, e \in Device : q # p => stream'[q][e] = stream[q][e]
      /\ \A e \in Device : stream'[p][e] = NoHolder \/ (stream'[p][e] = stream[p][e] /\ ~Present(p, e))
    BY <1>1 DEF IInv, TypeOK, Present
<1>3. UNCHANGED ref
    BY <1>1
<1>4. /\ holders' \in [Plugin -> [Device -> Holder \cup {NoHolder}]]
      /\ home' \in [Holder -> Place \cup {NoHome}]
      /\ \A e \in Device : holders'[p][e] = NoHolder
      /\ \A q \in Plugin, e \in Device : q # p => holders'[q][e] = holders[q][e]
      /\ \A t \in Thread : ref[t] # NoHolder => home'[ref[t]] = home[ref[t]]
      /\ HolderInv' /\ NoStaleStop'
    BY <1>1, <1>2, <1>3, ClearMap
<1>5. /\ pc' \in [Thread -> Label] /\ life' \in [Plugin -> {"unborn", "alive", "terminated", "released", "dead"}]
      /\ pc'["platform"] = "release" /\ \A t \in Thread \ {"platform"} : pc'[t] = pc[t]
      /\ life'[p] = "terminated" /\ \A q \in Plugin \ {p} : life'[q] = life[q]
    BY <1>1 DEF IInv, TypeOK, Label
<1>6. /\ p # pluginJava
      /\ \A q \in Plugin : Fresh(q) => Fresh(q)'
      /\ FreshInv' /\ RefInv' /\ ToldInv' /\ AnswerInv'
  <2>1. \A q \in Plugin, e \in Device : holders'[q][e] \in {holders[q][e], NoHolder}
    BY <1>4
  <2>2. /\ UNCHANGED <<pluginJava, ref, dev, served, queue, controllers, told, answer>>
        /\ pc'["platform"] \in Destroying \cup {"idle"}
        /\ \A t \in Caller \ {"platform"} : cur'[t] = cur[t]
    BY <1>1, <1>5 DEF Destroying
  <2>. QED BY <1>0, <1>1, <1>4, <1>5, <2>1, <2>2, DestructorKeeps
<1>7. TypeOK'
    BY <1>1, <1>2, <1>4, <1>5 DEF IInv, TypeOK
<1>8. ThreadInv' /\ LockInv'
    BY <1>1, <1>5, ThreadAssumption DEF IInv, ThreadInv, LockInv, Thread, Destroying, InCall, CallLabel
<1>9. LifeInv'
  <2>1. \A q \in Plugin : pc'[q] = pc[q] /\ q # "platform"
    BY <1>1, <1>5, ThreadAssumption DEF Thread
  <2>2. \A q \in Plugin : Alive(q)' <=> Alive(q)
    BY <1>1, <1>5 DEF Alive
  <2>3. \A q \in Plugin : life'[q] = "unborn" <=> life[q] = "unborn"
    BY <1>1, <1>5
  <2>4. ASSUME NEW q \in Plugin, ~Alive(q), NEW e \in Device PROVE stream'[q][e] = NoHolder
    BY <1>2, <2>4 DEF IInv, LifeInv
  <2>5. UNCHANGED <<pluginJava, cur, served>>
    BY <1>1
  <2>6. pluginJava # NoPlugin => life'[pluginJava] = "alive"
    BY <1>5, <1>6 DEF IInv, TypeOK, LifeInv
  <2>7. served # NoPlugin => life'[served] # "unborn"
    BY <2>3 DEF IInv, TypeOK, LifeInv
  <2>. QED BY <1>0, <1>1, <1>5, <1>6, <2>1, <2>2, <2>3, <2>4, <2>5, <2>6, <2>7 DEF IInv, LifeInv, Destroying
<1>. QED BY <1>4, <1>6, <1>7, <1>8, <1>9 DEF IInv

\* manager_release waits for the callback that is running and ends every stream.
LEMMA ManagerReleaseStep == ASSUME IInv, ManagerRelease PROVE IInv'
<1>. USE DEF statics, locals, dart
<1>0. PICK p \in Plugin : p = cur["platform"]
    BY DEF ManagerRelease, IInv, LifeInv, Destroying
<1>1. /\ pc["platform"] = "release" /\ "platform" \in Thread /\ "platform" \in Caller
      /\ pc["platform"] \in Destroying /\ life[p] = "terminated" /\ pc[p] = "idle"
      /\ pc' = [pc EXCEPT !["platform"] = "members"] /\ life' = [life EXCEPT ![p] = "released"]
      /\ stream' = [stream EXCEPT ![p] = NoHolders]
      /\ window' = [window EXCEPT ![p] = [d \in Device |-> NoSurface]]
      /\ UNCHANGED <<statics, m_lock, holders, home, ref, locals, answer, dart, inputs>>
    BY <1>0 DEF ManagerRelease, Goto, Thread, Caller, Destroying, IInv, LifeInv
<1>2. /\ stream' \in [Plugin -> [Device -> Holder \cup {NoHolder}]]
      /\ \A q \in Plugin, e \in Device : stream'[q][e] \in {stream[q][e], NoHolder}
      /\ \A e \in Device : stream'[p][e] = NoHolder
    BY <1>1 DEF NoHolders, IInv, TypeOK
<1>3. UNCHANGED <<holders, home, ref>>
    BY <1>1
<1>4. HolderInv' /\ NoStaleStop'
    BY <1>2, <1>3 DEF IInv, HolderInv, NoStaleStop, Present, Referred, Mapped
<1>5. /\ pc' \in [Thread -> Label] /\ life' \in [Plugin -> {"unborn", "alive", "terminated", "released", "dead"}]
      /\ window' \in [Plugin -> [Device -> Surface \cup {NoSurface}]]
      /\ pc'["platform"] = "members" /\ \A t \in Thread \ {"platform"} : pc'[t] = pc[t]
      /\ life'[p] = "released" /\ \A q \in Plugin \ {p} : life'[q] = life[q]
    BY <1>1 DEF IInv, TypeOK, Label
<1>6. /\ p # pluginJava
      /\ \A q \in Plugin : Fresh(q) => Fresh(q)'
      /\ FreshInv' /\ RefInv' /\ ToldInv' /\ AnswerInv'
  <2>1. /\ \A q \in Plugin, e \in Device : holders'[q][e] \in {holders[q][e], NoHolder}
        /\ \A q \in Plugin, e \in Device : q # p => holders'[q][e] = holders[q][e]
        /\ \A t \in Thread : ref[t] # NoHolder => home'[ref[t]] = home[ref[t]]
    BY <1>3
  <2>3. /\ \A q \in Plugin, e \in Device : stream'[q][e] \in {stream[q][e], NoHolder}
        /\ \A q \in Plugin, e \in Device : window'[q][e] \in {window[q][e], NoSurface}
        /\ \A q \in Plugin : life'[q] = "alive" => life[q] = "alive" /\ q # p
    BY <1>1, <1>2, <1>5 DEF IInv, TypeOK
  <2>2. /\ UNCHANGED <<pluginJava, ref, dev, served, queue, controllers, told, answer>>
        /\ pc'["platform"] \in Destroying \cup {"idle"}
        /\ \A t \in Caller \ {"platform"} : cur'[t] = cur[t]
    BY <1>1, <1>5 DEF Destroying
  <2>. QED BY <1>0, <1>1, <1>5, <2>1, <2>2, <2>3, DestructorKeeps
<1>7. TypeOK'
    BY <1>1, <1>2, <1>5 DEF IInv, TypeOK
<1>8. ThreadInv' /\ LockInv'
    BY <1>1, <1>5, ThreadAssumption DEF IInv, ThreadInv, LockInv, Thread, Destroying, InCall, CallLabel
<1>9. LifeInv'
  <2>1. \A q \in Plugin : pc'[q] = pc[q] /\ q # "platform"
    BY <1>1, <1>5, ThreadAssumption DEF Thread
  <2>2. \A q \in Plugin \ {p} : Alive(q)' <=> Alive(q)
    BY <1>5 DEF Alive
  <2>3. \A q \in Plugin : life'[q] = "unborn" <=> life[q] = "unborn"
    BY <1>1, <1>5
  <2>4. ASSUME NEW q \in Plugin, ~Alive(q)', NEW e \in Device PROVE stream'[q][e] = NoHolder
    BY <1>2, <2>2, <2>4 DEF IInv, LifeInv
  <2>5. UNCHANGED <<pluginJava, cur, served>>
    BY <1>1
  <2>6. pluginJava # NoPlugin => life'[pluginJava] = "alive"
    BY <1>5, <1>6 DEF IInv, TypeOK, LifeInv
  <2>7. served # NoPlugin => life'[served] # "unborn"
    BY <2>3 DEF IInv, TypeOK, LifeInv
  <2>8. ASSUME NEW q \in Plugin
        PROVE  /\ pc'[q] # "idle" => Alive(q)'
               /\ Alive(q)' /\ q # pluginJava' =>
                     pc'["platform"] \in Destroying \cup {"install"} /\ cur'["platform"] = q
    <3>1. CASE q = p
        BY <1>0, <1>1, <1>5, <2>1, <2>5, <3>1 DEF Destroying
    <3>2. CASE q # p
        BY <1>0, <1>1, <1>5, <2>1, <2>2, <2>5, <3>2 DEF IInv, LifeInv, Destroying
    <3>. QED BY <3>1, <3>2
  <2>. QED BY <1>0, <1>1, <1>5, <1>6, <2>3, <2>4, <2>5, <2>6, <2>7, <2>8 DEF IInv, LifeInv, Destroying
<1>. QED BY <1>4, <1>6, <1>7, <1>8, <1>9 DEF IInv

\* The members go, the map with the holders that are still in it.
LEMMA DestroyMembersStep == ASSUME IInv, DestroyMembers PROVE IInv'
<1>. USE DEF library, dart
<1>0. PICK p \in Plugin : p = cur["platform"]
    BY DEF DestroyMembers, IInv, LifeInv, Destroying
<1>1. /\ pc["platform"] = "members" /\ "platform" \in Thread /\ "platform" \in Caller
      /\ pc["platform"] \in Destroying /\ life[p] = "released"
      /\ pc' = [pc EXCEPT !["platform"] = "idle"] /\ life' = [life EXCEPT ![p] = "dead"]
      /\ home' = [h \in Holder |-> IF h \in Cleared(p) THEN NoHome ELSE home[h]]
      /\ holders' = [holders EXCEPT ![p] = NoHolders]
      /\ plugin_lock' = IF plugin_lock = "platform" THEN "free" ELSE plugin_lock
      /\ cur' = [cur EXCEPT !["platform"] = NoPlugin]
      /\ UNCHANGED <<pluginJava, m_lock, library, ref, dev, op, surface, answer, dart, inputs>>
    BY <1>0 DEF DestroyMembers, Goto, Thread, Caller, Destroying, IInv, LifeInv
<1>2. /\ stream' \in [Plugin -> [Device -> Holder \cup {NoHolder}]]
      /\ \A q \in Plugin, e \in Device : q # p => stream'[q][e] = stream[q][e]
      /\ \A e \in Device : stream'[p][e] = NoHolder \/ (stream'[p][e] = stream[p][e] /\ ~Present(p, e))
  <2>1. ~Alive(p) /\ UNCHANGED stream
    BY <1>1 DEF Alive
  <2>. QED BY <2>1 DEF IInv, TypeOK, LifeInv
<1>3. UNCHANGED ref
    BY <1>1
<1>4. /\ holders' \in [Plugin -> [Device -> Holder \cup {NoHolder}]]
      /\ home' \in [Holder -> Place \cup {NoHome}]
      /\ \A e \in Device : holders'[p][e] = NoHolder
      /\ \A q \in Plugin, e \in Device : q # p => holders'[q][e] = holders[q][e]
      /\ \A t \in Thread : ref[t] # NoHolder => home'[ref[t]] = home[ref[t]]
      /\ HolderInv' /\ NoStaleStop'
    BY <1>1, <1>2, <1>3, ClearMap
<1>5. /\ pc' \in [Thread -> Label] /\ life' \in [Plugin -> {"unborn", "alive", "terminated", "released", "dead"}]
      /\ cur' \in [Caller -> Plugin \cup {NoPlugin}]
      /\ pc'["platform"] = "idle" /\ \A t \in Thread \ {"platform"} : pc'[t] = pc[t]
      /\ \A t \in Caller \ {"platform"} : cur'[t] = cur[t]
      /\ life'[p] = "dead" /\ \A q \in Plugin \ {p} : life'[q] = life[q]
    BY <1>1 DEF IInv, TypeOK, Label
<1>6. /\ p # pluginJava
      /\ \A q \in Plugin : Fresh(q) => Fresh(q)'
      /\ FreshInv' /\ RefInv' /\ ToldInv' /\ AnswerInv'
  <2>1. \A q \in Plugin, e \in Device : holders'[q][e] \in {holders[q][e], NoHolder}
    BY <1>4
  <2>2. /\ UNCHANGED <<pluginJava, ref, dev, served, queue, controllers, told, answer>>
        /\ pc'["platform"] \in Destroying \cup {"idle"}
    BY <1>1, <1>5
  <2>. QED BY <1>0, <1>1, <1>4, <1>5, <2>1, <2>2, DestructorKeeps
<1>7. TypeOK'
    BY <1>1, <1>2, <1>4, <1>5 DEF IInv, TypeOK
<1>8. ThreadInv' /\ LockInv'
    BY <1>1, <1>5, ThreadAssumption DEF IInv, ThreadInv, LockInv, Thread, Destroying, InCall, CallLabel
<1>9. LifeInv'
  <2>1. \A q \in Plugin : pc'[q] = pc[q] /\ q # "platform"
    BY <1>1, <1>5, ThreadAssumption DEF Thread
  <2>2. /\ \A q \in Plugin \ {p} : Alive(q)' <=> Alive(q)
        /\ ~Alive(p)' /\ ~Alive(p)
    BY <1>1, <1>5 DEF Alive
  <2>3. \A q \in Plugin : life'[q] = "unborn" <=> life[q] = "unborn"
    BY <1>1, <1>5
  <2>4. ASSUME NEW q \in Plugin, ~Alive(q)', NEW e \in Device PROVE stream'[q][e] = NoHolder
    BY <1>1, <2>2, <2>4 DEF IInv, LifeInv
  <2>5. UNCHANGED <<pluginJava, served>>
    BY <1>1
  <2>6. pluginJava # NoPlugin => life'[pluginJava] = "alive"
    BY <1>5, <1>6 DEF IInv, TypeOK, LifeInv
  <2>7. served # NoPlugin => life'[served] # "unborn"
    BY <2>3 DEF IInv, TypeOK, LifeInv
  <2>8. ASSUME NEW q \in Plugin
        PROVE  /\ pc'[q] # "idle" => Alive(q)'
               /\ ~(Alive(q)' /\ q # pluginJava')
    BY <1>0, <2>1, <2>2, <2>5 DEF IInv, LifeInv
  <2>. QED BY <1>5, <1>6, <2>3, <2>4, <2>5, <2>6, <2>7, <2>8 DEF IInv, LifeInv, Destroying
<1>. QED BY <1>4, <1>6, <1>7, <1>8, <1>9 DEF IInv

-----------------------------------------------------------------------------
(* The invariant.                                                          *)

\* It holds before nativeInit has been called.
LEMMA Initial == Init => IInv
<1>. SUFFICES ASSUME Init PROVE IInv
    OBVIOUS
<1>. USE DEF Init
<1>1. TypeOK
    BY InputAssumption DEF TypeOK, NoHolders, Label, Thread, Caller
<1>2. ThreadInv /\ LockInv
    BY NonesAssumption DEF ThreadInv, LockInv, InCall, CallLabel, Destroying, Callback, Thread
<1>3. \A p \in Plugin, d \in Device : holders[p][d] = NoHolder /\ stream[p][d] = NoHolder
    BY DEF NoHolders
<1>4. \A t \in Thread : pc[t] = "idle" /\ ref[t] = NoHolder
    OBVIOUS
<1>5. "platform" \in Thread /\ \A p \in Plugin : p \in Thread /\ ~Alive(p)
    BY DEF Thread, Caller, Alive
<1>6. LifeInv /\ FreshInv
    BY <1>3, <1>4, <1>5 DEF LifeInv, FreshInv, Fresh, Present, Destroying
<1>7. RefInv /\ HolderInv /\ NoStaleStop
    BY <1>3, <1>4 DEF RefInv, HolderInv, NoStaleStop, Present, Removed, Thread
<1>8. ToldInv /\ AnswerInv
    BY DEF ToldInv, AnswerInv
<1>. QED BY <1>1, <1>2, <1>6, <1>7, <1>8 DEF IInv

\* A step that changes nothing keeps it.
LEMMA Stuttering == ASSUME IInv, UNCHANGED vars PROVE IInv'
<1>. USE DEF vars, statics, objects, library, locals, dart
<1>1. TypeOK' /\ ThreadInv' /\ LockInv'
    BY DEF IInv, TypeOK, ThreadInv, LockInv
<1>2. LifeInv' /\ FreshInv'
    BY DEF IInv, LifeInv, FreshInv, Fresh, Alive, Present
<1>3. RefInv' /\ HolderInv' /\ NoStaleStop'
    BY DEF IInv, RefInv, HolderInv, NoStaleStop, Present, Referred, Mapped
<1>4. ToldInv' /\ AnswerInv'
    BY DEF IInv, ToldInv, Told, Between, Unmentioned, Present, AnswerInv
<1>. QED BY <1>1, <1>2, <1>3, <1>4 DEF IInv

\* Every step keeps it.
LEMMA Inductive == IInv /\ [Next]_vars => IInv'
<1>. SUFFICES ASSUME IInv, [Next]_vars PROVE IInv'
    OBVIOUS
<1>1. ASSUME NEW t \in Caller, CallStep(t) PROVE IInv'
    BY <1>1, EnterStep, TryHolderStep, AvailableStep, LockHolderStep, ActStep, LeaveStep DEF CallStep
<1>2. ASSUME NEW p \in Plugin, CallbackStep(p) PROVE IInv'
    BY <1>2, AddLockStep, AddHolderStep, SendAttachedStep, RemoveHolderStep, RemoveStopStep, SendDetachedStep
    DEF CallbackStep
<1>3. ASSUME NEW t \in Caller, NEW d \in Device, NEW o \in Ops(t), Call(t, o, d) PROVE IInv'
    BY <1>3, InvokeStep
<1>4. ASSUME DestructorStep PROVE IInv'
    BY <1>4, InstallStep, TerminateAllStep, ManagerReleaseStep, DestroyMembersStep DEF DestructorStep
<1>5. ASSUME HandleMessage PROVE IInv'
    BY <1>5, HandleMessageStep
<1>6. ASSUME Library PROVE IInv'
    BY <1>6, DeviceAttachStep, DeviceDetachStep DEF Library
<1>7. ASSUME Engine PROVE IInv'
    BY <1>7, NativeReleaseStep, DartStartStep, DartExitStep, NativeInitStep DEF Engine
<1>8. CASE UNCHANGED vars
    BY <1>8, Stuttering
<1>. QED BY <1>1, <1>2, <1>3, <1>4, <1>5, <1>6, <1>7, <1>8 DEF Next

\* The plugin keeps its locks, objects, holders and messages consistent.
THEOREM Invariance == Spec => []IInv
<1>1. Init => IInv
    BY Initial
<1>2. IInv /\ [Next]_vars => IInv'
    BY Inductive
<1>. QED BY <1>1, <1>2, PTL DEF Spec

-----------------------------------------------------------------------------
(* What follows from it.                                                   *)

\* Every variable of the plugin keeps its type: no lookup returns, and no destructor
\* leaves, an object of another kind.
THEOREM TypeCorrect == Spec => []TypeOK
<1>1. IInv => TypeOK
    BY DEF IInv
<1>. QED BY <1>1, Invariance, PTL

\* A call of Dart or of the surface view that has found a plugin object works on a live
\* one until it returns, whatever nativeInit and nativeRelease do meanwhile; a callback
\* works on an object whose manager is not released.
THEOREM CallsFindLivePlugin == Spec => []CallsAlive
<1>1. IInv => CallsAlive
    BY DEF IInv, LockInv, LifeInv, CallsAlive
<1>. QED BY <1>1, Invariance, PTL

\* No stream runs that neither the map nor a thread about to drop the holder answers for:
\* a start() that loses the race with remove() leaves no camera on.
THEOREM NoStreamAbandoned == Spec => []StreamOwned
<1>1. ASSUME IInv PROVE StreamOwned
  <2>1. SUFFICES ASSUME NEW p \in Plugin, NEW d \in Device, stream[p][d] # NoHolder,
                        \A t \in Thread : ref[t] # stream[p][d]
                 PROVE  holders[p][d] = stream[p][d]
    BY DEF StreamOwned
  <2>. DEFINE h == stream[p][d]
  <2>2. h \in Holder /\ home[h] = [plugin |-> p, device |-> d]
    BY <1>1, <2>1 DEF IInv, TypeOK, HolderInv
  <2>3. [plugin |-> p, device |-> d] # NoHome
    BY NonesAssumption DEF NoHome, Thread
  <2>4. Mapped(h)
    BY <1>1, <2>1, <2>2, <2>3 DEF IInv, HolderInv, Referred
  <2>5. PICK q \in Plugin, e \in Device : holders[q][e] = h
    BY <2>4 DEF Mapped
  <2>6. home[h] = [plugin |-> q, device |-> e]
    BY <1>1, <2>1, <2>5 DEF IInv, HolderInv, Present
  <2>. QED BY <2>2, <2>5, <2>6
<1>. QED BY <1>1, Invariance, PTL

\* The destructor of a holder of an earlier connection never stops the stream that runs on
\* the holder now in the map.
THEOREM NoStreamStoppedByMistake == Spec => []NoStaleStop
<1>1. IInv => NoStaleStop
    BY DEF IInv
<1>. QED BY <1>1, Invariance, PTL

\* Whenever the callbacks are done and their messages handled, Dart's controllers are the
\* devices of the map that it was told of.
THEOREM DartAgreesWithMap == Spec => []MapAgrees
<1>1. ASSUME IInv PROVE MapAgrees
  <2>1. SUFFICES ASSUME served # NoPlugin, served = pluginJava, pc["platform"] # "install",
                        pc[served] = "idle", queue = << >>
                 PROVE  controllers = {d \in told : holders[served][d] # NoHolder}
    BY DEF MapAgrees
  <2>2. \A d \in Device : (IF d \in told THEN Told(d) ELSE d \notin controllers) /\ Unmentioned(d, 0)
    BY <1>1, <2>1 DEF IInv, ToldInv, Between, Unmentioned
  <2>3. \A d \in Device : d \in controllers <=> d \in told /\ Present(served, d)
    BY <2>2 DEF Told
  <2>. QED BY <1>1, <2>3 DEF IInv, TypeOK, Present
<1>. QED BY <1>1, Invariance, PTL

-----------------------------------------------------------------------------
(* Deadlock.  Who owns a mutex, and where the owner then is.               *)

\* The owner of plugin_lock is inside a call or destroys an object; the owner of an m_lock
\* is the callback that creates a holder, or a call inside that object past its lookup.
OwnersInv ==
    /\ plugin_lock # "free" => pc[plugin_lock] \in CallLabel \cup {"leave"} \cup Destroying
    /\ \A p \in Plugin : m_lock[p] # "free" =>
           \/ m_lock[p] = p /\ pc[p] = "create"
           \/ /\ m_lock[p] \in Caller /\ pc[m_lock[p]] \in {"act", "leave"}
              /\ cur[m_lock[p]] = p

\* A thread goes on and the mutexes stay with their owners.
LEMMA OwnersStay ==
    ASSUME TypeOK, OwnersInv, UNCHANGED <<plugin_lock, m_lock>>,
           NEW t \in Thread, NEW l, Goto(t, l),
           \A u \in Caller : u # t \/ pc[t] = "act" => cur'[u] = cur[u],
           pc[t] \in CallLabel \cup Destroying =>
               l \in CallLabel \cup {"leave"} \cup Destroying /\ (pc[t] = "act" => l = "leave"),
           pc[t] \notin {"leave", "create"}
    PROVE  OwnersInv'
<1>1. pc'[t] = l /\ \A u \in Thread \ {t} : pc'[u] = pc[u]
    BY DEF TypeOK, Goto
<1>2. plugin_lock # "free" => plugin_lock \in Thread
    BY DEF TypeOK, Thread
<1>3. plugin_lock' # "free" => pc'[plugin_lock'] \in CallLabel \cup {"leave"} \cup Destroying
    BY <1>1, <1>2 DEF OwnersInv
<1>4. ASSUME NEW p \in Plugin, m_lock'[p] # "free"
      PROVE  \/ m_lock'[p] = p /\ pc'[p] = "create"
             \/ m_lock'[p] \in Caller /\ pc'[m_lock'[p]] \in {"act", "leave"} /\ cur'[m_lock'[p]] = p
  <2>1. CASE m_lock[p] = p /\ pc[p] = "create"
      BY <1>1, <1>4, <2>1 DEF Thread
  <2>2. CASE m_lock[p] \in Caller /\ pc[m_lock[p]] \in {"act", "leave"} /\ cur[m_lock[p]] = p
    <3>1. m_lock[p] = t => pc[t] = "act" /\ l = "leave"
        BY <2>2 DEF CallLabel
    <3>. QED BY <1>1, <2>2, <3>1 DEF Thread
  <2>. QED BY <1>4, <2>1, <2>2 DEF OwnersInv
<1>. QED BY <1>3, <1>4 DEF OwnersInv

\* The steps of calls and callbacks that neither take nor give back a mutex.
LEMMA OwnersOfCalls ==
    ASSUME IInv, OwnersInv, NEW t \in Thread,
           \/ t \in Caller /\ (IsAvailable(t) \/ Available(t) \/ FindHolder(t) \/ Act(t))
           \/ t \in Plugin /\ (SendAttached(t) \/ RemoveHolder(t) \/ RemoveStop(t) \/ SendDetached(t))
    PROVE  OwnersInv'
<1>1. UNCHANGED <<plugin_lock, m_lock, cur>>
    BY DEF IsAvailable, Available, FindHolder, Act, SendAttached, RemoveHolder, RemoveStop, SendDetached,
       statics, objects, locals
<1>2. \/ pc[t] \in {"is_available", "available", "find", "act"} /\ \E l \in CallLabel \cup {"leave"} :
             Goto(t, l) /\ (pc[t] = "act" => l = "leave")
      \/ pc[t] \in {"sendAttached", "remove", "removeStop", "sendDetached"} /\ \E l : Goto(t, l)
    BY DEF IsAvailable, Available, FindHolder, Act, SendAttached, RemoveHolder, RemoveStop, SendDetached, CallLabel
<1>. QED BY <1>1, <1>2, OwnersStay DEF IInv, CallLabel, Destroying

\* What begins: calls, callbacks, the making and the unmaking of an object.
LEMMA OwnersOfBeginnings ==
    ASSUME IInv, OwnersInv,
           \/ \E t \in Caller, d \in Device : \E o \in Ops(t) : Call(t, o, d)
           \/ Library \/ HandleMessage \/ Engine
    PROVE  OwnersInv'
<1>1. UNCHANGED <<plugin_lock, m_lock>>
    BY DEF Call, Library, DeviceAttach, DeviceDetach, HandleMessage, Engine, NativeRelease, NativeInit,
       DartStart, DartExit, statics, objects
<1>2. CASE \E t \in Thread : /\ pc[t] = "idle" /\ \E l : Goto(t, l)
                             /\ \A u \in Caller : u # t => cur'[u] = cur[u]
    BY <1>1, <1>2, OwnersStay DEF IInv, CallLabel, Destroying
<1>3. CASE UNCHANGED <<pc, cur>>
    BY <1>1, <1>3 DEF OwnersInv
<1>4. ASSUME NEW t \in Caller, NEW d \in Device, NEW o \in Ops(t), Call(t, o, d) PROVE OwnersInv'
    BY <1>2, <1>4 DEF Call, Request, Thread
<1>5. ASSUME NEW p \in Plugin, NEW d \in Device, DeviceAttach(p, d) \/ DeviceDetach(p, d) PROVE OwnersInv'
    BY <1>2, <1>5 DEF DeviceAttach, DeviceDetach, Thread
<1>6. ASSUME HandleMessage PROVE OwnersInv'
    BY <1>2, <1>3, <1>6 DEF HandleMessage, Request, Thread, Caller
<1>7. ASSUME DartStart \/ DartExit PROVE OwnersInv'
    BY <1>3, <1>7 DEF DartStart, DartExit, locals
<1>8. ASSUME NativeRelease \/ \E p \in Plugin : NativeInit(p) PROVE OwnersInv'
  <2>1. pc["platform"] = "idle" /\ "platform" \in Thread /\ \E l : Goto("platform", l)
      BY <1>8 DEF NativeRelease, NativeInit, Thread, Caller
  <2>2. \A u \in Caller : u # "platform" => cur'[u] = cur[u]
      BY <1>8 DEF NativeRelease, NativeInit, IInv, TypeOK
  <2>. QED BY <1>2, <2>1, <2>2
<1>. QED BY <1>4, <1>5, <1>6, <1>7, <1>8 DEF Library, Engine

\* The destructor owns plugin_lock, or nobody does on its behalf.
LEMMA OwnersOfDestructor ==
    ASSUME IInv, OwnersInv, DestructorStep
    PROVE  OwnersInv'
<1>1. "platform" \in Thread /\ "platform" \in Caller /\ pc["platform"] \in Destroying \cup {"install"}
    BY DEF DestructorStep, Install, TerminateAll, ManagerRelease, DestroyMembers, Destroying, Thread, Caller
<1>2. CASE TerminateAll \/ ManagerRelease
  <2>1. /\ UNCHANGED <<plugin_lock, m_lock, cur>> /\ pc["platform"] \in Destroying
        /\ \E l \in Destroying : Goto("platform", l)
      BY <1>2 DEF TerminateAll, ManagerRelease, statics, locals, Destroying
  <2>. QED BY <1>1, <2>1, OwnersStay DEF IInv, Destroying
<1>3. CASE Install \/ DestroyMembers
  <2>1. /\ UNCHANGED m_lock
        /\ \/ Goto("platform", "idle") /\ plugin_lock' # "platform"
              /\ plugin_lock' \in {plugin_lock, "free"}
           \/ Goto("platform", "terminate") /\ plugin_lock' = "platform"
        /\ \A u \in Caller : u # "platform" => cur'[u] = cur[u]
      BY <1>3 DEF Install, DestroyMembers, objects, IInv, TypeOK
  <2>2. \A u \in Thread : u # "platform" => pc'[u] = pc[u]
      BY <2>1 DEF Goto, IInv, TypeOK
  <2>3. plugin_lock' # "free" => pc'[plugin_lock'] \in CallLabel \cup {"leave"} \cup Destroying
      BY <1>1, <2>1, <2>2 DEF OwnersInv, Goto, IInv, TypeOK, Thread, Destroying
  <2>4. \A p \in Plugin : m_lock[p] # "platform"
      BY <1>1, ThreadAssumption DEF OwnersInv, Destroying, Caller
  <2>5. ASSUME NEW p \in Plugin, m_lock'[p] # "free"
        PROVE  \/ m_lock'[p] = p /\ pc'[p] = "create"
               \/ m_lock'[p] \in Caller /\ pc'[m_lock'[p]] \in {"act", "leave"} /\ cur'[m_lock'[p]] = p
      BY <2>1, <2>2, <2>4, <2>5, ThreadAssumption DEF OwnersInv, Thread, Caller
  <2>. QED BY <2>3, <2>5 DEF OwnersInv
<1>. QED BY <1>2, <1>3 DEF DestructorStep

\* A call takes plugin_lock.
LEMMA OwnersEnter == ASSUME IInv, OwnersInv, NEW t \in Caller, Enter(t) PROVE OwnersInv'
<1>1. /\ pc[t] = "enter" /\ plugin_lock' = t /\ UNCHANGED m_lock
      /\ \E l \in CallLabel \cup {"leave"} : Goto(t, l)
      /\ cur' = [cur EXCEPT ![t] = pluginJava]
    BY DEF Enter, FirstStep, objects, CallLabel
<1>2. pc'[t] \in CallLabel \cup {"leave"} /\ \A u \in Thread \ {t} : pc'[u] = pc[u]
    BY <1>1 DEF IInv, TypeOK, Goto, Thread
<1>3. \A u \in Caller \ {t} : cur'[u] = cur[u]
    BY <1>1 DEF IInv, TypeOK
<1>4. ASSUME NEW p \in Plugin, m_lock'[p] # "free"
      PROVE  \/ m_lock'[p] = p /\ pc'[p] = "create"
             \/ m_lock'[p] \in Caller /\ pc'[m_lock'[p]] \in {"act", "leave"} /\ cur'[m_lock'[p]] = p
    BY <1>1, <1>2, <1>3, <1>4, ThreadAssumption DEF OwnersInv, Thread
<1>. QED BY <1>1, <1>2, <1>4 DEF OwnersInv

\* set_video_size takes m_lock as well.
LEMMA OwnersLock == ASSUME IInv, OwnersInv, NEW t \in Caller, LockHolder(t) PROVE OwnersInv'
<1>1. /\ pc[t] = "lock" /\ cur[t] \in Plugin /\ m_lock' = [m_lock EXCEPT ![cur[t]] = t]
      /\ Goto(t, "act") /\ UNCHANGED <<plugin_lock, cur>>
    BY DEF LockHolder, statics, locals, IInv, TypeOK, LockInv, CallLabel
<1>2. pc'[t] = "act" /\ \A u \in Thread \ {t} : pc'[u] = pc[u]
    BY <1>1 DEF IInv, TypeOK, Goto, Thread
<1>3. plugin_lock' # "free" => pc'[plugin_lock'] \in CallLabel \cup {"leave"} \cup Destroying
    BY <1>1, <1>2 DEF OwnersInv, IInv, TypeOK, Thread, CallLabel
<1>4. ASSUME NEW p \in Plugin, m_lock'[p] # "free"
      PROVE  \/ m_lock'[p] = p /\ pc'[p] = "create"
             \/ m_lock'[p] \in Caller /\ pc'[m_lock'[p]] \in {"act", "leave"} /\ cur'[m_lock'[p]] = p
  <2>1. CASE p = cur[t]
      BY <1>1, <1>2, <2>1 DEF IInv, TypeOK
  <2>2. CASE p # cur[t]
    <3>1. m_lock'[p] = m_lock[p] /\ m_lock[p] # "free"
        BY <1>1, <1>4, <2>2 DEF IInv, TypeOK
    <3>. QED BY <1>1, <1>2, <3>1, ThreadAssumption DEF OwnersInv, Thread
  <2>. QED BY <2>1, <2>2
<1>. QED BY <1>3, <1>4 DEF OwnersInv

\* A call that returns gives back every mutex it has.
LEMMA OwnersLeave == ASSUME IInv, OwnersInv, NEW t \in Caller, Leave(t) PROVE OwnersInv'
<1>1. /\ plugin_lock' = "free" /\ pc' = [pc EXCEPT ![t] = "idle"] /\ cur' = [cur EXCEPT ![t] = NoPlugin]
      /\ m_lock' = [p \in Plugin |-> IF m_lock[p] = t THEN "free" ELSE m_lock[p]]
    BY DEF Leave, Goto
<1>2. /\ \A u \in Thread \ {t} : pc'[u] = pc[u]
      /\ \A u \in Caller \ {t} : cur'[u] = cur[u]
    BY <1>1 DEF IInv, TypeOK, Thread
<1>3. ASSUME NEW p \in Plugin, m_lock'[p] # "free"
      PROVE  \/ m_lock'[p] = p /\ pc'[p] = "create"
             \/ m_lock'[p] \in Caller /\ pc'[m_lock'[p]] \in {"act", "leave"} /\ cur'[m_lock'[p]] = p
  <2>1. m_lock'[p] = m_lock[p] /\ m_lock[p] # t
      BY <1>1, <1>3
  <2>. QED BY <1>2, <1>3, <2>1, ThreadAssumption DEF OwnersInv, Thread
<1>. QED BY <1>1, <1>3 DEF OwnersInv

\* add() takes m_lock and gives it back.
LEMMA OwnersAdd == ASSUME IInv, OwnersInv, NEW p \in Plugin, AddLock(p) \/ AddHolder(p) PROVE OwnersInv'
<1>1. /\ UNCHANGED <<plugin_lock, cur>>
      /\ \/ Goto(p, "create") /\ m_lock' = [m_lock EXCEPT ![p] = p]
         \/ Goto(p, "sendAttached") /\ m_lock' = [m_lock EXCEPT ![p] = "free"]
    BY DEF AddLock, AddHolder, statics, locals
<1>2. \A u \in Thread \ {p} : pc'[u] = pc[u]
    BY <1>1 DEF IInv, TypeOK, Goto
<1>3. plugin_lock' # "free" => pc'[plugin_lock'] \in CallLabel \cup {"leave"} \cup Destroying
  <2>1. plugin_lock \in Caller \cup {"free"} /\ p \notin Caller
      BY ThreadAssumption DEF IInv, TypeOK
  <2>2. plugin_lock # "free" => pc'[plugin_lock] = pc[plugin_lock]
      BY <1>2, <2>1 DEF Thread
  <2>. QED BY <1>1, <2>2 DEF OwnersInv
<1>4. ASSUME NEW q \in Plugin, m_lock'[q] # "free"
      PROVE  \/ m_lock'[q] = q /\ pc'[q] = "create"
             \/ m_lock'[q] \in Caller /\ pc'[m_lock'[q]] \in {"act", "leave"} /\ cur'[m_lock'[q]] = q
  <2>1. CASE q = p
      BY <1>1, <1>4, <2>1 DEF IInv, TypeOK, Goto, Thread
  <2>2. CASE q # p
    <3>1. m_lock'[q] = m_lock[q] /\ m_lock[q] # "free"
        BY <1>1, <1>4, <2>2 DEF IInv, TypeOK
    <3>. QED BY <1>1, <1>2, <2>2, <3>1, ThreadAssumption DEF OwnersInv, Thread
  <2>. QED BY <2>1, <2>2
<1>. QED BY <1>3, <1>4 DEF OwnersInv

\* No thread waits in a circle, whatever the devices, plugin objects and holders: a wait
\* for plugin_lock, a wait of the destructor for a callback, a wait for m_lock, and each
\* chain takes at most two of them.
THEOREM NoThreadsDeadlock == Spec => []NoDeadlock
<1>1. Init => OwnersInv
    BY DEF Init, OwnersInv
<1>2. ASSUME IInv, OwnersInv, [Next]_vars PROVE OwnersInv'
  <2>1. ASSUME NEW t \in Caller, CallStep(t) PROVE OwnersInv'
      BY <1>2, <2>1, OwnersOfCalls, OwnersEnter, OwnersLock, OwnersLeave DEF CallStep, Thread
  <2>2. ASSUME NEW p \in Plugin, CallbackStep(p) PROVE OwnersInv'
      BY <1>2, <2>2, OwnersOfCalls, OwnersAdd DEF CallbackStep, Thread
  <2>3. CASE UNCHANGED vars
      BY <1>2, <2>3 DEF OwnersInv, vars, statics, objects, locals
  <2>. QED BY <1>2, <2>1, <2>2, <2>3, OwnersOfBeginnings, OwnersOfDestructor DEF Next
<1>3. ASSUME IInv, OwnersInv PROVE NoDeadlock
  <2>1. SUFFICES ASSUME NEW t \in Thread, NEW u \in Thread, NEW v \in Thread, NEW w \in Thread,
                        Waits(t, u), Waits(u, v), Waits(v, w)
                 PROVE  FALSE
      BY DEF NoDeadlock
  <2>2. pc[v] \notin {"act", "leave", "create", "idle"}
      BY <2>1 DEF Waits
  <2>3. ASSUME NEW x \in Thread, NEW y \in Thread, Waits(x, y), pc[y] \notin {"act", "leave", "create"}
        PROVE  \/ pc[x] \in {"enter", "install"} /\ pc[y] \in CallLabel \cup Destroying
               \/ pc[x] = "release" /\ cur[x] = y /\ x \in Caller /\ y \in Plugin
    <3>1. CASE pc[x] \in {"enter", "install"} /\ plugin_lock = y
        BY <1>3, <2>3, <3>1, ThreadAssumption DEF OwnersInv, Thread, Caller
    <3>2. ASSUME NEW p \in Plugin, m_lock[p] = y PROVE FALSE
        BY <1>3, <2>3, <3>2, ThreadAssumption DEF OwnersInv, Thread, Caller
    <3>3. CASE pc[x] \in {"lock", "terminate"} /\ m_lock[cur[x]] = y
      <4>1. x \in Caller
          BY <1>3, <3>3 DEF IInv, ThreadInv, Thread, Callback
      <4>2. CASE pc[x] = "lock"
          BY <1>3, <3>2, <3>3, <4>1, <4>2 DEF IInv, TypeOK, LockInv, CallLabel
      <4>3. CASE pc[x] = "terminate"
        <5>1. x = "platform"
            BY <1>3, <4>1, <4>3 DEF IInv, ThreadInv, Destroying
        <5>. QED BY <1>3, <3>2, <3>3, <4>3, <5>1 DEF IInv, LifeInv, Destroying
      <4>. QED BY <3>3, <4>2, <4>3
    <3>4. CASE pc[x] \in {"addLock", "remove"} /\ m_lock[x] = y
      <4>1. x \in Plugin
          BY <1>3, <3>4 DEF IInv, ThreadInv, Thread, InCall, CallLabel, Destroying
      <4>. QED BY <3>2, <3>4, <4>1
    <3>5. CASE pc[x] = "release" /\ cur[x] = y
      <4>1. x = "platform"
          BY <1>3, <3>5 DEF IInv, ThreadInv, Thread, Callback, Destroying
      <4>. QED BY <1>3, <3>5, <4>1 DEF IInv, LifeInv, Destroying, Caller
    <3>. QED BY <2>3, <3>1, <3>3, <3>4, <3>5 DEF Waits
  <2>4. pc[u] \notin {"act", "leave", "create", "enter", "install"}
    <3>1. pc[u] \notin {"act", "leave", "create"}
        BY <2>1 DEF Waits
    <3>2. \/ pc[u] \in CallLabel \cup Destroying
          \/ u \in Plugin
        BY <2>1, <2>3, <3>1
    <3>3. u \in Plugin => pc[u] \in Callback \cup {"idle"}
        BY <1>3 DEF IInv, ThreadInv
    <3>. QED BY <3>1, <3>2, <3>3 DEF CallLabel, Destroying, Callback
  <2>5. u = "platform" /\ pc[u] = "release" /\ cur[u] = v /\ v \in Plugin
    <3>1. pc[u] = "release" /\ cur[u] = v /\ u \in Caller /\ v \in Plugin
        BY <2>1, <2>2, <2>3, <2>4
    <3>. QED BY <1>3, <3>1 DEF IInv, ThreadInv, Destroying
  <2>6. pc[v] \in {"addLock", "remove"} /\ m_lock[v] = w
    <3>1. pc[v] \in Callback \cup {"idle"}
        BY <1>3, <2>5 DEF IInv, ThreadInv
    <3>. QED BY <2>1, <3>1 DEF Waits, Callback
  <2>7. w \in Caller /\ pc[w] \in {"act", "leave"} /\ cur[w] = v
      BY <1>3, <2>5, <2>6, ThreadAssumption DEF OwnersInv, Thread, Caller
  <2>8. cur[w] = pluginJava /\ cur[u] # pluginJava
      BY <1>3, <2>5, <2>7 DEF IInv, LockInv, LifeInv, CallLabel, Destroying
  <2>. QED BY <2>5, <2>7, <2>8
<1>. QED BY <1>1, <1>2, <1>3, Invariance, PTL DEF Spec

=============================================================================
