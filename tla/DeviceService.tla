---------------------------- MODULE DeviceService ----------------------------
(***************************************************************************)
(* What the C++ plugin promises to its callers, without locks, holders or  *)
(* plugin objects: a call takes effect at one instant between its          *)
(* invocation and its return, or not at all; only a device that is present *)
(* streams or has a surface; and nothing ends a stream but a stop that     *)
(* somebody has called, the device going, or the plugin going.             *)
(* FlutterPlugin implements this specification.                            *)
(***************************************************************************)
CONSTANTS Plugin, NoPlugin, Device, Surface, NoSurface, Caller, NoCall

VARIABLES
    plugin,     \* the plugin object calls go to
    call,       \* what each caller has invoked and has not yet had its effect
    present,    \* devices a call can reach
    streaming,  \* devices that stream for their callers
    shown       \* surface of each device

service == <<plugin, call, present, streaming, shown>>

Operation == [op : {"start", "stop", "set_preview_surface", "query"},
              device : Device, surface : Surface \cup {NoSurface}]
Nothing == [d \in Device |-> NoSurface]

Init ==
    /\ plugin = NoPlugin /\ present = {}
    /\ call = [t \in Caller |-> NoCall] /\ streaming = {} /\ shown = Nothing

Invoke(t, o) ==
    /\ call[t] = NoCall
    /\ call' = [call EXCEPT ![t] = o]
    /\ UNCHANGED <<plugin, present, streaming, shown>>

Take(t, name) ==
    /\ call[t] # NoCall
    /\ call[t].op = name
    /\ call' = [call EXCEPT ![t] = NoCall]

Start(t) ==
    /\ Take(t, "start")
    /\ call[t].device \in present
    /\ streaming' = streaming \cup {call[t].device}
    /\ UNCHANGED <<plugin, present, shown>>

Stop(t) ==
    /\ Take(t, "stop")
    /\ streaming' = streaming \ {call[t].device}
    /\ UNCHANGED <<plugin, present, shown>>

SetSurface(t) ==
    /\ Take(t, "set_preview_surface")
    /\ call[t].device \in present
    /\ shown' = [shown EXCEPT ![call[t].device] = call[t].surface]
    /\ UNCHANGED <<plugin, present, streaming>>

\* A query, or a call that has not found its device or its lock.
Miss(t) ==
    /\ call[t] # NoCall
    /\ call' = [call EXCEPT ![t] = NoCall]
    /\ UNCHANGED <<plugin, present, streaming, shown>>

\* A device appears: it does not stream and has no surface.
Attach(d) ==
    /\ plugin # NoPlugin /\ d \notin present
    /\ present' = present \cup {d}
    /\ UNCHANGED <<plugin, call, streaming, shown>>

Detach(d) ==
    /\ d \in present
    /\ present' = present \ {d}
    /\ streaming' = streaming \ {d}
    /\ shown' = [shown EXCEPT ![d] = NoSurface]
    /\ UNCHANGED <<plugin, call>>

\* The plugin is released, or replaced by one that may know devices already: nothing
\* streams and nothing is shown.
Replace(q) ==
    /\ q # plugin
    /\ plugin' = q
    /\ present' \in IF q = NoPlugin THEN {{}} ELSE SUBSET Device
    /\ streaming' = {} /\ shown' = Nothing
    /\ UNCHANGED call

Next ==
    \/ \E q \in Plugin \cup {NoPlugin} : Replace(q)
    \/ \E d \in Device : Attach(d) \/ Detach(d)
    \/ \E t \in Caller : Start(t) \/ Stop(t) \/ SetSurface(t) \/ Miss(t)
    \/ call' # call /\ \E t \in Caller, o \in Operation : Invoke(t, o)

Spec == Init /\ [][Next]_service
=============================================================================
