---------------------------- MODULE ControllerData ----------------------------
(***************************************************************************)
(* What a UVCController knows of its camera: the controls and their values *)
(* (_supportedControls), the frame sizes, and the calls that read and set  *)
(* them.  Every call runs in an isolate of its own (compute), on a copy of *)
(* the controller, and makes its FFI calls one by one; between two of them *)
(* other calls take their turn, the camera is removed and attached anew    *)
(* (the app may keep the controller, and its calls find the new holder),   *)
(* and another camera's constructor holds m_lock.                          *)
(*                                                                         *)
(* A control type or bit mask is the set of the numbers of its bits.  What *)
(* goes through an FFI struct arrives as far as the two declarations of    *)
(* the struct agree on where a field is.                                   *)
(*                                                                         *)
(* External: the camera, which adjusts the controls that depend on each    *)
(* other as it likes, and uvc_*, which may fail MaxFaults times.           *)
(***************************************************************************)
EXTENDS Integers, Sequences, SequencesExt

CONSTANTS
    Job,                \* isolates compute can run at a time
    SupportedCtrls,     \* _supportedCtrls, _supportedProcs: what Dart asks for
    SupportedProcs,
    Camera,             \* the controls the camera has
    Related,            \* those the camera adjusts: exposure, iris, brightness, gamma, gain
    Value, Default,     \* values of a control
    SizeList,           \* the frame sizes of the camera
    INVALID,            \* ControlInfo.INVALID, VideoSize.INVALID
    Garbage,            \* what a read past the field that was written finds
    MaxFaults,          \* bound: errors of the library
    MaxInputs           \* bound: calls of the app, and what befalls the camera

Ctrls == Range(SupportedCtrls)
Procs == Range(SupportedProcs)
Type == Ctrls \cup Procs
Size == Range(SizeList)

\* The bits of a type that bmControls of its unit has: D0 to D23.
Bits(type) == type \cap 0..23

\* A type has one of them at least, and types of a unit that share one, as pan and tilt do,
\* name one control, which a camera has or has not.
ASSUME TypeAssumption ==
    /\ SupportedCtrls \in Seq(SUBSET (0..31)) /\ SupportedProcs \in Seq(SUBSET (0..31))
    /\ Ctrls \cap Procs = {} /\ Camera \subseteq Type /\ Related \subseteq Type
    /\ \A type \in Type : Bits(type) # {}
    /\ \A unit \in {Ctrls, Procs} : \A t, u \in unit :
           Bits(t) \cap Bits(u) # {} => (t \in Camera <=> u \in Camera)
ASSUME DataAssumption ==
    /\ SizeList \in Seq(Size) /\ SizeList # << >> /\ Default \in Value
    /\ INVALID \notin Value \cup Size /\ Garbage \notin Value \cup Size
ASSUME BoundAssumption == MaxFaults \in Nat /\ MaxInputs \in Nat

VARIABLES
    holder,     \* the FlutterUVCHolder is not there yet, present, or gone
    m_lock,     \* m_lock is held by add() for another camera
    value,      \* the camera's values
    size,       \* the camera's frame size
    supported,  \* m_supported_size of the holder
    current,    \* m_current_size of the holder
    cache,      \* _supportedControls in the main isolate
    job,        \* the calls on their way
    faults, inputs

camera == <<value, size>>
bounds == <<faults, inputs>>
vars == <<holder, m_lock, camera, supported, current, cache, job, bounds>>

NoJob == [op |-> "none", pc |-> "idle"]

Init ==
    /\ holder = "none" /\ m_lock = FALSE
    /\ value = [type \in Camera |-> Default] /\ size = Head(SizeList)
    /\ supported = << >> /\ current = INVALID
    /\ cache = << >>
    /\ job = [j \in Job |-> NoJob]
    /\ faults = 0 /\ inputs = 0

Input == inputs < MaxInputs /\ inputs' = inputs + 1

-----------------------------------------------------------------------------
(* The structs native code writes and Dart reads: fields and their widths. *)
(* All are packed.                                                         *)

uvc_control_info ==
    << <<"type", 8>>, <<"initialized", 4>>, <<"has_min_max", 4>>, <<"def", 4>>,
       <<"current", 4>>, <<"res", 4>>, <<"min", 4>>, <<"max", 4>> >>

flutter_control_info ==
    << <<"type", 8>>, <<"initialized", 4>>, <<"has_min_max", 4>>, <<"def", 4>>,
       <<"current", 4>>, <<"res", 4>>, <<"min", 4>>, <<"max", 4>> >>

VideoSizeHeader ==
    << <<"frame_type", 4>>, <<"frame_index", 4>>, <<"width", 4>>, <<"height", 4>>,
       <<"frame_interval_type", 4>> >>

\* The library's struct has pointers where Dart's has arrays of MAX_INTERVALS.
uvc_video_size == VideoSizeHeader \o
    << <<"frame_intervals", 8>>, <<"num_frame_intervals", 4>>, <<"fps", 8>>, <<"num_fps", 4>> >>

flutter_video_size == VideoSizeHeader \o
    << <<"frame_intervals", 512>>, <<"num_frame_intervals", 4>>, <<"fps", 512>>, <<"num_fps", 4>> >>

Width(fields) == FoldSeq(LAMBDA f, n : n + f[2], 0, fields)
Offset(struct, i) == Width(SubSeq(struct, 1, i - 1))
Placed(struct) == {<<struct[i], Offset(struct, i)>> : i \in DOMAIN struct}
Received(written, read) == {p[1][1] : p \in Placed(written) \cap Placed(read)}

ControlFields == Received(uvc_control_info, flutter_control_info)
SizeFields == Received(uvc_video_size, flutter_video_size)

\* _createControlInfoFrom
ControlInfoFrom(v) == IF {"type", "current"} \subseteq ControlFields THEN v ELSE Garbage

\* createVideoSizeFrom: what says which size it is, and the intervals and rates it can have.
VideoSizeFrom(s) ==
    [size |-> IF {field[1] : field \in Range(VideoSizeHeader)} \subseteq SizeFields THEN s ELSE Garbage,
     rates |-> IF {"frame_intervals", "num_frame_intervals", "fps", "num_fps"} \subseteq SizeFields
               THEN s ELSE Garbage]

-----------------------------------------------------------------------------
(* FFI calls.  Most try m_lock and fail when it is taken or the holder is  *)
(* not there; the library may fail in turn.                                *)

Held == holder = "present" /\ ~m_lock

LibraryFault == faults < MaxFaults /\ faults' = faults + 1

Native(ok) ==
    \/ ok = Held /\ UNCHANGED faults
    \/ ~ok /\ Held /\ LibraryFault

CtrlMask == UNION {Bits(type) : type \in Camera \cap Ctrls}
ProcMask == UNION {Bits(type) : type \in Camera \cap Procs}

AskEqual(list, mask) ==     \* mutant: (mask & type) == type
    {i \in DOMAIN list : list[i] \subseteq mask}

\* for (int type in list) { if ((mask & type) != 0) ...
Ask(list, mask) == {i \in DOMAIN list : list[i] \cap mask # {}}

\* Where the loop goes on when `todo' is left of a list.
AfterInfos(pc, todo) == IF todo # {} THEN pc ELSE IF pc = "ctrlInfos" THEN "procs" ELSE "done"

Supports(j, infos, asked) ==
    /\ \E ok \in BOOLEAN :
           /\ Native(ok)
           /\ LET todo == IF ok THEN asked ELSE {}
              IN  job' = [job EXCEPT ![j].pc = AfterInfos(infos, todo), ![j].todo = todo,
                                     ![j].missed = @ \/ ~ok]
    /\ UNCHANGED <<holder, m_lock, camera, supported, current, cache, inputs>>

GetCtrlSupports(j) ==
    job[j].pc = "ctrls" /\ Supports(j, "ctrlInfos", Ask(SupportedCtrls, CtrlMask))
GetProcSupports(j) ==
    job[j].pc = "procs" /\ Supports(j, "procInfos", Ask(SupportedProcs, ProcMask))

\* A map with the entries of `new' put into it.
Put(map, new) == [k \in DOMAIN map \cup DOMAIN new |-> IF k \in DOMAIN new THEN new[k] ELSE map[k]]

\* get_ctrl_info for the next type of the list; one that fails is skipped.
GetInfo(j, list) ==
    /\ \E i \in job[j].todo, ok \in BOOLEAN :
           /\ \A k \in job[j].todo : i <= k
           /\ Native(ok)
           /\ LET todo == job[j].todo \ {i}
                  info == [type \in IF ok THEN {list[i]} ELSE {} |-> ControlInfoFrom(value[type])]
              IN  job' = [job EXCEPT ![j].pc = AfterInfos(@, todo), ![j].todo = todo,
                                     ![j].found = Put(@, info), ![j].missed = @ \/ ~ok]
    /\ UNCHANGED <<holder, m_lock, camera, supported, current, cache, inputs>>

GetCtrlInfo(j) ==
    \/ job[j].pc = "ctrlInfos" /\ GetInfo(j, SupportedCtrls)
    \/ job[j].pc = "procInfos" /\ GetInfo(j, SupportedProcs)

SetSwapped(j) ==            \* mutant: type and value change places in the call
    /\ job[j].pc = "set"
    /\ \E ok \in BOOLEAN :
           /\ Native(ok)
           /\ value' = IF ok THEN [value EXCEPT ![job[j].type] = job[j].type] ELSE value
           /\ job' = [job EXCEPT ![j].pc = "get"]
    /\ UNCHANGED <<holder, m_lock, size, supported, current, cache, inputs>>

\* set_ctrl_value.  The camera applies the value, or one it can do instead.
SetValue(j) ==
    /\ job[j].pc = "set"
    /\ \E ok \in BOOLEAN :
           /\ Native(ok)
           /\ IF ok
              THEN /\ \E v \in Value : value' = [value EXCEPT ![job[j].type] = v]
                   /\ job' = [job EXCEPT ![j].pc = "get"]
              ELSE /\ job' = [job EXCEPT ![j].pc = "done", ![j].missed = TRUE]
                   /\ UNCHANGED value
    /\ UNCHANGED <<holder, m_lock, size, supported, current, cache, inputs>>

\* get_ctrl_value.  If it fails, the value in the isolate's copy is returned.
GetValue(j) ==
    /\ job[j].pc = "get"
    /\ \E ok \in BOOLEAN :
           /\ Native(ok)
           /\ job' = [job EXCEPT ![j].pc = "done", ![j].missed = @ \/ ~ok,
                                  ![j].out = IF ok THEN value[job[j].type] ELSE job[j].copy]
    /\ UNCHANGED <<holder, m_lock, camera, supported, current, cache, inputs>>

RefreshNothing(s) ==        \* mutant: m_current_size is read once, in the constructor
    UNCHANGED <<current, faults>>

\* FlutterUVCHolder::get_current_size: if the library fails, the last size stays.
RefreshCurrentSize(s) ==
    \/ current' = s /\ UNCHANGED faults
    \/ UNCHANGED current /\ LibraryFault

\* set_video_size waits for m_lock; Dart ignores its result.
Resize(j) ==
    /\ job[j].pc = "resize" /\ ~m_lock
    /\ IF holder = "present"
       THEN size' \in {job[j].size, size} /\ RefreshCurrentSize(size')
       ELSE UNCHANGED <<size, current, faults>>
    /\ job' = [job EXCEPT ![j].pc = "current"]
    /\ UNCHANGED <<holder, m_lock, value, supported, cache, inputs>>

\* get_current_size waits for m_lock, and reports success for a holder whose refresh failed.
GetCurrent(j) ==
    /\ job[j].pc = "current" /\ ~m_lock
    /\ IF holder = "present"
       THEN /\ RefreshCurrentSize(size)
            /\ job' = [job EXCEPT ![j].pc = "done", ![j].out = VideoSizeFrom(current')]
       ELSE /\ job' = [job EXCEPT ![j].pc = "done"]
            /\ UNCHANGED <<current, faults>>
    /\ UNCHANGED <<holder, m_lock, camera, supported, cache, inputs>>

\* get_supported_size(deviceId, 0, numSupported, nullptr)
GetCount(j) ==
    /\ job[j].pc = "count"
    /\ LET num == IF Held THEN Len(supported) ELSE 0
       IN  job' = [job EXCEPT ![j].pc = IF num > 0 THEN "index" ELSE "done", ![j].num = num,
                              ![j].missed = ~Held]
    /\ UNCHANGED <<holder, m_lock, camera, supported, current, cache, bounds>>

SizeRead(j) == VideoSizeFrom(supported[job[j].index + 1])

\* A step of the loop, whose bound is num from here on.
SizeLoop(j, num, missed, out) ==
    LET index == job[j].index + 1
    IN  job' = [job EXCEPT ![j].pc = IF index < num THEN "index" ELSE "done", ![j].index = index,
                           ![j].num = num, ![j].missed = missed, ![j].out = out]

\* Every call that finds the holder writes the number of its sizes anew.
NumSupported(j) == IF Held THEN Len(supported) ELSE job[j].num

GetSizeUnadvanced(j) ==     \* mutant: an index that fails is tried again
    /\ job[j].pc = "index"
    /\ IF Held /\ job[j].index < Len(supported)
       THEN SizeLoop(j, Len(supported), job[j].missed, Append(job[j].out, SizeRead(j)))
       ELSE job' = [job EXCEPT ![j].missed = TRUE]
    /\ UNCHANGED <<holder, m_lock, camera, supported, current, cache, bounds>>

GetSizeUnchecked(j) ==      \* mutant: the result is not looked at, the buffer is read anyway
    /\ job[j].pc = "index"
    /\ LET read == Held /\ job[j].index < Len(supported)
           buffer == IF job[j].out = << >> THEN [size |-> Garbage, rates |-> Garbage] ELSE Last(job[j].out)
       IN  SizeLoop(j, NumSupported(j), job[j].missed, Append(job[j].out, IF read THEN SizeRead(j) ELSE buffer))
    /\ UNCHANGED <<holder, m_lock, camera, supported, current, cache, bounds>>

GetSizeCounted(j) ==        \* mutant: the loop keeps the number it was told first
    /\ job[j].pc = "index"
    /\ LET read == Held /\ job[j].index < Len(supported)
       IN  SizeLoop(j, job[j].num, job[j].missed \/ ~read,
                    IF read THEN Append(job[j].out, SizeRead(j)) ELSE job[j].out)
    /\ UNCHANGED <<holder, m_lock, camera, supported, current, cache, bounds>>

\* get_supported_size for the next index; one that fails, or that the list of a new holder
\* does not have, is skipped.
GetSize(j) ==
    /\ job[j].pc = "index"
    /\ LET read == Held /\ job[j].index < Len(supported)
       IN  SizeLoop(j, NumSupported(j), job[j].missed \/ ~read,
                    IF read THEN Append(job[j].out, SizeRead(j)) ELSE job[j].out)
    /\ UNCHANGED <<holder, m_lock, camera, supported, current, cache, bounds>>

-----------------------------------------------------------------------------
(* Calls of the app, in the main isolate, and their replies.               *)

Free == {j \in Job : job[j] = NoJob}

\* A new isolate; which is of no matter.
Compute(j, new) ==
    /\ holder # "none"
    /\ Free # {} /\ j = CHOOSE i \in Free : TRUE
    /\ job' = [job EXCEPT ![j] = new]

\* The cache is filled once; after that the call answers from it.  The delay after the
\* test is a rest at the first step: the cache may have been filled meanwhile.
GetSupportedControls(j) ==
    /\ DOMAIN cache = {}
    /\ Compute(j, [op |-> "controls", pc |-> "ctrls", todo |-> {}, found |-> << >>, missed |-> FALSE])
    /\ Input
    /\ UNCHANGED <<holder, m_lock, camera, supported, current, cache, faults>>

SetWithoutCache(j, type, v) ==      \* mutant: only the isolate's copy gets the value
    /\ type \in DOMAIN cache
    /\ Compute(j, [op |-> "set", pc |-> "set", type |-> type, copy |-> v,
                   out |-> INVALID, missed |-> FALSE])
    /\ Input
    /\ UNCHANGED <<holder, m_lock, camera, supported, current, cache, faults>>

\* The cached control takes the value before the camera is asked.
SetCtrlValue(j, type, v) ==
    /\ type \in DOMAIN cache
    /\ cache' = [cache EXCEPT ![type] = v]
    /\ Compute(j, [op |-> "set", pc |-> "set", type |-> type, copy |-> v,
                   out |-> INVALID, missed |-> FALSE])
    /\ Input
    /\ UNCHANGED <<holder, m_lock, camera, supported, current, faults>>

GetCtrlValue(j, type) ==
    /\ type \in DOMAIN cache
    /\ Compute(j, [op |-> "get", pc |-> "get", type |-> type, copy |-> cache[type],
                   out |-> INVALID, missed |-> FALSE])
    /\ Input
    /\ UNCHANGED <<holder, m_lock, camera, supported, current, cache, faults>>

SetSize(j, s) ==
    /\ Compute(j, [op |-> "size", pc |-> "resize", size |-> s, out |-> INVALID, missed |-> FALSE])
    /\ Input
    /\ UNCHANGED <<holder, m_lock, camera, supported, current, cache, faults>>

GetCurrentSize(j) ==
    /\ Compute(j, [op |-> "size", pc |-> "current", out |-> INVALID, missed |-> FALSE])
    /\ Input
    /\ UNCHANGED <<holder, m_lock, camera, supported, current, cache, faults>>

GetSupportedSize(j) ==
    /\ Compute(j, [op |-> "sizes", pc |-> "count", index |-> 0, num |-> 0,
                   out |-> << >>, missed |-> FALSE])
    /\ Input
    /\ UNCHANGED <<holder, m_lock, camera, supported, current, cache, faults>>

\* The reply of compute; getSupportedControls adds it to the cache.
Reply(j) ==
    /\ job[j].pc = "done"
    /\ job' = [job EXCEPT ![j] = NoJob]
    /\ cache' = IF job[j].op = "controls" THEN Put(cache, job[j].found) ELSE cache
    /\ UNCHANGED <<holder, m_lock, camera, supported, current, bounds>>

-----------------------------------------------------------------------------
(* The camera, and another one.                                            *)

\* The constructor of the holder, under m_lock: resize to the size the camera starts with,
\* the list of sizes up to the first that fails, the current size.  A camera that comes back
\* has whatever values it has, and its new holder nothing of the old one.
Attach ==
    /\ holder # "present" /\ ~m_lock
    /\ holder' = "present"
    /\ IF holder = "none" THEN UNCHANGED camera ELSE value' \in [Camera -> Value] /\ size' \in Size
    /\ \E n \in 0..Len(SizeList), read \in BOOLEAN :
           /\ supported' = SubSeq(SizeList, 1, n)
           /\ current' = IF read THEN size' ELSE INVALID
           /\ IF read /\ n = Len(SizeList) THEN UNCHANGED faults ELSE LibraryFault
    /\ UNCHANGED <<m_lock, cache, job, inputs>>

Detach ==
    /\ holder = "present" /\ ~m_lock
    /\ holder' = "gone"
    /\ Input
    /\ UNCHANGED <<m_lock, camera, supported, current, cache, job, faults>>

OtherAttach ==
    /\ ~m_lock
    /\ m_lock' = TRUE
    /\ Input
    /\ UNCHANGED <<holder, camera, supported, current, cache, job, faults>>

OtherAttached ==
    /\ m_lock
    /\ m_lock' = FALSE
    /\ UNCHANGED <<holder, camera, supported, current, cache, job, bounds>>

\* The camera adjusts controls that depend on each other, because one was set or by itself.
Adjust ==
    /\ value' \in {v \in [Camera -> Value] : \A t \in Camera \ Related : v[t] = value[t]}
    /\ UNCHANGED <<holder, m_lock, size, supported, current, cache, job, bounds>>

-----------------------------------------------------------------------------
JobStep(j) ==
    \/ GetCtrlSupports(j) \/ GetProcSupports(j) \/ GetCtrlInfo(j)
    \/ SetValue(j) \/ GetValue(j) \/ Resize(j) \/ GetCurrent(j)
    \/ GetCount(j) \/ GetSize(j) \/ Reply(j)

App(j) ==
    \/ GetSupportedControls(j) \/ GetCurrentSize(j) \/ GetSupportedSize(j)
    \/ \E type \in Type : GetCtrlValue(j, type) \/ \E v \in Value : SetCtrlValue(j, type, v)
    \/ \E s \in Size : SetSize(j, s)

Next ==
    \/ \E j \in Job : JobStep(j) \/ App(j)
    \/ Attach \/ Detach \/ OtherAttach \/ OtherAttached \/ Adjust

\* Isolates run; the constructor of another camera's holder returns, and m_lock is free
\* for good when no more cameras come.
Fairness == (\A j \in Job : WF_vars(JobStep(j))) /\ WF_vars(OtherAttached)

Spec == Init /\ [][Next]_vars
FairSpec == Spec /\ Fairness

-----------------------------------------------------------------------------
(* Properties.                                                             *)

Map == UNION {[types -> Value] : types \in SUBSET Camera}
Answer == Value \cup {INVALID}
SizeAnswer == Size \cup {INVALID}
VideoSize == [size : SizeAnswer, rates : SizeAnswer \cup {Garbage}]

\* The isolates: of getSupportedControls, of setCtrlValue and getCtrlValue, of setSize and
\* getCurrentSize, of getSupportedSize.
ControlsJob ==
    [op : {"controls"}, pc : {"ctrls", "ctrlInfos", "procs", "procInfos", "done"},
     todo : SUBSET Nat, found : Map, missed : BOOLEAN]
ValueJob ==
    [op : {"set", "get"}, pc : {"set", "get", "done"},
     type : Camera, copy : Value, out : Answer, missed : BOOLEAN]
SizeJob ==
    [op : {"size"}, pc : {"resize", "current", "done"}, size : Size, out : VideoSize \cup {INVALID}, missed : BOOLEAN]
    \cup [op : {"size"}, pc : {"current", "done"}, out : VideoSize \cup {INVALID}, missed : BOOLEAN]
SizesJob ==
    [op : {"sizes"}, pc : {"count", "index", "done"},
     index : Nat, num : Nat, out : Seq(VideoSize), missed : BOOLEAN]

\* Every variable has its type: values and the header of a size arrive through the structs,
\* the rates of a size may be garbage; an isolate is asked only for controls the camera has.
TypeOK ==
    /\ holder \in {"none", "present", "gone"} /\ m_lock \in BOOLEAN
    /\ value \in [Camera -> Value] /\ size \in Size
    /\ supported \in Seq(Size) /\ current \in SizeAnswer
    /\ cache \in Map
    /\ job \in [Job -> {NoJob} \cup ControlsJob \cup ValueJob \cup SizeJob \cup SizesJob]
    /\ faults \in 0..MaxFaults /\ inputs \in 0..MaxInputs

\* The list of controls Dart builds from the bit masks, whose types share bits (pan and
\* tilt) or carry one the camera never sends (the processing unit's bit 31), names only
\* controls the camera has, and all of them unless a call failed on the way.
ControlsExact ==
    \A j \in Job : job[j].op = "controls" /\ job[j].pc = "done" =>
        /\ DOMAIN job[j].found \subseteq Camera
        /\ ~job[j].missed => DOMAIN job[j].found = Camera

\* The reply of setSize and getCurrentSize is a size of the camera that was its own when
\* the call read it; the stale size the holder keeps can only show after an error of the library.
SizeFresh ==
    [][\A j \in Job : job[j].op = "size" /\ job[j].pc = "current" /\ job'[j].pc = "done" =>
           job'[j].out = INVALID \/ job'[j].out.size = size' \/ faults' # faults]_vars

\* The list of sizes has sizes of the camera only, each once and in the camera's order, also
\* when calls fail or the holder is replaced by one with a shorter or longer list meanwhile.
SizesInOrder ==
    \A j \in Job : job[j].op = "sizes" =>
        /\ \A a \in DOMAIN job[j].out : job[j].out[a].size \in Size
        /\ \A a, b \in DOMAIN job[j].out : a < b =>
               \E m, n \in DOMAIN SizeList :
                   m < n /\ SizeList[m] = job[j].out[a].size /\ SizeList[n] = job[j].out[b].size

\* When the loop ends and no call of it has failed, its list is the whole list of the holder
\* there is then, although the count and the sizes before may come from an earlier one.
SizesComplete ==
    [][\A j \in Job : job[j].op = "sizes" /\ job[j].pc # "done" /\ job'[j].pc = "done" /\ ~job'[j].missed =>
           /\ Len(job'[j].out) = Len(supported)
           /\ \A a \in DOMAIN supported : job'[j].out[a].size = supported[a]]_vars

\* Every call is answered, although the camera goes or m_lock is taken in the middle of a
\* loop whose bound is read through the same calls.
AllAnswered == \A j \in Job : []<>(job[j] = NoJob)
=============================================================================
