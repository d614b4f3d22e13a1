------------------------- MODULE ControllerDataProofs -------------------------
(***************************************************************************)
(* Proofs about ControllerData, for every list of controls, every camera,  *)
(* and any number of isolates, errors and calls.                           *)
(***************************************************************************)
EXTENDS ControllerData, TLAPS

(***************************************************************************)
(* The inductive invariant: what an isolate has found so far.              *)
(***************************************************************************)

\* The types at the places of a list that are still to be asked for.
Types(list, todo) == {list[i] : i \in todo}

\* The controls found and those still to be asked for are the ones the camera has, up to
\* the list the loop is in.
Exact(r) ==
    /\ r.pc = "ctrls" => DOMAIN r.found = {}
    /\ r.pc = "ctrlInfos" => r.todo \subseteq Ask(SupportedCtrls, CtrlMask)
    /\ r.pc = "procInfos" => r.todo \subseteq Ask(SupportedProcs, ProcMask)
    /\ ~r.missed =>
           /\ r.pc = "ctrlInfos" => DOMAIN r.found \cup Types(SupportedCtrls, r.todo) = Camera \cap Ctrls
           /\ r.pc = "procs" => DOMAIN r.found = Camera \cap Ctrls
           /\ r.pc = "procInfos" => DOMAIN r.found \cup Types(SupportedProcs, r.todo) = Camera
           /\ r.pc = "done" => DOMAIN r.found = Camera

\* Every holder's list is the camera's up to the first size that could not be read.
Prefix(list) == Len(list) <= Len(SizeList) /\ \A i \in 1..Len(list) : list[i] = SizeList[i]

\* The sizes read so far are sizes of the camera before the index, in its order; all of
\* them if no call failed.
InOrder(r) ==
    /\ r.pc = "count" => r.index = 0 /\ r.out = << >>
    /\ r.pc = "index" => r.index < r.num
    /\ r.num <= Len(SizeList) /\ r.index <= Len(SizeList)
    /\ \A a \in DOMAIN r.out : \E m \in 1..r.index : SizeList[m] = r.out[a].size
    /\ \A a, b \in DOMAIN r.out : a < b =>
           \E m, n \in 1..r.index : m < n /\ SizeList[m] = r.out[a].size /\ SizeList[n] = r.out[b].size
    /\ ~r.missed => Len(r.out) = r.index /\ \A a \in 1..r.index : r.out[a].size = SizeList[a]

JobInv ==
    \A j \in Job :
        /\ job[j].op = "controls" => Exact(job[j])
        /\ job[j].op = "sizes" => InOrder(job[j])
        /\ job[j].pc \in {"resize", "current"} => job[j].out = INVALID
        /\ holder = "none" => job[j] = NoJob

IInv == TypeOK /\ Prefix(supported) /\ JobInv

-----------------------------------------------------------------------------
(* What FFI carries, and what the masks say.                               *)

\* A control's type and value lie at the same offsets in both declarations.
LEMMA ControlArrives == ASSUME NEW v PROVE ControlInfoFrom(v) = v
<1>1. uvc_control_info = flutter_control_info
    BY DEF uvc_control_info, flutter_control_info
<1>2. 1 \in DOMAIN uvc_control_info /\ uvc_control_info[1][1] = "type"
    BY DEF uvc_control_info
<1>3. 5 \in DOMAIN uvc_control_info /\ uvc_control_info[5][1] = "current"
    BY DEF uvc_control_info
<1>4. \A i \in DOMAIN uvc_control_info :
          <<uvc_control_info[i], Offset(uvc_control_info, i)>> \in Placed(uvc_control_info)
    BY DEF Placed
<1>5. \A p \in Placed(uvc_control_info) : p[1][1] \in ControlFields
    BY <1>1 DEF ControlFields, Received
<1>6. "type" \in ControlFields /\ "current" \in ControlFields
    BY <1>2, <1>3, <1>4, <1>5
<1>. QED BY <1>6 DEF ControlInfoFrom

\* So do the fields of a size that come before the pointers.  What comes after them is that
\* of the size or garbage.
LEMMA SizeArrives ==
    ASSUME NEW s
    PROVE  /\ VideoSizeFrom(s) = [size |-> s, rates |-> VideoSizeFrom(s).rates]
           /\ VideoSizeFrom(s).size = s /\ VideoSizeFrom(s).rates \in {s, Garbage}
<1>1. ASSUME NEW i \in 1..5
      PROVE VideoSizeHeader[i][1] \in SizeFields
  <2>1. i \in DOMAIN uvc_video_size /\ i \in DOMAIN flutter_video_size
      BY DEF uvc_video_size, flutter_video_size, VideoSizeHeader
  <2>2. uvc_video_size[i] = VideoSizeHeader[i] /\ flutter_video_size[i] = VideoSizeHeader[i]
      BY DEF uvc_video_size, flutter_video_size, VideoSizeHeader
  <2>3. SubSeq(uvc_video_size, 1, i - 1) = SubSeq(flutter_video_size, 1, i - 1)
      BY DEF uvc_video_size, flutter_video_size, VideoSizeHeader
  <2>4. Offset(uvc_video_size, i) = Offset(flutter_video_size, i)
      BY <2>3 DEF Offset
  <2>5. <<VideoSizeHeader[i], Offset(uvc_video_size, i)>> \in Placed(uvc_video_size) \cap Placed(flutter_video_size)
      BY <2>1, <2>2, <2>4 DEF Placed
  <2>. QED BY <2>5 DEF SizeFields, Received
<1>2. DOMAIN VideoSizeHeader = 1..5
    BY DEF VideoSizeHeader
<1>3. {field[1] : field \in Range(VideoSizeHeader)} \subseteq SizeFields
    BY <1>1, <1>2 DEF Range
<1>. QED BY <1>3 DEF VideoSizeFrom

\* A size of the camera, or none, is read as one.
LEMMA SizeType ==
    ASSUME NEW s \in SizeAnswer PROVE VideoSizeFrom(s) \in VideoSize
<1>1. PICK rates \in {s, Garbage} : VideoSizeFrom(s) = [size |-> s, rates |-> rates]
    BY SizeArrives
<1>. QED BY <1>1 DEF VideoSize

\* A mask answers for exactly the types of the list that the camera has.
LEMMA Asked ==
    ASSUME NEW list \in Seq(SUBSET (0..31)), NEW unit, unit = Range(list), unit \in {Ctrls, Procs},
           NEW mask, mask = UNION {Bits(type) : type \in Camera \cap unit}
    PROVE  Types(list, Ask(list, mask)) = Camera \cap unit /\ Ask(list, mask) \subseteq DOMAIN list
<1>1. ASSUME NEW i \in DOMAIN list
      PROVE i \in Ask(list, mask) <=> list[i] \in Camera
  <2>1. list[i] \in unit /\ unit \subseteq Type
      BY DEF Range, Type
  <2>2. CASE i \in Ask(list, mask)
    <3>1. PICK b \in list[i] : b \in mask
        BY <2>2 DEF Ask
    <3>2. PICK type \in Camera \cap unit : b \in Bits(type)
        BY <3>1
    <3>3. b \in Bits(list[i])
        BY <3>1, <3>2 DEF Bits
    <3>. QED BY <2>1, <2>2, <3>2, <3>3, TypeAssumption
  <2>3. CASE list[i] \in Camera
    <3>1. PICK b \in Bits(list[i]) : TRUE
        BY <2>1, TypeAssumption
    <3>2. b \in mask /\ b \in list[i]
        BY <2>1, <2>3, <3>1 DEF Bits
    <3>. QED BY <2>3, <3>2 DEF Ask
  <2>. QED BY <2>2, <2>3
<1>2. Ask(list, mask) \subseteq DOMAIN list
    BY DEF Ask
<1>. QED BY <1>1, <1>2 DEF Types, Range

\* The places that still have to be asked are places of the list.
LEMMA AskedCtrls ==
    /\ Types(SupportedCtrls, Ask(SupportedCtrls, CtrlMask)) = Camera \cap Ctrls
    /\ Ask(SupportedCtrls, CtrlMask) \subseteq DOMAIN SupportedCtrls
BY Asked, TypeAssumption DEF CtrlMask, Ctrls

\* The same of the list of processing unit controls.
LEMMA AskedProcs ==
    /\ Types(SupportedProcs, Ask(SupportedProcs, ProcMask)) = Camera \cap Procs
    /\ Ask(SupportedProcs, ProcMask) \subseteq DOMAIN SupportedProcs
BY Asked, TypeAssumption DEF ProcMask, Procs

-----------------------------------------------------------------------------
(* What the steps of isolates have in common.                              *)

AnyJob == {NoJob} \cup ControlsJob \cup ValueJob \cup SizeJob \cup SizesJob

\* Where an isolate is tells whose it is.
LEMMA Kinds ==
    ASSUME TypeOK, NEW j \in Job
    PROVE  /\ job[j].op = "controls" \/ job[j].pc \in {"ctrls", "ctrlInfos", "procs", "procInfos"}
                  => job[j] \in ControlsJob
           /\ job[j].op \in {"set", "get"} \/ job[j].pc \in {"set", "get"} => job[j] \in ValueJob
           /\ job[j].op = "size" \/ job[j].pc \in {"resize", "current"} => job[j] \in SizeJob
           /\ job[j].op = "sizes" \/ job[j].pc \in {"count", "index"} => job[j] \in SizesJob
<1>1. job[j] \in AnyJob
    BY DEF TypeOK, AnyJob
<1>2. NoJob.op = "none" /\ NoJob.pc = "idle"
    BY DEF NoJob
<1>3. \A r \in ControlsJob : r.op = "controls" /\ r.pc \in {"ctrls", "ctrlInfos", "procs", "procInfos", "done"}
    BY DEF ControlsJob
<1>4. \A r \in ValueJob : r.op \in {"set", "get"} /\ r.pc \in {"set", "get", "done"}
    BY DEF ValueJob
<1>5. \A r \in SizeJob : r.op = "size" /\ r.pc \in {"resize", "current", "done"}
    BY DEF SizeJob
<1>6. \A r \in SizesJob : r.op = "sizes" /\ r.pc \in {"count", "index", "done"}
    BY DEF SizesJob
<1>7. \/ job[j] = NoJob
      \/ job[j] \in ControlsJob
      \/ job[j] \in ValueJob
      \/ job[j] \in SizeJob
      \/ job[j] \in SizesJob
    BY <1>1 DEF AnyJob
<1>8. CASE job[j] = NoJob
    BY <1>2, <1>8
<1>9. CASE job[j] \in ControlsJob
    BY <1>3, <1>9
<1>10. CASE job[j] \in ValueJob
    BY <1>4, <1>10
<1>11. CASE job[j] \in SizeJob
    BY <1>5, <1>11
<1>12. CASE job[j] \in SizesJob
    BY <1>6, <1>12
<1>. QED BY <1>7, <1>8, <1>9, <1>10, <1>11, <1>12

\* A step of one isolate leaves what the others have found alone.
LEMMA JobStepKeeps ==
    ASSUME IInv, NEW j \in Job, holder # "none", UNCHANGED <<holder, m_lock, supported>>,
           value' \in [Camera -> Value], size' \in Size, current' \in SizeAnswer, cache' \in Map,
           faults' \in 0..MaxFaults, inputs' \in 0..MaxInputs,
           job' = [job EXCEPT ![j] = job'[j]], job'[j] \in AnyJob,
           job'[j].op = "controls" => Exact(job'[j]),
           job'[j].op = "sizes" => InOrder(job'[j]),
           job'[j].pc \in {"resize", "current"} => job'[j].out = INVALID
    PROVE  IInv'
<1>1. job \in [Job -> AnyJob]
    BY DEF IInv, TypeOK, AnyJob
<1>2. \A i \in Job : i # j => job'[i] = job[i]
    BY <1>1
<1>3. job' \in [Job -> AnyJob]
    BY <1>1
<1>4. ASSUME NEW i \in Job
      PROVE  /\ job'[i].op = "controls" => Exact(job'[i])
             /\ job'[i].op = "sizes" => InOrder(job'[i])
             /\ job'[i].pc \in {"resize", "current"} => job'[i].out = INVALID
             /\ holder' = "none" => job'[i] = NoJob
  <2>1. CASE i = j
      BY <2>1
  <2>2. CASE i # j
      BY <1>2, <2>2 DEF IInv, JobInv
  <2>. QED BY <2>1, <2>2
<1>5. JobInv'
    BY <1>4 DEF JobInv
<1>6. TypeOK' /\ Prefix(supported')
    BY <1>3 DEF IInv, TypeOK, AnyJob
<1>. QED BY <1>5, <1>6 DEF IInv

\* Only an isolate for the size is where its answer is still to come from the size.
LEMMA NotSizing ==
    ASSUME NEW r \in ControlsJob \cup ValueJob \cup SizesJob PROVE r.pc \notin {"resize", "current"}
BY DEF ControlsJob, ValueJob, SizesJob

\* The calls of an isolate that is on its way began with a camera.
LEMMA Started == ASSUME JobInv, NEW j \in Job, job[j].pc # "idle" PROVE holder # "none"
BY DEF JobInv, NoJob

\* What native code and the library may do to the count of errors.
LEMMA NativeType ==
    ASSUME TypeOK, NEW ok \in BOOLEAN, Native(ok) PROVE faults' \in 0..MaxFaults
BY BoundAssumption DEF TypeOK, Native, LibraryFault

\* A partial map is a function on some of the camera's controls.
LEMMA MapDef ==
    ASSUME NEW f
    PROVE  f \in Map <=> f = [k \in DOMAIN f |-> f[k]] /\ DOMAIN f \subseteq Camera /\ \A k \in DOMAIN f : f[k] \in Value
BY DEF Map

\* What is put into a map is there, and the rest stays.
LEMMA PutType ==
    ASSUME NEW f \in Map, NEW g \in Map
    PROVE  /\ Put(f, g) \in Map /\ DOMAIN Put(f, g) = DOMAIN f \cup DOMAIN g
           /\ \A k \in DOMAIN f \cup DOMAIN g : Put(f, g)[k] = IF k \in DOMAIN g THEN g[k] ELSE f[k]
BY MapDef DEF Put

-----------------------------------------------------------------------------
(* getSupportedControls.                                                   *)

\* A call for a mask puts the types it answers for, or none, into the loop.
LEMMA SupportsFacts ==
    ASSUME TypeOK, NEW j \in Job, job[j] \in ControlsJob, NEW asked \in SUBSET Nat,
           NEW infos \in {"ctrlInfos", "procInfos"}, Supports(j, infos, asked)
    PROVE  /\ UNCHANGED <<holder, m_lock, value, size, supported, current, cache, inputs>>
           /\ faults' \in 0..MaxFaults
           /\ job' = [job EXCEPT ![j] = job'[j]] /\ job'[j] \in ControlsJob
           /\ job'[j].op = "controls" /\ job'[j].found = job[j].found
           /\ job'[j].pc = AfterInfos(infos, job'[j].todo)
           /\ job'[j].todo \subseteq asked
           /\ ~job'[j].missed => ~job[j].missed /\ job'[j].todo = asked
<1>1. PICK ok \in BOOLEAN :
          /\ Native(ok)
          /\ job' = [job EXCEPT ![j].pc = AfterInfos(infos, IF ok THEN asked ELSE {}),
                                ![j].todo = IF ok THEN asked ELSE {}, ![j].missed = @ \/ ~ok]
    BY DEF Supports
<1>2. job'[j] = [job[j] EXCEPT !.pc = AfterInfos(infos, IF ok THEN asked ELSE {}),
                               !.todo = IF ok THEN asked ELSE {}, !.missed = @ \/ ~ok]
    BY <1>1 DEF TypeOK
<1>3. job' = [job EXCEPT ![j] = job'[j]]
    BY <1>1, <1>2
<1>4. UNCHANGED <<holder, m_lock, value, size, supported, current, cache, inputs>>
    BY DEF Supports, camera
<1>5. AfterInfos(infos, IF ok THEN asked ELSE {}) \in {"ctrlInfos", "procs", "procInfos", "done"}
    BY DEF AfterInfos
<1>6. job'[j] \in ControlsJob
    BY <1>2, <1>5 DEF ControlsJob
<1>7. /\ job'[j].op = "controls" /\ job'[j].found = job[j].found
      /\ job'[j].todo = IF ok THEN asked ELSE {}
      /\ job'[j].pc = AfterInfos(infos, job'[j].todo)
      /\ job'[j].missed = (job[j].missed \/ ~ok)
    BY <1>2 DEF ControlsJob
<1>8. faults' \in 0..MaxFaults
    BY <1>1, NativeType
<1>. QED BY <1>3, <1>4, <1>6, <1>7, <1>8

\* GetCtrlSupports keeps the invariant: its mask replaces the places left to ask.
LEMMA CtrlSupportsStep == ASSUME IInv, NEW j \in Job, GetCtrlSupports(j) PROVE IInv'
<1>1. job[j].pc = "ctrls" /\ Supports(j, "ctrlInfos", Ask(SupportedCtrls, CtrlMask))
    BY DEF GetCtrlSupports
<1>2. job[j] \in ControlsJob /\ job[j].op = "controls"
    BY <1>1, Kinds DEF IInv, ControlsJob
<1>3. Ask(SupportedCtrls, CtrlMask) \in SUBSET Nat
    BY AskedCtrls, TypeAssumption
<1>4. /\ UNCHANGED <<holder, m_lock, value, size, supported, current, cache, inputs>>
      /\ faults' \in 0..MaxFaults
      /\ job' = [job EXCEPT ![j] = job'[j]] /\ job'[j] \in ControlsJob
      /\ job'[j].op = "controls" /\ job'[j].found = job[j].found
      /\ job'[j].pc = AfterInfos("ctrlInfos", job'[j].todo)
      /\ job'[j].todo \subseteq Ask(SupportedCtrls, CtrlMask)
      /\ ~job'[j].missed => ~job[j].missed /\ job'[j].todo = Ask(SupportedCtrls, CtrlMask)
    BY <1>1, <1>2, <1>3, SupportsFacts DEF IInv
<1>5. DOMAIN job[j].found = {}
    BY <1>1, <1>2 DEF IInv, JobInv, Exact
<1>6. Types(SupportedCtrls, {}) = {}
    BY DEF Types
<1>7. Exact(job'[j])
    BY <1>4, <1>5, <1>6, AskedCtrls DEF AfterInfos, Exact
<1>8. holder # "none"
    BY <1>1, Started DEF IInv
<1>. QED BY <1>4, <1>7, <1>8, JobStepKeeps, NotSizing DEF IInv, TypeOK, AnyJob

\* So does GetProcSupports, which starts on the second list.
LEMMA ProcSupportsStep == ASSUME IInv, NEW j \in Job, GetProcSupports(j) PROVE IInv'
<1>1. job[j].pc = "procs" /\ Supports(j, "procInfos", Ask(SupportedProcs, ProcMask))
    BY DEF GetProcSupports
<1>2. job[j] \in ControlsJob /\ job[j].op = "controls"
    BY <1>1, Kinds DEF IInv, ControlsJob
<1>3. Ask(SupportedProcs, ProcMask) \in SUBSET Nat
    BY AskedProcs, TypeAssumption
<1>4. /\ UNCHANGED <<holder, m_lock, value, size, supported, current, cache, inputs>>
      /\ faults' \in 0..MaxFaults
      /\ job' = [job EXCEPT ![j] = job'[j]] /\ job'[j] \in ControlsJob
      /\ job'[j].op = "controls" /\ job'[j].found = job[j].found
      /\ job'[j].pc = AfterInfos("procInfos", job'[j].todo)
      /\ job'[j].todo \subseteq Ask(SupportedProcs, ProcMask)
      /\ ~job'[j].missed => ~job[j].missed /\ job'[j].todo = Ask(SupportedProcs, ProcMask)
    BY <1>1, <1>2, <1>3, SupportsFacts DEF IInv
<1>5. ~job[j].missed => DOMAIN job[j].found = Camera \cap Ctrls
    BY <1>1, <1>2 DEF IInv, JobInv, Exact
<1>6. Types(SupportedProcs, {}) = {}
    BY DEF Types
<1>7. Camera = (Camera \cap Ctrls) \cup (Camera \cap Procs)
    BY TypeAssumption DEF Type
<1>8. Exact(job'[j])
    BY <1>4, <1>5, <1>6, <1>7, AskedProcs DEF AfterInfos, Exact
<1>9. holder # "none"
    BY <1>1, Started DEF IInv
<1>. QED BY <1>4, <1>8, <1>9, JobStepKeeps, NotSizing DEF IInv, TypeOK, AnyJob

\* The loop takes one type of the list and adds its control to those found, or misses it.
LEMMA InfoFacts ==
    ASSUME TypeOK, NEW j \in Job, job[j] \in ControlsJob, job[j].pc \in {"ctrlInfos", "procInfos"},
           NEW list, Types(list, job[j].todo) \subseteq Camera, GetInfo(j, list)
    PROVE  /\ UNCHANGED <<holder, m_lock, value, size, supported, current, cache, inputs>>
           /\ faults' \in 0..MaxFaults
           /\ job' = [job EXCEPT ![j] = job'[j]] /\ job'[j] \in ControlsJob /\ job'[j].op = "controls"
           /\ job'[j].pc = AfterInfos(job[j].pc, job'[j].todo)
           /\ \E i \in job[j].todo :
                  /\ job'[j].todo = job[j].todo \ {i}
                  /\ ~job'[j].missed => ~job[j].missed /\ DOMAIN job'[j].found = DOMAIN job[j].found \cup {list[i]}
           /\ \A k \in DOMAIN job'[j].found :
                  \/ job'[j].found[k] = value[k]
                  \/ k \in DOMAIN job[j].found /\ job'[j].found[k] = job[j].found[k]
<1>1. PICK i \in job[j].todo, ok \in BOOLEAN :
          /\ Native(ok)
          /\ job' = [job EXCEPT ![j].pc = AfterInfos(@, job[j].todo \ {i}),
                                ![j].todo = job[j].todo \ {i},
                                ![j].found = Put(@, [type \in IF ok THEN {list[i]} ELSE {} |-> ControlInfoFrom(value[type])]),
                                ![j].missed = @ \/ ~ok]
    BY DEF GetInfo
<1>2. PICK info : info = [type \in IF ok THEN {list[i]} ELSE {} |-> value[type]]
    OBVIOUS
<1>3. info = [type \in IF ok THEN {list[i]} ELSE {} |-> ControlInfoFrom(value[type])]
    BY <1>2, ControlArrives
<1>4. job' = [job EXCEPT ![j].pc = AfterInfos(@, job[j].todo \ {i}), ![j].todo = job[j].todo \ {i},
                         ![j].found = Put(@, info), ![j].missed = @ \/ ~ok]
    BY <1>1, <1>3
<1>5. job'[j] = [job[j] EXCEPT !.pc = AfterInfos(@, job[j].todo \ {i}), !.todo = job[j].todo \ {i},
                               !.found = Put(@, info), !.missed = @ \/ ~ok]
    BY <1>4 DEF TypeOK
<1>6. job' = [job EXCEPT ![j] = job'[j]]
    BY <1>4, <1>5
<1>7. UNCHANGED <<holder, m_lock, value, size, supported, current, cache, inputs>>
    BY DEF GetInfo, camera
<1>8. list[i] \in Camera
    BY DEF Types
<1>9. info \in Map /\ DOMAIN info = (IF ok THEN {list[i]} ELSE {}) /\ \A k \in DOMAIN info : info[k] = value[k]
    BY <1>2, <1>8, MapDef DEF TypeOK
<1>10. job[j].found \in Map
    BY DEF ControlsJob
<1>11. /\ Put(job[j].found, info) \in Map
       /\ DOMAIN Put(job[j].found, info) = DOMAIN job[j].found \cup DOMAIN info
       /\ \A k \in DOMAIN job[j].found \cup DOMAIN info :
              Put(job[j].found, info)[k] = IF k \in DOMAIN info THEN info[k] ELSE job[j].found[k]
    BY <1>9, <1>10, PutType
<1>12. AfterInfos(job[j].pc, job[j].todo \ {i}) \in {"ctrlInfos", "procs", "procInfos", "done"}
    BY DEF AfterInfos
<1>13. job'[j] \in ControlsJob
  <2>1. PICK pc, todo, found, missed :
            /\ pc = AfterInfos(job[j].pc, job[j].todo \ {i}) /\ todo = job[j].todo \ {i}
            /\ found = Put(job[j].found, info) /\ missed = (job[j].missed \/ ~ok)
      OBVIOUS
  <2>2. job'[j] = [job[j] EXCEPT !.pc = pc, !.todo = todo, !.found = found, !.missed = missed]
      BY <1>5, <2>1
  <2>3. /\ pc \in {"ctrls", "ctrlInfos", "procs", "procInfos", "done"} /\ todo \in SUBSET Nat
        /\ found \in Map /\ missed \in BOOLEAN
      BY <1>11, <1>12, <2>1 DEF ControlsJob
  <2>. QED BY <2>2, <2>3 DEF ControlsJob
<1>14. /\ job'[j].op = "controls" /\ job'[j].found = Put(job[j].found, info)
       /\ job'[j].todo = job[j].todo \ {i}
       /\ job'[j].pc = AfterInfos(job[j].pc, job'[j].todo)
       /\ job'[j].missed = (job[j].missed \/ ~ok)
  <2>1. DOMAIN job[j] = {"op", "pc", "todo", "found", "missed"} /\ job[j].op = "controls"
      BY DEF ControlsJob
  <2>2. /\ job'[j].op = "controls" /\ job'[j].found = Put(job[j].found, info)
        /\ job'[j].todo = job[j].todo \ {i}
        /\ job'[j].missed = (job[j].missed \/ ~ok)
      BY <1>5, <2>1
  <2>3. job'[j].pc = AfterInfos(job[j].pc, job[j].todo \ {i})
      BY <1>5, <2>1
  <2>. QED BY <2>2, <2>3
<1>15. faults' \in 0..MaxFaults
    BY <1>1, NativeType
<1>16. ~job'[j].missed => ~job[j].missed /\ DOMAIN job'[j].found = DOMAIN job[j].found \cup {list[i]}
    BY <1>9, <1>11, <1>14
<1>17. \A k \in DOMAIN job'[j].found :
           \/ job'[j].found[k] = value[k]
           \/ k \in DOMAIN job[j].found /\ job'[j].found[k] = job[j].found[k]
    BY <1>9, <1>11, <1>14
<1>. QED BY <1>6, <1>7, <1>13, <1>14, <1>15, <1>16, <1>17

\* get_ctrl_info adds the control it is asked for, or the call is marked.
LEMMA CtrlInfoStep == ASSUME IInv, NEW j \in Job, GetCtrlInfo(j) PROVE IInv'
<1>1. PICK list :
          /\ GetInfo(j, list)
          /\ \/ job[j].pc = "ctrlInfos" /\ list = SupportedCtrls
             \/ job[j].pc = "procInfos" /\ list = SupportedProcs
    BY DEF GetCtrlInfo
<1>2. job[j] \in ControlsJob /\ job[j].op = "controls"
    BY <1>1, Kinds DEF IInv, ControlsJob
<1>3. Exact(job[j])
    BY <1>2 DEF IInv, JobInv
<1>4. \A k \in job[j].todo : list[k] \in Camera
  <2>1. CASE job[j].pc = "ctrlInfos"
    <3>1. \A k \in job[j].todo : SupportedCtrls[k] \in Types(SupportedCtrls, Ask(SupportedCtrls, CtrlMask))
        BY <1>3, <2>1 DEF Exact, Types
    <3>. QED BY <1>1, <2>1, <3>1, AskedCtrls
  <2>2. CASE job[j].pc = "procInfos"
    <3>1. \A k \in job[j].todo : SupportedProcs[k] \in Types(SupportedProcs, Ask(SupportedProcs, ProcMask))
        BY <1>3, <2>2 DEF Exact, Types
    <3>. QED BY <1>1, <2>2, <3>1, AskedProcs
  <2>. QED BY <1>1, <2>1, <2>2
<1>5. Types(list, job[j].todo) \subseteq Camera
    BY <1>4 DEF Types
<1>6. /\ UNCHANGED <<holder, m_lock, value, size, supported, current, cache, inputs>>
      /\ faults' \in 0..MaxFaults
      /\ job' = [job EXCEPT ![j] = job'[j]] /\ job'[j] \in ControlsJob /\ job'[j].op = "controls"
      /\ job'[j].pc = AfterInfos(job[j].pc, job'[j].todo)
      /\ \E i \in job[j].todo :
             /\ job'[j].todo = job[j].todo \ {i}
             /\ ~job'[j].missed => ~job[j].missed /\ DOMAIN job'[j].found = DOMAIN job[j].found \cup {list[i]}
    BY <1>1, <1>2, <1>5, InfoFacts DEF IInv
<1>7. PICK i \in job[j].todo :
          /\ job'[j].todo = job[j].todo \ {i}
          /\ ~job'[j].missed => ~job[j].missed /\ DOMAIN job'[j].found = DOMAIN job[j].found \cup {list[i]}
    BY <1>6
<1>8. ~job'[j].missed => DOMAIN job'[j].found \cup Types(list, job'[j].todo)
                             = DOMAIN job[j].found \cup Types(list, job[j].todo)
    BY <1>7 DEF Types
<1>9. Types(list, {}) = {}
    BY DEF Types
<1>10. Exact(job'[j])
    BY <1>1, <1>3, <1>6, <1>7, <1>8, <1>9 DEF AfterInfos, Exact
<1>11. holder # "none"
    BY <1>1, Started DEF IInv
<1>. QED BY <1>6, <1>10, <1>11, JobStepKeeps, NotSizing DEF IInv, TypeOK, AnyJob

-----------------------------------------------------------------------------
(* setCtrlValue, getCtrlValue, setSize, getCurrentSize.                    *)

\* A step of an isolate that looks for no list.
LEMMA PlainStep ==
    ASSUME IInv, NEW j \in Job, UNCHANGED <<holder, m_lock, supported, cache, inputs>>,
           value' \in [Camera -> Value], size' \in Size, current' \in SizeAnswer, faults' \in 0..MaxFaults,
           job' = [job EXCEPT ![j] = job'[j]], job'[j] \in ValueJob \cup SizeJob, job[j].pc # "idle",
           job'[j].pc = "current" => job'[j].out = INVALID, job'[j].pc # "resize"
    PROVE  IInv'
<1>1. job'[j].op \notin {"controls", "sizes"}
    BY DEF ValueJob, SizeJob
<1>2. job'[j] \in AnyJob
    BY DEF AnyJob
<1>3. holder # "none"
    BY Started DEF IInv
<1>. QED BY <1>1, <1>2, <1>3, JobStepKeeps DEF IInv, TypeOK

\* set_ctrl_value lets the camera choose the value, or the call ends without one.
LEMMA SetValueStep == ASSUME IInv, NEW j \in Job, SetValue(j) PROVE IInv'
<1>1. PICK ok \in BOOLEAN :
          /\ job[j].pc = "set" /\ Native(ok)
          /\ IF ok
             THEN /\ \E v \in Value : value' = [value EXCEPT ![job[j].type] = v]
                  /\ job' = [job EXCEPT ![j].pc = "get"]
             ELSE /\ job' = [job EXCEPT ![j].pc = "done", ![j].missed = TRUE]
                  /\ UNCHANGED value
    BY DEF SetValue
<1>2. UNCHANGED <<holder, m_lock, size, supported, current, cache, inputs>>
    BY DEF SetValue
<1>3. job[j] \in ValueJob
    BY <1>1, Kinds DEF IInv
<1>4. value' \in [Camera -> Value]
    BY <1>1 DEF IInv, TypeOK
<1>5. job'[j] = [job[j] EXCEPT !.pc = "get"] \/ job'[j] = [job[j] EXCEPT !.pc = "done", !.missed = TRUE]
    BY <1>1 DEF IInv, TypeOK
<1>6. job' = [job EXCEPT ![j] = job'[j]]
    BY <1>1 DEF IInv, TypeOK
<1>7. job'[j] \in ValueJob /\ job'[j].pc \notin {"resize", "current"}
    BY <1>3, <1>5 DEF ValueJob
<1>8. faults' \in 0..MaxFaults
    BY <1>1, NativeType DEF IInv
<1>. QED BY <1>1, <1>2, <1>4, <1>6, <1>7, <1>8, PlainStep DEF IInv, TypeOK

\* GetValue keeps the invariant: an answer is read, or the result stays INVALID.
LEMMA GetValueStep == ASSUME IInv, NEW j \in Job, GetValue(j) PROVE IInv'
<1>1. PICK ok \in BOOLEAN :
          /\ job[j].pc = "get" /\ Native(ok)
          /\ job' = [job EXCEPT ![j].pc = "done", ![j].missed = @ \/ ~ok,
                                ![j].out = IF ok THEN value[job[j].type] ELSE job[j].copy]
    BY DEF GetValue
<1>2. UNCHANGED <<holder, m_lock, value, size, supported, current, cache, inputs>>
    BY DEF GetValue, camera
<1>3. job[j] \in ValueJob
    BY <1>1, Kinds DEF IInv
<1>4. job'[j] = [job[j] EXCEPT !.pc = "done", !.missed = @ \/ ~ok,
                               !.out = IF ok THEN value[job[j].type] ELSE job[j].copy]
    BY <1>1 DEF IInv, TypeOK
<1>5. job' = [job EXCEPT ![j] = job'[j]]
    BY <1>1, <1>4 DEF IInv, TypeOK
<1>6. (IF ok THEN value[job[j].type] ELSE job[j].copy) \in Answer
    BY <1>3 DEF ValueJob, Answer, IInv, TypeOK
<1>7. job'[j] \in ValueJob /\ job'[j].pc \notin {"resize", "current"}
    BY <1>3, <1>4, <1>6 DEF ValueJob
<1>8. faults' \in 0..MaxFaults
    BY <1>1, NativeType DEF IInv
<1>. QED BY <1>1, <1>2, <1>5, <1>7, <1>8, PlainStep DEF IInv, TypeOK

\* The holder's last size is the camera's, or stays after an error.
LEMMA RefreshType ==
    ASSUME TypeOK, NEW s \in Size, RefreshCurrentSize(s)
    PROVE  /\ current' \in SizeAnswer /\ faults' \in 0..MaxFaults
           /\ current' = s \/ faults' # faults
BY BoundAssumption DEF TypeOK, SizeAnswer, RefreshCurrentSize, LibraryFault

\* Resize keeps it: the call is at its first step and has found nothing yet.
LEMMA ResizeStep == ASSUME IInv, NEW j \in Job, Resize(j) PROVE IInv'
<1>1. /\ job[j].pc = "resize"
      /\ IF holder = "present"
         THEN size' \in {job[j].size, size} /\ RefreshCurrentSize(size')
         ELSE UNCHANGED <<size, current, faults>>
      /\ job' = [job EXCEPT ![j].pc = "current"]
      /\ UNCHANGED <<holder, m_lock, value, supported, cache, inputs>>
    BY DEF Resize
<1>2. job[j] \in SizeJob /\ job[j].size \in Size
    BY <1>1, Kinds DEF IInv, SizeJob
<1>3. size' \in Size
    BY <1>1, <1>2 DEF IInv, TypeOK
<1>4. current' \in SizeAnswer /\ faults' \in 0..MaxFaults
    BY <1>1, <1>3, RefreshType DEF IInv, TypeOK
<1>5. job'[j] = [job[j] EXCEPT !.pc = "current"]
    BY <1>1 DEF IInv, TypeOK
<1>6. job' = [job EXCEPT ![j] = job'[j]]
    BY <1>1, <1>5
<1>7. job'[j] \in SizeJob /\ job'[j].out = job[j].out /\ job'[j].pc = "current"
    BY <1>2, <1>5 DEF SizeJob
<1>8. job'[j].out = INVALID
    BY <1>1, <1>7 DEF IInv, JobInv
<1>. QED BY <1>1, <1>3, <1>4, <1>6, <1>7, <1>8, PlainStep DEF IInv, TypeOK

\* What getCurrentSize answers.
LEMMA CurrentFacts ==
    ASSUME IInv, NEW j \in Job, GetCurrent(j)
    PROVE  /\ job[j] \in SizeJob /\ job' = [job EXCEPT ![j] = job'[j]] /\ job'[j] \in SizeJob
           /\ job'[j].pc = "done"
           /\ current' \in SizeAnswer /\ faults' \in 0..MaxFaults
           /\ job'[j].out = INVALID \/ job'[j].out.size = size' \/ faults' # faults
<1>1. /\ job[j].pc = "current"
      /\ IF holder = "present"
         THEN /\ RefreshCurrentSize(size)
              /\ job' = [job EXCEPT ![j].pc = "done", ![j].out = VideoSizeFrom(current')]
         ELSE /\ job' = [job EXCEPT ![j].pc = "done"]
              /\ UNCHANGED <<current, faults>>
      /\ UNCHANGED size
    BY DEF GetCurrent, camera
<1>2. job[j] \in SizeJob
    BY <1>1, Kinds DEF IInv
<1>3. CASE holder = "present"
  <2>1. /\ current' \in SizeAnswer /\ faults' \in 0..MaxFaults
        /\ current' = size \/ faults' # faults
      BY <1>1, <1>3, RefreshType DEF IInv, TypeOK
  <2>2. PICK out \in VideoSize : out.size = current' /\ job' = [job EXCEPT ![j].pc = "done", ![j].out = out]
      BY <1>1, <1>3, <2>1, SizeArrives, SizeType
  <2>3. job'[j] = [job[j] EXCEPT !.pc = "done", !.out = out]
      BY <2>2 DEF IInv, TypeOK
  <2>4. job' = [job EXCEPT ![j] = job'[j]]
      BY <2>2, <2>3
  <2>5. job'[j] \in SizeJob /\ job'[j].out = out /\ job'[j].pc = "done"
      BY <1>2, <2>3 DEF SizeJob
  <2>. QED BY <1>1, <1>2, <2>1, <2>2, <2>4, <2>5
<1>4. CASE holder # "present"
  <2>1. job'[j] = [job[j] EXCEPT !.pc = "done"] /\ UNCHANGED <<current, faults>>
      BY <1>1, <1>4 DEF IInv, TypeOK
  <2>2. job' = [job EXCEPT ![j] = job'[j]]
      BY <1>1, <1>4, <2>1
  <2>3. job'[j] \in SizeJob /\ job'[j].out = job[j].out /\ job'[j].pc = "done"
      BY <1>2, <2>1 DEF SizeJob
  <2>4. job[j].out = INVALID
      BY <1>1 DEF IInv, JobInv
  <2>. QED BY <1>1, <1>2, <2>1, <2>2, <2>3, <2>4 DEF IInv, TypeOK
<1>. QED BY <1>3, <1>4

\* GetCurrent keeps it: it starts the loop with an empty list.
LEMMA CurrentStep == ASSUME IInv, NEW j \in Job, GetCurrent(j) PROVE IInv'
<1>1. UNCHANGED <<holder, m_lock, value, size, supported, cache, inputs>> /\ job[j].pc = "current"
    BY DEF GetCurrent, camera
<1>. QED BY <1>1, CurrentFacts, PlainStep DEF IInv, TypeOK

-----------------------------------------------------------------------------
(* getSupportedSize.                                                       *)

\* GetCount keeps it: the index starts at 0 or the loop ends.
LEMMA CountStep == ASSUME IInv, NEW j \in Job, GetCount(j) PROVE IInv'
<1>1. PICK num : /\ num = IF Held THEN Len(supported) ELSE 0
                 /\ job[j].pc = "count"
                 /\ job' = [job EXCEPT ![j].pc = IF num > 0 THEN "index" ELSE "done", ![j].num = num,
                                       ![j].missed = ~Held]
    BY DEF GetCount
<1>2. UNCHANGED <<holder, m_lock, value, size, supported, current, cache, faults, inputs>>
    BY DEF GetCount, camera, bounds
<1>3. job[j] \in SizesJob /\ job[j].op = "sizes"
    BY <1>1, Kinds DEF IInv, SizesJob
<1>4. job[j].index = 0 /\ job[j].out = << >>
    BY <1>1, <1>3 DEF IInv, JobInv, InOrder
<1>5. num \in Nat /\ Len(supported) \in Nat
    BY <1>1 DEF IInv, TypeOK
<1>6. job'[j] = [job[j] EXCEPT !.pc = IF num > 0 THEN "index" ELSE "done", !.num = num, !.missed = ~Held]
    BY <1>1 DEF IInv, TypeOK
<1>7. job' = [job EXCEPT ![j] = job'[j]]
    BY <1>1, <1>6 DEF IInv, TypeOK
<1>8. job'[j] \in SizesJob
    BY <1>3, <1>5, <1>6 DEF SizesJob
<1>9. /\ job'[j].op = "sizes" /\ job'[j].index = 0 /\ job'[j].out = << >>
      /\ job'[j].num = num /\ job'[j].pc = (IF num > 0 THEN "index" ELSE "done")
      /\ ~job'[j].missed => Held
    BY <1>3, <1>4, <1>6 DEF SizesJob
<1>10. InOrder(job'[j])
  <2>1. DOMAIN job'[j].out = {} /\ Len(job'[j].out) = 0 /\ 1..0 = {}
      BY <1>9
  <2>2. num <= Len(SizeList) /\ 0 <= Len(SizeList) /\ Len(SizeList) \in Nat
      BY <1>1, <1>5, DataAssumption DEF IInv, Prefix
  <2>3. job'[j].pc # "count" /\ (job'[j].pc = "index" => num > 0)
      BY <1>5, <1>9
  <2>. QED BY <1>5, <1>9, <2>1, <2>2, <2>3 DEF InOrder
<1>11. holder # "none"
    BY <1>1, Started DEF IInv
<1>. QED BY <1>2, <1>7, <1>8, <1>9, <1>10, <1>11, JobStepKeeps, NotSizing DEF IInv, TypeOK, AnyJob

\* Reading the next size keeps the order; skipping it too.
LEMMA NextKeepsOrder ==
    ASSUME NEW r \in SizesJob, NEW q \in SizesJob, InOrder(r),
           r.pc = "index", q.index = r.index + 1, q.num <= Len(SizeList),
           q.pc = (IF r.index + 1 < q.num THEN "index" ELSE "done"),
           \/ q.missed /\ q.out = r.out
           \/ /\ q.missed = r.missed
              /\ \E s \in VideoSize : s.size = SizeList[r.index + 1] /\ q.out = Append(r.out, s)
    PROVE  InOrder(q)
<1>1. /\ r.index \in Nat /\ r.index < r.num /\ r.index + 1 \in 1..Len(SizeList)
      /\ r.out \in Seq(VideoSize) /\ Len(SizeList) \in Nat /\ q.num \in Nat
    BY DataAssumption DEF InOrder, SizesJob
<1>2. q.pc # "count"
    BY DEF InOrder
<1>3. q.pc = "index" => q.index < q.num
    OBVIOUS
<1>4. q.num <= Len(SizeList) /\ q.index <= Len(SizeList)
    BY <1>1
<1>5. CASE q.missed /\ q.out = r.out
  <2>1. /\ \A a \in DOMAIN r.out : \E m \in 1..r.index : SizeList[m] = r.out[a].size
        /\ \A a, b \in DOMAIN r.out : a < b =>
               \E m, n \in 1..r.index : m < n /\ SizeList[m] = r.out[a].size /\ SizeList[n] = r.out[b].size
      BY DEF InOrder
  <2>2. 1..r.index \subseteq 1..q.index
      BY <1>1
  <2>. QED BY <1>2, <1>3, <1>4, <1>5, <2>1, <2>2 DEF InOrder
<1>6. CASE /\ q.missed = r.missed
           /\ \E s \in VideoSize : s.size = SizeList[r.index + 1] /\ q.out = Append(r.out, s)
  <2>1. PICK s \in VideoSize : s.size = SizeList[r.index + 1] /\ q.out = Append(r.out, s)
      BY <1>6
  <2>2. /\ Len(q.out) = Len(r.out) + 1 /\ DOMAIN q.out = 1..Len(r.out) + 1 /\ DOMAIN r.out = 1..Len(r.out)
        /\ \A a \in 1..Len(r.out) : q.out[a] = r.out[a]
        /\ q.out[Len(r.out) + 1].size = SizeList[r.index + 1]
        /\ Len(r.out) \in Nat
      BY <1>1, <2>1
  <2>3. \A a \in DOMAIN q.out : \E m \in 1..q.index : SizeList[m] = q.out[a].size
    <3>1. TAKE a \in DOMAIN q.out
    <3>2. CASE a = Len(r.out) + 1
      <4>1. r.index + 1 \in 1..q.index
          BY <1>1
      <4>2. SizeList[r.index + 1] = q.out[a].size
          BY <2>2, <3>2
      <4>. QED BY <4>1, <4>2
    <3>3. CASE a \in DOMAIN r.out
      <4>0. \A x \in DOMAIN r.out : \E m \in 1..r.index : SizeList[m] = r.out[x].size
          BY DEF InOrder
      <4>1. PICK m \in 1..r.index : SizeList[m] = r.out[a].size
          BY <3>3, <4>0, Zenon
      <4>2. q.out[a] = r.out[a]
          BY <2>2, <3>3
      <4>3. m \in 1..q.index
          BY <1>1
      <4>. QED BY <4>1, <4>2, <4>3
    <3>. QED BY <2>2, <3>2, <3>3
  <2>4. \A a, b \in DOMAIN q.out : a < b =>
            \E m, n \in 1..q.index : m < n /\ SizeList[m] = q.out[a].size /\ SizeList[n] = q.out[b].size
    <3>1. TAKE a, b \in DOMAIN q.out
    <3>2. HAVE a < b
    <3>3. a \in DOMAIN r.out
        BY <2>2, <3>2
    <3>4. CASE b \in DOMAIN r.out
      <4>1. PICK m \in 1..r.index, n \in 1..r.index : m < n /\ SizeList[m] = r.out[a].size /\ SizeList[n] = r.out[b].size
        <5>1. \A x, y \in DOMAIN r.out : x < y =>
                  \E m, n \in 1..r.index : m < n /\ SizeList[m] = r.out[x].size /\ SizeList[n] = r.out[y].size
            BY DEF InOrder
        <5>2. \E m, n \in 1..r.index : m < n /\ SizeList[m] = r.out[a].size /\ SizeList[n] = r.out[b].size
            BY <3>2, <3>3, <3>4, <5>1, Zenon
        <5>. QED BY <5>2
      <4>2. q.out[a] = r.out[a] /\ q.out[b] = r.out[b]
          BY <2>2, <3>3, <3>4
      <4>3. m \in 1..q.index /\ n \in 1..q.index
          BY <1>1
      <4>. QED BY <4>1, <4>2, <4>3
    <3>5. CASE b = Len(r.out) + 1
      <4>0. \A x \in DOMAIN r.out : \E m \in 1..r.index : SizeList[m] = r.out[x].size
          BY DEF InOrder
      <4>1. PICK m \in 1..r.index : SizeList[m] = r.out[a].size
          BY <3>3, <4>0, Zenon
      <4>2. m < q.index /\ m \in 1..q.index /\ q.index \in 1..q.index
          BY <1>1, <4>1
      <4>. QED BY <2>2, <3>3, <3>5, <4>1, <4>2
    <3>. QED BY <2>2, <3>4, <3>5
  <2>5. ~q.missed => Len(q.out) = q.index /\ \A a \in 1..q.index : q.out[a].size = SizeList[a]
    <3>1. HAVE ~q.missed
    <3>2. Len(r.out) = r.index /\ \A a \in 1..r.index : r.out[a].size = SizeList[a]
        BY <1>6, <3>1 DEF InOrder
    <3>3. Len(q.out) = q.index
        BY <1>1, <2>2, <3>2
    <3>4. ASSUME NEW a \in 1..q.index PROVE q.out[a].size = SizeList[a]
      <4>1. CASE a = q.index
          BY <1>1, <2>2, <3>2, <4>1
      <4>2. CASE a \in 1..r.index
        <5>1. q.out[a] = r.out[a]
            BY <2>2, <3>2, <4>2
        <5>. QED BY <3>2, <4>2, <5>1
      <4>. QED BY <1>1, <4>1, <4>2
    <3>. QED BY <3>3, <3>4
  <2>. QED BY <1>2, <1>3, <1>4, <2>3, <2>4, <2>5 DEF InOrder
<1>. QED BY <1>5, <1>6

\* A step of the loop reads the size at its index, which is the camera's at that place, or
\* is marked.
LEMMA SizeFacts ==
    ASSUME IInv, NEW j \in Job, GetSize(j)
    PROVE  /\ UNCHANGED <<holder, m_lock, value, size, supported, current, cache, faults, inputs>>
           /\ job[j].pc = "index" /\ job[j] \in SizesJob /\ InOrder(job[j])
           /\ job' = [job EXCEPT ![j] = job'[j]] /\ job'[j] \in SizesJob
           /\ job'[j].index = job[j].index + 1 /\ job'[j].num <= Len(SizeList)
           /\ job'[j].pc = IF job[j].index + 1 < job'[j].num THEN "index" ELSE "done"
           /\ \/ job'[j].missed /\ job'[j].out = job[j].out
              \/ /\ job'[j].missed = job[j].missed
                 /\ job'[j].num = Len(supported) /\ job[j].index < Len(supported)
                 /\ \E s \in VideoSize : s.size = SizeList[job[j].index + 1] /\ job'[j].out = Append(job[j].out, s)
<1>. DEFINE read == Held /\ job[j].index < Len(supported)
<1>1. PICK index, num, missed, out, pc :
          /\ index = job[j].index + 1
          /\ num = NumSupported(j) /\ missed = (job[j].missed \/ ~read)
          /\ out = (IF read THEN Append(job[j].out, SizeRead(j)) ELSE job[j].out)
          /\ pc = (IF index < num THEN "index" ELSE "done")
    OBVIOUS
<1>2. /\ job[j].pc = "index"
      /\ job' = [job EXCEPT ![j].pc = pc, ![j].index = index, ![j].num = num, ![j].missed = missed, ![j].out = out]
    BY <1>1 DEF GetSize, SizeLoop
<1>3. UNCHANGED <<holder, m_lock, value, size, supported, current, cache, faults, inputs>>
    BY DEF GetSize, camera, bounds
<1>4. job[j] \in SizesJob /\ job[j].op = "sizes"
    BY <1>2, Kinds DEF IInv, SizesJob
<1>5. supported \in Seq(Size) /\ InOrder(job[j]) /\ Prefix(supported)
    BY <1>4 DEF IInv, TypeOK, JobInv
<1>6. job[j].index \in Nat /\ job[j].num \in Nat /\ job[j].out \in Seq(VideoSize) /\ job[j].missed \in BOOLEAN
    BY <1>4 DEF SizesJob
<1>7. /\ num \in Nat /\ num <= Len(SizeList) /\ Len(supported) \in Nat
      /\ read => num = Len(supported)
  <2>1. job[j].num <= Len(SizeList) /\ Len(supported) <= Len(SizeList)
      BY <1>5 DEF InOrder, Prefix
  <2>. QED BY <1>1, <1>5, <1>6, <2>1 DEF NumSupported
<1>8. ASSUME read
      PROVE  SizeRead(j) \in VideoSize /\ SizeRead(j).size = SizeList[job[j].index + 1]
  <2>1. job[j].index + 1 \in 1..Len(supported)
      BY <1>1, <1>6, <1>7, <1>8
  <2>2. supported[job[j].index + 1] \in SizeAnswer /\ supported[job[j].index + 1] = SizeList[job[j].index + 1]
      BY <1>5, <2>1 DEF Prefix, SizeAnswer
  <2>. QED BY <2>2, SizeArrives, SizeType DEF SizeRead
<1>9. out \in Seq(VideoSize) /\ missed \in BOOLEAN /\ index \in Nat /\ pc \in {"count", "index", "done"}
    BY <1>1, <1>6, <1>8
<1>10. job'[j] = [job[j] EXCEPT !.pc = pc, !.index = index, !.num = num, !.missed = missed, !.out = out]
    BY <1>2 DEF IInv, TypeOK
<1>11. job' = [job EXCEPT ![j] = job'[j]]
    BY <1>2, <1>10
<1>12. job'[j] \in SizesJob
    BY <1>4, <1>7, <1>9, <1>10 DEF SizesJob
<1>13. /\ job'[j].pc = pc /\ job'[j].index = index /\ job'[j].num = num
       /\ job'[j].missed = missed /\ job'[j].out = out
    BY <1>4, <1>10 DEF SizesJob
<1>14. \/ missed /\ out = job[j].out
       \/ /\ missed = job[j].missed /\ num = Len(supported) /\ job[j].index < Len(supported)
          /\ \E s \in VideoSize : s.size = SizeList[job[j].index + 1] /\ out = Append(job[j].out, s)
    BY <1>1, <1>6, <1>7, <1>8
<1>. QED BY <1>1, <1>2, <1>3, <1>4, <1>5, <1>7, <1>11, <1>12, <1>13, <1>14

\* GetSize keeps it: an entry is appended only from the index that is read next.
LEMMA SizeStep == ASSUME IInv, NEW j \in Job, GetSize(j) PROVE IInv'
<1>1. /\ job[j].pc = "index" /\ job'[j] \in SizesJob /\ job' = [job EXCEPT ![j] = job'[j]]
      /\ UNCHANGED <<holder, m_lock, value, size, supported, current, cache, faults, inputs>>
    BY SizeFacts
<1>2. InOrder(job'[j])
    BY SizeFacts, NextKeepsOrder
<1>3. job'[j].op = "sizes"
    BY <1>1 DEF SizesJob
<1>4. holder # "none"
    BY <1>1, Started DEF IInv
<1>. QED BY <1>1, <1>2, <1>3, <1>4, JobStepKeeps, NotSizing DEF IInv, TypeOK, AnyJob

-----------------------------------------------------------------------------
(* Calls of the app and their replies; the camera; the initial state.      *)

\* A call starts an isolate that has found nothing yet.
LEMMA ComputeStep ==
    ASSUME IInv, NEW j \in Job, NEW new, Compute(j, new), UNCHANGED <<holder, m_lock, value, size, supported, current>>,
           cache' \in Map, faults' \in 0..MaxFaults, inputs' \in 0..MaxInputs, new \in AnyJob,
           new.op = "controls" => Exact(new), new.op = "sizes" => InOrder(new),
           new.pc \in {"resize", "current"} => new.out = INVALID
    PROVE  IInv'
<1>1. holder # "none" /\ job' = [job EXCEPT ![j] = new]
    BY DEF Compute
<1>2. job'[j] = new
    BY <1>1 DEF IInv, TypeOK
<1>. QED BY <1>1, <1>2, JobStepKeeps DEF IInv, TypeOK

\* The inputs are counted up to their bound.
LEMMA InputType == ASSUME TypeOK, Input PROVE inputs' \in 0..MaxInputs
BY BoundAssumption DEF TypeOK, Input

\* The empty function is a map of controls.
LEMMA EmptyMap == << >> \in Map /\ DOMAIN << >> = {}
<1>1. DOMAIN << >> = {}
    OBVIOUS
<1>2. << >> = [k \in {} |-> << >>[k]]
    OBVIOUS
<1>. QED BY <1>1, <1>2, MapDef

\* Every call of the app begins as its kind of isolate.
LEMMA AppStep == ASSUME IInv, NEW j \in Job, App(j) PROVE IInv'
<1>1. CASE GetSupportedControls(j)
  <2>1. PICK new : new = [op |-> "controls", pc |-> "ctrls", todo |-> {}, found |-> << >>, missed |-> FALSE]
      OBVIOUS
  <2>2. new \in ControlsJob /\ new.op = "controls"
      BY <2>1, EmptyMap DEF ControlsJob
  <2>3. Exact(new)
      BY <2>1, EmptyMap DEF Exact
  <2>4. Compute(j, new) /\ Input /\ UNCHANGED <<holder, m_lock, value, size, supported, current, cache, faults>>
      BY <1>1, <2>1 DEF GetSupportedControls, camera
  <2>5. inputs' \in 0..MaxInputs
      BY <2>4, InputType DEF IInv
  <2>. QED BY <2>2, <2>3, <2>4, <2>5, ComputeStep, NotSizing DEF IInv, TypeOK, AnyJob
<1>2. CASE GetCurrentSize(j)
  <2>1. PICK new : new = [op |-> "size", pc |-> "current", out |-> INVALID, missed |-> FALSE]
      OBVIOUS
  <2>2. new \in SizeJob /\ new.op = "size" /\ new.out = INVALID
      BY <2>1 DEF SizeJob, SizeAnswer
  <2>3. Compute(j, new) /\ Input /\ UNCHANGED <<holder, m_lock, value, size, supported, current, cache, faults>>
      BY <1>2, <2>1 DEF GetCurrentSize, camera
  <2>4. inputs' \in 0..MaxInputs
      BY <2>3, InputType DEF IInv
  <2>. QED BY <2>2, <2>3, <2>4, ComputeStep DEF IInv, TypeOK, AnyJob
<1>3. CASE GetSupportedSize(j)
  <2>1. PICK new : new = [op |-> "sizes", pc |-> "count", index |-> 0, num |-> 0, out |-> << >>, missed |-> FALSE]
      OBVIOUS
  <2>2. new \in SizesJob /\ new.op = "sizes"
      BY <2>1 DEF SizesJob
  <2>3. InOrder(new)
    <3>1. /\ DOMAIN new.out = {} /\ Len(new.out) = 0 /\ 1..0 = {} /\ new.out = << >>
          /\ new.index = 0 /\ new.num = 0 /\ new.pc = "count"
        BY <2>1
    <3>. QED BY <3>1 DEF InOrder
  <2>4. Compute(j, new) /\ Input /\ UNCHANGED <<holder, m_lock, value, size, supported, current, cache, faults>>
      BY <1>3, <2>1 DEF GetSupportedSize, camera
  <2>5. inputs' \in 0..MaxInputs
      BY <2>4, InputType DEF IInv
  <2>. QED BY <2>2, <2>3, <2>4, <2>5, ComputeStep, NotSizing DEF IInv, TypeOK, AnyJob
<1>4. ASSUME NEW type \in Type, GetCtrlValue(j, type)
      PROVE  IInv'
  <2>1. PICK new : new = [op |-> "get", pc |-> "get", type |-> type, copy |-> cache[type],
                          out |-> INVALID, missed |-> FALSE]
      OBVIOUS
  <2>2. type \in DOMAIN cache /\ type \in Camera /\ cache[type] \in Value
      BY <1>4, MapDef DEF GetCtrlValue, IInv, TypeOK
  <2>3. new \in ValueJob /\ new.op = "get"
      BY <2>1, <2>2 DEF ValueJob, Answer
  <2>4. Compute(j, new) /\ Input /\ UNCHANGED <<holder, m_lock, value, size, supported, current, cache, faults>>
      BY <1>4, <2>1 DEF GetCtrlValue, camera
  <2>5. inputs' \in 0..MaxInputs
      BY <2>4, InputType DEF IInv
  <2>. QED BY <2>3, <2>4, <2>5, ComputeStep, NotSizing DEF IInv, TypeOK, AnyJob
<1>5. ASSUME NEW type \in Type, NEW v \in Value, SetCtrlValue(j, type, v)
      PROVE  IInv'
  <2>1. PICK new : new = [op |-> "set", pc |-> "set", type |-> type, copy |-> v, out |-> INVALID, missed |-> FALSE]
      OBVIOUS
  <2>2. type \in DOMAIN cache /\ type \in Camera
      BY <1>5, MapDef DEF SetCtrlValue, IInv, TypeOK
  <2>3. new \in ValueJob /\ new.op = "set"
      BY <2>1, <2>2 DEF ValueJob, Answer
  <2>4. /\ Compute(j, new) /\ Input /\ UNCHANGED <<holder, m_lock, value, size, supported, current, faults>>
        /\ cache' = [cache EXCEPT ![type] = v]
      BY <1>5, <2>1 DEF SetCtrlValue, camera
  <2>5. cache' \in Map
    <3>1. PICK types \in SUBSET Camera : cache \in [types -> Value]
        BY DEF IInv, TypeOK, Map
    <3>2. cache' \in [types -> Value]
        BY <2>4, <3>1
    <3>. QED BY <3>1, <3>2 DEF Map
  <2>6. inputs' \in 0..MaxInputs
      BY <2>4, InputType DEF IInv
  <2>. QED BY <2>3, <2>4, <2>5, <2>6, ComputeStep, NotSizing DEF IInv, TypeOK, AnyJob
<1>6. ASSUME NEW s \in Size, SetSize(j, s)
      PROVE  IInv'
  <2>1. PICK new : new = [op |-> "size", pc |-> "resize", size |-> s, out |-> INVALID, missed |-> FALSE]
      OBVIOUS
  <2>2. new \in SizeJob /\ new.op = "size" /\ new.out = INVALID
      BY <2>1 DEF SizeJob, SizeAnswer
  <2>3. Compute(j, new) /\ Input /\ UNCHANGED <<holder, m_lock, value, size, supported, current, cache, faults>>
      BY <1>6, <2>1 DEF SetSize, camera
  <2>4. inputs' \in 0..MaxInputs
      BY <2>3, InputType DEF IInv
  <2>. QED BY <2>2, <2>3, <2>4, ComputeStep DEF IInv, TypeOK, AnyJob
<1>. QED BY <1>1, <1>2, <1>3, <1>4, <1>5, <1>6 DEF App

\* A reply frees the isolate; what getSupportedControls found are controls of the camera.
LEMMA ReplyStep == ASSUME IInv, NEW j \in Job, Reply(j) PROVE IInv'
<1>1. /\ job[j].pc = "done" /\ job' = [job EXCEPT ![j] = NoJob]
      /\ cache' = IF job[j].op = "controls" THEN Put(cache, job[j].found) ELSE cache
      /\ UNCHANGED <<holder, m_lock, value, size, supported, current, faults, inputs>>
    BY DEF Reply, camera, bounds
<1>2. cache' \in Map
  <2>1. CASE job[j].op = "controls"
    <3>1. job[j].found \in Map
        BY <2>1, Kinds DEF IInv, ControlsJob
    <3>. QED BY <1>1, <2>1, <3>1, PutType DEF IInv, TypeOK
  <2>. QED BY <1>1, <2>1 DEF IInv, TypeOK
<1>3. job'[j] = NoJob
    BY <1>1 DEF IInv, TypeOK
<1>4. job'[j] \in AnyJob /\ job'[j].op = "none" /\ job'[j].pc = "idle"
    BY <1>3 DEF AnyJob, NoJob
<1>5. holder # "none"
    BY <1>1, Started DEF IInv
<1>. QED BY <1>1, <1>2, <1>3, <1>4, <1>5, JobStepKeeps DEF IInv, TypeOK

\* The list of a new holder is the camera's up to a place.  The isolates on their way have
\* found what they have found.
LEMMA AttachStep == ASSUME IInv, Attach PROVE IInv'
<1>1. /\ holder' = "present" /\ UNCHANGED <<m_lock, cache, job, inputs>>
      /\ IF holder = "none" THEN UNCHANGED <<value, size>> ELSE value' \in [Camera -> Value] /\ size' \in Size
    BY DEF Attach, camera
<1>2. PICK n \in 0..Len(SizeList), read \in BOOLEAN :
          /\ supported' = SubSeq(SizeList, 1, n)
          /\ current' = IF read THEN size' ELSE INVALID
          /\ IF read /\ n = Len(SizeList) THEN UNCHANGED faults ELSE LibraryFault
    BY DEF Attach
<1>3. supported' \in Seq(Size) /\ Prefix(supported')
    BY <1>2, DataAssumption DEF Prefix
<1>4. value' \in [Camera -> Value] /\ size' \in Size
    BY <1>1 DEF IInv, TypeOK
<1>5. current' \in SizeAnswer /\ faults' \in 0..MaxFaults
    BY <1>2, <1>4, BoundAssumption DEF IInv, TypeOK, SizeAnswer, LibraryFault
<1>6. TypeOK'
    BY <1>1, <1>3, <1>4, <1>5 DEF IInv, TypeOK
<1>7. \A i \in Job :
          /\ job'[i].op = "controls" => Exact(job'[i])
          /\ job'[i].op = "sizes" => InOrder(job'[i])
          /\ job'[i].pc \in {"resize", "current"} => job'[i].out = INVALID
    BY <1>1 DEF IInv, JobInv
<1>8. JobInv'
    BY <1>1, <1>7 DEF JobInv
<1>. QED BY <1>3, <1>6, <1>8 DEF IInv

\* The camera goes, another one comes, values are adjusted: no isolate notices at once.
LEMMA CameraStep == ASSUME IInv, Detach \/ OtherAttach \/ OtherAttached \/ Adjust PROVE IInv'
<1>1. /\ UNCHANGED <<size, supported, current, cache, job, faults>>
      /\ holder' \in {holder, "gone"} /\ m_lock' \in BOOLEAN /\ value' \in [Camera -> Value]
    BY DEF Detach, OtherAttach, OtherAttached, Adjust, camera, bounds, IInv, TypeOK
<1>2. inputs' \in 0..MaxInputs
    BY InputType DEF Detach, OtherAttach, OtherAttached, Adjust, bounds, IInv, TypeOK
<1>3. TypeOK' /\ Prefix(supported')
    BY <1>1, <1>2 DEF IInv, TypeOK
<1>4. JobInv'
  <2>1. \A i \in Job :
            /\ job'[i].op = "controls" => Exact(job'[i])
            /\ job'[i].op = "sizes" => InOrder(job'[i])
            /\ job'[i].pc \in {"resize", "current"} => job'[i].out = INVALID
            /\ holder' = "none" => job'[i] = NoJob
      BY <1>1 DEF IInv, JobInv
  <2>. QED BY <2>1 DEF JobInv
<1>. QED BY <1>3, <1>4 DEF IInv

\* A stuttering step keeps the invariant.
LEMMA Stuttering == ASSUME IInv, UNCHANGED vars PROVE IInv'
<1>1. UNCHANGED <<holder, m_lock, value, size, supported, current, cache, job, faults, inputs>>
    BY DEF vars, camera, bounds
<1>2. TypeOK' /\ Prefix(supported')
    BY <1>1 DEF IInv, TypeOK
<1>3. \A i \in Job :
          /\ job'[i].op = "controls" => Exact(job'[i])
          /\ job'[i].op = "sizes" => InOrder(job'[i])
          /\ job'[i].pc \in {"resize", "current"} => job'[i].out = INVALID
          /\ holder' = "none" => job'[i] = NoJob
    BY <1>1 DEF IInv, JobInv
<1>. QED BY <1>2, <1>3 DEF IInv, JobInv

\* The invariant holds at the start.
LEMMA Initial == ASSUME Init PROVE IInv
<1>1. Head(SizeList) \in Size
    BY DataAssumption
<1>2. [type \in Camera |-> Default] \in [Camera -> Value]
    BY DataAssumption
<1>3. TypeOK
  <2>1. cache \in Map /\ supported \in Seq(Size)
      BY EmptyMap DEF Init
  <2>2. job \in [Job -> AnyJob]
      BY DEF Init, AnyJob
  <2>3. faults \in 0..MaxFaults /\ inputs \in 0..MaxInputs
      BY BoundAssumption DEF Init
  <2>. QED BY <1>1, <1>2, <2>1, <2>2, <2>3 DEF Init, TypeOK, SizeAnswer, AnyJob
<1>4. \A i \in Job : job[i] = NoJob /\ job[i].op = "none" /\ job[i].pc = "idle"
    BY DEF Init, NoJob
<1>5. JobInv
    BY <1>4 DEF JobInv
<1>6. Prefix(supported)
    BY DataAssumption DEF Init, Prefix
<1>. QED BY <1>3, <1>5, <1>6 DEF IInv

\* Every step of ControllerData keeps the invariant.
LEMMA Inductive == IInv /\ [Next]_vars => IInv'
<1>. SUFFICES ASSUME IInv, [Next]_vars PROVE IInv'
    OBVIOUS
<1>1. ASSUME NEW j \in Job, JobStep(j) PROVE IInv'
    BY <1>1, CtrlSupportsStep, ProcSupportsStep, CtrlInfoStep, SetValueStep, GetValueStep, ResizeStep, CurrentStep,
       CountStep, SizeStep, ReplyStep DEF JobStep
<1>2. ASSUME NEW j \in Job, App(j) PROVE IInv'
    BY <1>2, AppStep
<1>3. ASSUME Attach \/ Detach \/ OtherAttach \/ OtherAttached \/ Adjust PROVE IInv'
    BY <1>3, AttachStep, CameraStep
<1>4. ASSUME UNCHANGED vars PROVE IInv'
    BY <1>4, Stuttering
<1>. QED BY <1>1, <1>2, <1>3, <1>4 DEF Next

\* A call of the app takes an isolate that is free.
LEMMA AppFree == ASSUME NEW i \in Job, App(i) PROVE job[i] = NoJob
<1>1. PICK new : Compute(i, new)
    BY DEF App, GetSupportedControls, GetCurrentSize, GetSupportedSize, GetCtrlValue, SetCtrlValue, SetSize
<1>2. i \in Free
    BY <1>1 DEF Compute
<1>. QED BY <1>2 DEF Free

\* A step changes the isolate it is a step of, and no other.
LEMMA OneIsolate ==
    ASSUME TypeOK, NEW i \in Job, JobStep(i) \/ App(i), NEW j \in Job, j # i PROVE job'[j] = job[j]
<1>1. ASSUME GetCtrlSupports(i) \/ GetProcSupports(i) PROVE job'[j] = job[j]
  <2>1. PICK infos, todo : Supports(i, infos, todo)
      BY <1>1 DEF GetCtrlSupports, GetProcSupports
  <2>. QED BY <2>1 DEF Supports, TypeOK
<1>2. ASSUME GetCtrlInfo(i) PROVE job'[j] = job[j]
  <2>1. PICK list : GetInfo(i, list)
      BY <1>2 DEF GetCtrlInfo
  <2>. QED BY <2>1 DEF GetInfo, TypeOK
<1>3. ASSUME SetValue(i) PROVE job'[j] = job[j]
    BY <1>3 DEF SetValue, TypeOK
<1>4. ASSUME GetValue(i) PROVE job'[j] = job[j]
    BY <1>4 DEF GetValue, TypeOK
<1>5. ASSUME Resize(i) PROVE job'[j] = job[j]
    BY <1>5 DEF Resize, TypeOK
<1>6. ASSUME GetCurrent(i) PROVE job'[j] = job[j]
    BY <1>6 DEF GetCurrent, TypeOK
<1>7. ASSUME GetCount(i) PROVE job'[j] = job[j]
    BY <1>7 DEF GetCount, TypeOK
<1>8. ASSUME GetSize(i) PROVE job'[j] = job[j]
    BY <1>8 DEF GetSize, SizeLoop, TypeOK
<1>9. ASSUME Reply(i) PROVE job'[j] = job[j]
    BY <1>9 DEF Reply, TypeOK
<1>10. ASSUME App(i) PROVE job'[j] = job[j]
  <2>1. PICK new : Compute(i, new)
      BY <1>10 DEF App, GetSupportedControls, GetCurrentSize, GetSupportedSize, GetCtrlValue, SetCtrlValue, SetSize
  <2>. QED BY <2>1 DEF Compute, TypeOK
<1>. QED BY <1>1, <1>2, <1>3, <1>4, <1>5, <1>6, <1>7, <1>8, <1>9, <1>10 DEF JobStep

-----------------------------------------------------------------------------
(* What follows.                                                           *)

\* Whatever isolates, camera and library do, the invariant holds.
THEOREM Invariance == Spec => []IInv
<1>1. Init => IInv
    BY Initial
<1>2. IInv /\ [Next]_vars => IInv'
    BY Inductive
<1>. QED BY <1>1, <1>2, PTL DEF Spec

\* Every variable has its type: values of controls and what says which size a size is come
\* through the structs as they were written (its rates may be garbage), and only controls of
\* the camera are asked for.
THEOREM TypeCorrect == Spec => []TypeOK
<1>1. IInv => TypeOK
    BY DEF IInv
<1>. QED BY <1>1, Invariance, PTL

\* The controls Dart builds from the masks are those of the camera, all of them unless a
\* call failed.
THEOREM ControlsAreExact == Spec => []ControlsExact
<1>1. ASSUME IInv PROVE ControlsExact
  <2>1. SUFFICES ASSUME NEW j \in Job, job[j].op = "controls", job[j].pc = "done"
                 PROVE  /\ DOMAIN job[j].found \subseteq Camera
                        /\ ~job[j].missed => DOMAIN job[j].found = Camera
      BY DEF ControlsExact
  <2>2. job[j].found \in Map
      BY <1>1, <2>1, Kinds DEF IInv, ControlsJob
  <2>3. Exact(job[j])
      BY <1>1, <2>1 DEF IInv, JobInv
  <2>. QED BY <2>1, <2>2, <2>3, MapDef DEF Exact
<1>. QED BY <1>1, Invariance, PTL

\* The list of sizes has sizes of the camera only, in its order, whatever holders the calls
\* of the loop have found.
THEOREM SizesAreInOrder == Spec => []SizesInOrder
<1>1. ASSUME IInv PROVE SizesInOrder
  <2>1. SUFFICES ASSUME NEW j \in Job, job[j].op = "sizes"
                 PROVE  /\ \A a \in DOMAIN job[j].out : job[j].out[a].size \in Size
                        /\ \A a, b \in DOMAIN job[j].out : a < b =>
                               \E m, n \in DOMAIN SizeList :
                                   m < n /\ SizeList[m] = job[j].out[a].size /\ SizeList[n] = job[j].out[b].size
      BY DEF SizesInOrder
  <2>2. job[j].index \in Nat /\ SizeList \in Seq(Size)
      BY <1>1, <2>1, Kinds, DataAssumption DEF IInv, SizesJob
  <2>3. InOrder(job[j])
      BY <1>1, <2>1 DEF IInv, JobInv
  <2>4. 1..job[j].index \subseteq DOMAIN SizeList
      BY <2>2, <2>3 DEF InOrder
  <2>5. \A a, b \in DOMAIN job[j].out : a < b =>
            \E m, n \in 1..job[j].index : m < n /\ SizeList[m] = job[j].out[a].size /\ SizeList[n] = job[j].out[b].size
      BY <2>3 DEF InOrder
  <2>6. \A a \in DOMAIN job[j].out : \E m \in 1..job[j].index : SizeList[m] = job[j].out[a].size
      BY <2>3 DEF InOrder
  <2>7. \A m \in DOMAIN SizeList : SizeList[m] \in Size
      BY <2>2
  <2>. QED BY <2>4, <2>5, <2>6, <2>7
<1>. QED BY <1>1, Invariance, PTL

\* An isolate that ends its loop for the sizes was counting them or reading one.
LEMMA SizesEnd ==
    ASSUME IInv, [Next]_vars, NEW j \in Job,
           job[j].op = "sizes", job[j].pc # "done", job'[j].pc = "done"
    PROVE  GetCount(j) \/ GetSize(j)
<1>1. job'[j] # job[j] /\ job[j] # NoJob /\ job[j].pc \in {"count", "index"}
    BY Kinds DEF NoJob, IInv, SizesJob
<1>2. ASSUME NEW i \in Job, JobStep(i) \/ App(i) PROVE i = j
    BY <1>1, <1>2, OneIsolate DEF IInv
<1>3. ~App(j)
    BY <1>1, AppFree
<1>4. ASSUME JobStep(j) PROVE GetCount(j) \/ GetSize(j)
    BY <1>1, <1>4 DEF JobStep, GetCtrlSupports, GetProcSupports, GetCtrlInfo, SetValue, GetValue, Resize, GetCurrent, Reply
<1>5. ASSUME Attach \/ Detach \/ OtherAttach \/ OtherAttached \/ Adjust \/ UNCHANGED vars PROVE FALSE
    BY <1>1, <1>5 DEF Attach, Detach, OtherAttach, OtherAttached, Adjust, vars
<1>. QED BY <1>2, <1>3, <1>4, <1>5 DEF Next

\* A list of sizes that no call was missed for is the whole list of the holder at the end.
THEOREM SizesAreComplete == Spec => SizesComplete
<1>1. ASSUME IInv, [Next]_vars, NEW j \in Job,
             job[j].op = "sizes", job[j].pc # "done", job'[j].pc = "done", ~job'[j].missed
      PROVE  /\ Len(job'[j].out) = Len(supported)
             /\ \A a \in DOMAIN supported : job'[j].out[a].size = supported[a]
  <2>1. IInv' /\ supported \in Seq(Size) /\ Prefix(supported)
      BY <1>1, Inductive DEF IInv, TypeOK
  <2>2. CASE GetCount(j)
    <3>1. job[j].out = << >> /\ job[j] \in SizesJob
        BY <1>1, <2>2, Kinds DEF GetCount, IInv, JobInv, InOrder
    <3>2. PICK num : /\ num = IF Held THEN Len(supported) ELSE 0
                     /\ job' = [job EXCEPT ![j].pc = IF num > 0 THEN "index" ELSE "done", ![j].num = num,
                                           ![j].missed = ~Held]
        BY <2>2 DEF GetCount
    <3>3. job'[j] = [job[j] EXCEPT !.pc = IF num > 0 THEN "index" ELSE "done", !.num = num, !.missed = ~Held]
        BY <1>1, <3>2 DEF IInv, TypeOK
    <3>4. job'[j].out = << >> /\ Held /\ ~(num > 0)
        BY <1>1, <3>1, <3>3 DEF SizesJob
    <3>. QED BY <2>1, <3>2, <3>4
  <2>3. CASE GetSize(j)
    <3>1. /\ job[j] \in SizesJob /\ InOrder(job[j]) /\ job[j].pc = "index"
          /\ job'[j].num = Len(supported) /\ job[j].index < Len(supported)
          /\ ~(job[j].index + 1 < job'[j].num) /\ job'[j].index = job[j].index + 1
        BY <1>1, <2>3, SizeFacts
    <3>2. job'[j].index = Len(supported)
        BY <2>1, <3>1 DEF SizesJob
    <3>3. job'[j].op = "sizes"
        BY <1>1, <2>3, SizeFacts DEF SizesJob
    <3>4. InOrder(job'[j])
        BY <2>1, <3>3 DEF IInv, JobInv
    <3>. QED BY <1>1, <2>1, <3>2, <3>4 DEF InOrder, Prefix
  <2>. QED BY <1>1, <2>2, <2>3, SizesEnd
<1>2. IInv /\ [Next]_vars =>
          [\A j \in Job : job[j].op = "sizes" /\ job[j].pc # "done" /\ job'[j].pc = "done" /\ ~job'[j].missed =>
               /\ Len(job'[j].out) = Len(supported)
               /\ \A a \in DOMAIN supported : job'[j].out[a].size = supported[a]]_vars
    BY <1>1
<1>. QED BY <1>2, Invariance, PTL DEF Spec, SizesComplete

\* The reply of setSize and getCurrentSize is the camera's size at that moment, or INVALID,
\* or the library has just failed.
THEOREM SizesAreFresh == Spec => SizeFresh
<1>1. ASSUME IInv, [Next]_vars, NEW j \in Job, job[j].op = "size", job[j].pc = "current", job'[j].pc = "done"
      PROVE  job'[j].out = INVALID \/ job'[j].out.size = size' \/ faults' # faults
  <2>1. job'[j] # job[j] /\ job[j].pc \notin {"idle", "done"}
      BY <1>1
  <2>2. CASE GetCurrent(j)
      BY <1>1, <2>2, CurrentFacts
  <2>3. ASSUME JobStep(j) PROVE GetCurrent(j)
      BY <1>1, <2>3 DEF JobStep, GetCtrlSupports, GetProcSupports, GetCtrlInfo, SetValue, GetValue, Resize,
         GetCount, GetSize, Reply
  <2>4. ASSUME NEW i \in Job, JobStep(i) PROVE i = j
      BY <1>1, <2>1, <2>4, OneIsolate DEF IInv
  <2>5. ASSUME NEW i \in Job, App(i) PROVE FALSE
    <3>1. job[i] = NoJob
        BY <2>5, AppFree
    <3>. QED BY <1>1, <2>1, <2>5, <3>1, OneIsolate DEF IInv, NoJob
  <2>6. ASSUME Attach \/ Detach \/ OtherAttach \/ OtherAttached \/ Adjust \/ UNCHANGED vars PROVE FALSE
      BY <2>1, <2>6 DEF Attach, Detach, OtherAttach, OtherAttached, Adjust, vars
  <2>. QED BY <1>1, <2>2, <2>3, <2>4, <2>5, <2>6 DEF Next
<1>2. IInv /\ [Next]_vars => [\A j \in Job : job[j].op = "size" /\ job[j].pc = "current" /\ job'[j].pc = "done" =>
                                   job'[j].out = INVALID \/ job'[j].out.size = size' \/ faults' # faults]_vars
    BY <1>1
<1>. QED BY <1>2, Invariance, PTL DEF Spec, SizeFresh

=============================================================================
