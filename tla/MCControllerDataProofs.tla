------------------------ MODULE MCControllerDataProofs ------------------------
(* Proof that the cached controls agree with the camera, with the history     *)
(* variables of MCControllerData and for any value of the constants.          *)
EXTENDS MCControllerData, ControllerDataProofs

\* While calls overlap neither each other nor an attachment, at most one is on its way.  For
\* the controls that the camera does not adjust: a cached value that is neither in doubt nor
\* being set is the camera's; one that is being set is the value asked for, and when the
\* camera has answered just that, it is the camera's; controls are only looked for while
\* nothing is cached.
Sequential ==
    /\ \A i, j \in Job : job[i] # NoJob /\ job[j] # NoJob => i = j
    /\ \A t \in DOMAIN cache \ (doubt \cup Related) :
           cache[t] = value[t] \/ \E j \in Job : job[j].op = "set" /\ job[j].type = t
    /\ \A j \in Job : job[j].op = "set" =>
           /\ job[j].type \in DOMAIN cache /\ cache[job[j].type] = job[j].copy
           /\ job[j].pc = "done" /\ ~job[j].missed /\ job[j].out = job[j].copy /\ job[j].type \notin Related
                  => value[job[j].type] = job[j].copy
    /\ \A j \in Job : job[j].op = "controls" =>
           /\ DOMAIN cache = {}
           /\ \A k \in DOMAIN job[j].found \ Related : job[j].found[k] = value[k]
    /\ \A j \in Job : job[j].pc = "set" => job[j].op = "set"

HInv == doubt \subseteq Type /\ (~overlapped => Sequential)

-----------------------------------------------------------------------------
(* The history variables.                                                  *)

\* While calls have not overlapped they had not before, and at most one is on its way.
LEMMA Alone ==
    ASSUME MCNext, ~overlapped'
    PROVE  ~overlapped /\ \A i, j \in Job : job'[i] # NoJob /\ job'[j] # NoJob => i = j
BY DEF MCNext

\* Isolates and calls of the app leave the holder.
LEMMA HolderKept ==
    ASSUME NEW i \in Job, JobStep(i) \/ App(i) PROVE UNCHANGED holder
<1>1. ASSUME GetCtrlSupports(i) \/ GetProcSupports(i) \/ GetCtrlInfo(i) PROVE UNCHANGED holder
  <2>1. ASSUME NEW infos, NEW todo, Supports(i, infos, todo) PROVE UNCHANGED holder
      BY <2>1 DEF Supports
  <2>2. ASSUME NEW list, GetInfo(i, list) PROVE UNCHANGED holder
      BY <2>2 DEF GetInfo
  <2>. QED BY <1>1, <2>1, <2>2 DEF GetCtrlSupports, GetProcSupports, GetCtrlInfo
<1>2. ASSUME SetValue(i) \/ GetValue(i) \/ Resize(i) \/ GetCurrent(i) \/ GetCount(i) \/ GetSize(i) \/ Reply(i)
      PROVE  UNCHANGED holder
    BY <1>2 DEF SetValue, GetValue, Resize, GetCurrent, GetCount, GetSize, Reply
<1>3. ASSUME App(i) PROVE UNCHANGED holder
    BY <1>3 DEF App, GetSupportedControls, GetCurrentSize, GetSupportedSize, GetCtrlValue, SetCtrlValue, SetSize
<1>. QED BY <1>1, <1>2, <1>3 DEF JobStep

\* Only the reply of a setCtrlValue and an attachment change what is in doubt.
LEMMA DoubtKept ==
    ASSUME IInv, HInv, MCNext, ~Attached,
           \A j \in Job : job[j].op = "set" /\ job[j].pc = "done" => job'[j] # NoJob
    PROVE  UNCHANGED doubt
<1>1. \A j \in Job, t \in Type : ~Replies(j, t)
    BY DEF Replies, Reply, IInv, TypeOK
<1>2. doubt' = {t \in Type : t \in doubt}
    BY <1>1 DEF MCNext
<1>. QED BY <1>2 DEF HInv

\* The reply of a setCtrlValue leaves its control in doubt, unless the camera answered the
\* value asked for.
LEMMA DoubtSet ==
    ASSUME IInv, HInv, MCNext, NEW i \in Job, Reply(i), job[i].op = "set",
           NEW t \in Type \ doubt'
    PROVE  IF t = job[i].type THEN ~job[i].missed /\ job[i].out = job[i].copy ELSE t \notin doubt
<1>1. \A j \in Job : Reply(j) => j = i
  <2>1. job[i].pc = "done" /\ job' = [job EXCEPT ![i] = NoJob]
      BY DEF Reply
  <2>2. ASSUME NEW j \in Job, Reply(j), j # i PROVE FALSE
    <3>1. job[j].pc = "done" /\ job' = [job EXCEPT ![j] = NoJob]
        BY <2>2 DEF Reply
    <3>2. job'[i] = job[i] /\ job'[i] = NoJob
        BY <2>1, <2>2, <3>1 DEF IInv, TypeOK
    <3>. QED BY <2>1, <3>2 DEF NoJob
  <2>. QED BY <2>2
<1>2. ~IF \E j \in Job : Replies(j, t)
       THEN \E j \in Job : Replies(j, t) /\ (job[j].missed \/ job[j].out # job[j].copy)
       ELSE t \in doubt
    BY DEF MCNext
<1>3. CASE t = job[i].type
    BY <1>2, <1>3 DEF Replies
<1>4. CASE t # job[i].type
    BY <1>1, <1>2, <1>4 DEF Replies
<1>. QED BY <1>3, <1>4

\* A step that neither sets nor caches, of one isolate.
LEMMA Frame ==
    ASSUME IInv, Sequential, NEW i \in Job, UNCHANGED <<value, cache, doubt>>,
           \A j, k \in Job : job'[j] # NoJob /\ job'[k] # NoJob => j = k,
           \A j \in Job : j # i => job'[j] = job[j],
           job[i].op = "set" => job'[i].op = "set" /\ job'[i].type = job[i].type,
           job'[i].op = "set" =>
               /\ job'[i].type \in DOMAIN cache /\ cache[job'[i].type] = job'[i].copy
               /\ job'[i].pc = "done" /\ ~job'[i].missed /\ job'[i].out = job'[i].copy /\ job'[i].type \notin Related
                      => value[job'[i].type] = job'[i].copy,
           job'[i].op = "controls" =>
               /\ DOMAIN cache = {}
               /\ \A k \in DOMAIN job'[i].found \ Related : job'[i].found[k] = value[k],
           job'[i].pc = "set" => job'[i].op = "set"
    PROVE  Sequential'
<1>1. \A t \in DOMAIN cache \ (doubt \cup Related) :
          cache[t] = value[t] \/ \E j \in Job : job'[j].op = "set" /\ job'[j].type = t
  <2>1. TAKE t \in DOMAIN cache \ (doubt \cup Related)
  <2>2. CASE \E j \in Job : job[j].op = "set" /\ job[j].type = t
      BY <2>2
  <2>. QED BY <2>2 DEF Sequential
<1>2. \A j \in Job : job'[j].op = "set" =>
          /\ job'[j].type \in DOMAIN cache /\ cache[job'[j].type] = job'[j].copy
          /\ job'[j].pc = "done" /\ ~job'[j].missed /\ job'[j].out = job'[j].copy /\ job'[j].type \notin Related
                 => value[job'[j].type] = job'[j].copy
    BY DEF Sequential
<1>3. \A j \in Job : job'[j].op = "controls" =>
          /\ DOMAIN cache = {}
          /\ \A k \in DOMAIN job'[j].found \ Related : job'[j].found[k] = value[k]
    BY DEF Sequential
<1>4. \A j \in Job : job'[j].pc = "set" => job'[j].op = "set"
    BY DEF Sequential
<1>. QED BY <1>1, <1>2, <1>3, <1>4 DEF Sequential

-----------------------------------------------------------------------------
(* The steps.                                                              *)

\* Looking for controls: what is found is what the camera has now, and stays so.
LEMMA LookStep ==
    ASSUME IInv, HInv, MCNext, ~overlapped', NEW i \in Job,
           GetCtrlSupports(i) \/ GetProcSupports(i) \/ GetCtrlInfo(i)
    PROVE  Sequential'
<1>1. /\ ~overlapped /\ Sequential
      /\ \A j, k \in Job : job'[j] # NoJob /\ job'[k] # NoJob => j = k
    BY Alone DEF HInv
<1>2. job[i].pc \in {"ctrls", "ctrlInfos", "procs", "procInfos"}
    BY DEF GetCtrlSupports, GetProcSupports, GetCtrlInfo
<1>3. job[i] \in ControlsJob /\ job[i].op = "controls"
    BY <1>2, Kinds DEF IInv, ControlsJob
<1>4. Exact(job[i])
    BY <1>3 DEF IInv, JobInv
<1>5. /\ UNCHANGED <<value, cache>>
      /\ job'[i].op = "controls" /\ job'[i].pc # "set"
      /\ \A k \in DOMAIN job'[i].found :
             \/ job'[i].found[k] = value[k]
             \/ k \in DOMAIN job[i].found /\ job'[i].found[k] = job[i].found[k]
  <2>1. CASE GetCtrlSupports(i)
      BY <1>3, <2>1, SupportsFacts, AskedCtrls, TypeAssumption DEF AfterInfos, GetCtrlSupports, IInv
  <2>2. CASE GetProcSupports(i)
      BY <1>3, <2>2, SupportsFacts, AskedProcs, TypeAssumption DEF AfterInfos, GetProcSupports, IInv
  <2>3. CASE GetCtrlInfo(i)
    <3>1. CASE job[i].pc = "ctrlInfos" /\ GetInfo(i, SupportedCtrls)
      <4>1. Types(SupportedCtrls, job[i].todo) \subseteq Types(SupportedCtrls, Ask(SupportedCtrls, CtrlMask))
          BY <1>4, <3>1 DEF Exact, Types
      <4>. QED BY <1>3, <3>1, <4>1, AskedCtrls, InfoFacts DEF IInv, AfterInfos
    <3>2. CASE job[i].pc = "procInfos" /\ GetInfo(i, SupportedProcs)
      <4>1. Types(SupportedProcs, job[i].todo) \subseteq Types(SupportedProcs, Ask(SupportedProcs, ProcMask))
          BY <1>4, <3>2 DEF Exact, Types
      <4>. QED BY <1>3, <3>2, <4>1, AskedProcs, InfoFacts DEF IInv, AfterInfos
    <3>. QED BY <2>3, <3>1, <3>2 DEF GetCtrlInfo
  <2>. QED BY <2>1, <2>2, <2>3
<1>6. \A j \in Job : j # i => job'[j] = job[j]
    BY OneIsolate DEF JobStep, IInv
<1>7. \A j \in Job : j # i => job[j] = NoJob
    BY <1>1, <1>3 DEF Sequential, NoJob
<1>8. UNCHANGED doubt
    BY <1>3, <1>7, HolderKept, DoubtKept DEF NoJob, Attached, JobStep
<1>9. DOMAIN cache = {} /\ \A k \in DOMAIN job'[i].found \ Related : job'[i].found[k] = value[k]
    BY <1>1, <1>3, <1>5 DEF Sequential
<1>. QED BY <1>1, <1>3, <1>5, <1>6, <1>8, <1>9, Frame

\* set_ctrl_value changes the control that is being set and no other.
LEMMA ValueSet ==
    ASSUME IInv, HInv, MCNext, ~overlapped', NEW i \in Job, SetValue(i)
    PROVE  Sequential'
<1>1. /\ ~overlapped /\ Sequential
      /\ \A j, k \in Job : job'[j] # NoJob /\ job'[k] # NoJob => j = k
    BY Alone DEF HInv
<1>2. /\ job[i].pc = "set" /\ UNCHANGED cache
      /\ \A t \in Camera : t # job[i].type => value'[t] = value[t]
      /\ \/ job' = [job EXCEPT ![i].pc = "get"]
         \/ job' = [job EXCEPT ![i].pc = "done", ![i].missed = TRUE]
    BY DEF SetValue, IInv, TypeOK
<1>3. job[i] \in ValueJob
    BY <1>2, Kinds DEF IInv
<1>4. /\ job'[i].op = job[i].op /\ job'[i].type = job[i].type /\ job'[i].copy = job[i].copy
      /\ job'[i].pc = "done" => job'[i].missed
    BY <1>2, <1>3 DEF ValueJob, IInv, TypeOK
<1>5. \A j \in Job : j # i => job'[j] = NoJob /\ job[j] = NoJob
  <2>1. job[i] # NoJob
      BY <1>2 DEF NoJob
  <2>2. \A j \in Job : j # i => job'[j] = job[j]
      BY OneIsolate DEF JobStep, IInv
  <2>. QED BY <1>1, <2>1, <2>2 DEF Sequential
<1>6. job[i].op = "set"
    BY <1>1, <1>2 DEF Sequential
<1>7. UNCHANGED doubt
    BY <1>2, <1>5, HolderKept, DoubtKept DEF NoJob, Attached, JobStep
<1>8. DOMAIN cache \subseteq Camera
    BY MapDef DEF IInv, TypeOK
<1>9. \A t \in DOMAIN cache' \ (doubt' \cup Related) :
          cache'[t] = value'[t] \/ \E j \in Job : job'[j].op = "set" /\ job'[j].type = t
  <2>1. TAKE t \in DOMAIN cache' \ (doubt' \cup Related)
  <2>2. CASE t = job[i].type
      BY <1>4, <1>6, <2>2
  <2>3. CASE t # job[i].type
    <3>1. \A j \in Job : job[j].op = "set" => j = i
        BY <1>5 DEF NoJob
    <3>2. cache[t] = value[t] /\ value'[t] = value[t]
        BY <1>1, <1>2, <1>7, <1>8, <2>3, <3>1 DEF Sequential
    <3>. QED BY <1>2, <3>2
  <2>. QED BY <2>2, <2>3
<1>10. \A j \in Job : job'[j].op = "set" =>
           /\ job'[j].type \in DOMAIN cache' /\ cache'[job'[j].type] = job'[j].copy
           /\ job'[j].pc = "done" /\ ~job'[j].missed /\ job'[j].out = job'[j].copy /\ job'[j].type \notin Related
                  => value'[job'[j].type] = job'[j].copy
  <2>1. TAKE j \in Job
  <2>2. HAVE job'[j].op = "set"
  <2>3. j = i
      BY <1>5, <2>2 DEF NoJob
  <2>. QED BY <1>1, <1>2, <1>4, <1>6, <2>3 DEF Sequential
<1>11. \A j \in Job : job'[j].op # "controls" /\ (job'[j].pc = "set" => job'[j].op = "set")
    BY <1>4, <1>5, <1>6 DEF NoJob
<1>. QED BY <1>1, <1>9, <1>10, <1>11 DEF Sequential

\* get_ctrl_value reads the camera's value, or the call is marked.
LEMMA ValueRead ==
    ASSUME IInv, HInv, MCNext, ~overlapped', NEW i \in Job, GetValue(i)
    PROVE  Sequential'
<1>1. /\ ~overlapped /\ Sequential
      /\ \A j, k \in Job : job'[j] # NoJob /\ job'[k] # NoJob => j = k
    BY Alone DEF HInv
<1>2. PICK ok \in BOOLEAN :
          /\ job[i].pc = "get" /\ UNCHANGED <<value, cache>>
          /\ job' = [job EXCEPT ![i].pc = "done", ![i].missed = @ \/ ~ok,
                                ![i].out = IF ok THEN value[job[i].type] ELSE job[i].copy]
    BY DEF GetValue, camera
<1>3. job[i] \in ValueJob
    BY <1>2, Kinds DEF IInv
<1>4. job'[i] = [job[i] EXCEPT !.pc = "done", !.missed = @ \/ ~ok,
                               !.out = IF ok THEN value[job[i].type] ELSE job[i].copy]
    BY <1>2 DEF IInv, TypeOK
<1>5. /\ job'[i].op = job[i].op /\ job'[i].type = job[i].type /\ job'[i].copy = job[i].copy
      /\ job'[i].pc = "done" /\ job'[i].missed = (job[i].missed \/ ~ok)
      /\ job'[i].out = (IF ok THEN value[job[i].type] ELSE job[i].copy)
    BY <1>3, <1>4 DEF ValueJob
<1>6. job[i].op # "controls"
    BY <1>3 DEF ValueJob
<1>7. \A j \in Job : j # i => job'[j] = job[j]
    BY OneIsolate DEF JobStep, IInv
<1>8. \A j \in Job : j # i => job[j] = NoJob
    BY <1>1, <1>2 DEF Sequential, NoJob
<1>9. UNCHANGED doubt
    BY <1>2, <1>8, HolderKept, DoubtKept DEF NoJob, Attached, JobStep
<1>10. job'[i].op = "set" =>
           /\ job'[i].type \in DOMAIN cache /\ cache[job'[i].type] = job'[i].copy
           /\ job'[i].pc = "done" /\ ~job'[i].missed /\ job'[i].out = job'[i].copy /\ job'[i].type \notin Related
                  => value[job'[i].type] = job'[i].copy
  <2>1. HAVE job'[i].op = "set"
  <2>2. job[i].type \in DOMAIN cache /\ cache[job[i].type] = job[i].copy
      BY <1>1, <1>5, <2>1 DEF Sequential
  <2>3. ~job'[i].missed => job'[i].out = value[job[i].type]
      BY <1>5
  <2>. QED BY <1>5, <2>2, <2>3
<1>. QED BY <1>1, <1>2, <1>5, <1>6, <1>7, <1>9, <1>10, Frame

\* The calls for sizes have nothing to do with controls.
LEMMA SizesQuiet ==
    ASSUME IInv, HInv, MCNext, ~overlapped', NEW i \in Job,
           Resize(i) \/ GetCurrent(i) \/ GetCount(i) \/ GetSize(i)
    PROVE  Sequential'
<1>1. /\ ~overlapped /\ Sequential
      /\ \A j, k \in Job : job'[j] # NoJob /\ job'[k] # NoJob => j = k
    BY Alone DEF HInv
<1>2. /\ job[i].pc \in {"resize", "current", "count", "index"}
      /\ UNCHANGED <<value, cache>>
    BY DEF Resize, GetCurrent, GetCount, GetSize, camera
<1>3. job[i] \in SizeJob \cup SizesJob /\ job[i].op \in {"size", "sizes"}
    BY <1>2, Kinds DEF IInv, SizeJob, SizesJob
<1>4. job'[i].op = job[i].op /\ job'[i].pc # "set"
  <2>1. CASE Resize(i)
      BY <1>3, <2>1 DEF Resize, IInv, TypeOK, SizeJob, SizesJob
  <2>2. CASE GetCurrent(i)
      BY <1>3, <2>2 DEF GetCurrent, IInv, TypeOK, SizeJob, SizesJob
  <2>3. CASE GetCount(i)
      BY <1>3, <2>3 DEF GetCount, IInv, TypeOK, SizeJob, SizesJob
  <2>4. CASE GetSize(i)
      BY <1>3, <2>4 DEF GetSize, SizeLoop, IInv, TypeOK, SizeJob, SizesJob
  <2>. QED BY <2>1, <2>2, <2>3, <2>4
<1>5. \A j \in Job : j # i => job'[j] = job[j]
    BY OneIsolate DEF JobStep, IInv
<1>6. \A j \in Job : j # i => job[j] = NoJob
    BY <1>1, <1>2 DEF Sequential, NoJob
<1>7. UNCHANGED doubt
    BY <1>3, <1>6, HolderKept, DoubtKept DEF NoJob, Attached, JobStep
<1>. QED BY <1>1, <1>2, <1>3, <1>4, <1>5, <1>7, Frame

\* The reply fills the cache with what the camera has, or clears the doubt about a control
\* the camera has answered for, or changes nothing.
LEMMA Replied ==
    ASSUME IInv, HInv, MCNext, ~overlapped', NEW i \in Job, Reply(i)
    PROVE  Sequential'
<1>1. ~overlapped /\ Sequential
    BY Alone DEF HInv
<1>2. /\ job[i].pc = "done" /\ job' = [job EXCEPT ![i] = NoJob]
      /\ cache' = IF job[i].op = "controls" THEN Put(cache, job[i].found) ELSE cache
      /\ UNCHANGED value
    BY DEF Reply, camera
<1>3. \A j \in Job : j # i => job[j] = NoJob
    BY <1>1, <1>2 DEF Sequential, NoJob
<1>4. \A j \in Job : job'[j] = NoJob /\ job'[j].op = "none" /\ job'[j].pc = "idle"
    BY <1>2, <1>3 DEF NoJob, IInv, TypeOK
<1>5. \A t \in DOMAIN cache' \ (doubt' \cup Related) : cache'[t] = value'[t]
  <2>1. CASE job[i].op = "controls"
    <3>1. /\ DOMAIN cache = {} /\ cache \in Map /\ job[i].found \in Map
          /\ \A k \in DOMAIN job[i].found \ Related : job[i].found[k] = value[k]
        BY <1>1, <2>1, Kinds DEF Sequential, IInv, TypeOK, ControlsJob
    <3>2. cache' = Put(cache, job[i].found)
        BY <1>2, <2>1
    <3>3. cache \in Map /\ job[i].found \in Map
        BY <3>1
    <3>4. DOMAIN cache' = DOMAIN cache \cup DOMAIN job[i].found
        BY <3>2, <3>3, PutType, Zenon
    <3>5. \A k \in DOMAIN cache \cup DOMAIN job[i].found :
              cache'[k] = IF k \in DOMAIN job[i].found THEN job[i].found[k] ELSE cache[k]
        BY <3>2, <3>3, PutType, Zenon
    <3>. QED BY <1>2, <3>1, <3>4, <3>5
  <2>2. CASE job[i].op = "set"
    <3>1. TAKE t \in DOMAIN cache' \ (doubt' \cup Related)
    <3>2. t \in DOMAIN cache /\ t \in Type /\ cache' = cache
        BY <1>2, <2>2, MapDef, TypeAssumption DEF IInv, TypeOK
    <3>3. IF t = job[i].type THEN ~job[i].missed /\ job[i].out = job[i].copy ELSE t \notin doubt
        BY <2>2, <3>1, <3>2, DoubtSet
    <3>4. CASE t = job[i].type
        BY <1>1, <1>2, <2>2, <3>2, <3>3, <3>4 DEF Sequential
    <3>5. CASE t # job[i].type
      <4>1. \A j \in Job : job[j].op = "set" => j = i
          BY <1>3 DEF NoJob
      <4>. QED BY <1>1, <1>2, <3>2, <3>3, <3>5, <4>1 DEF Sequential
    <3>. QED BY <3>4, <3>5
  <2>3. CASE job[i].op \notin {"controls", "set"}
    <3>1. \A j \in Job : job[j].op # "set"
        BY <1>3, <2>3 DEF NoJob
    <3>2. UNCHANGED <<doubt, cache>>
        BY <1>2, <2>3, <3>1, HolderKept, DoubtKept DEF Attached, JobStep
    <3>. QED BY <1>1, <1>2, <3>1, <3>2 DEF Sequential
  <2>. QED BY <2>1, <2>2, <2>3
<1>. QED BY <1>4, <1>5 DEF Sequential

\* A call of the app: setCtrlValue caches the value it asks for.
LEMMA Called ==
    ASSUME IInv, HInv, MCNext, ~overlapped', NEW i \in Job, App(i)
    PROVE  Sequential'
<1>1. /\ ~overlapped /\ Sequential
      /\ \A j, k \in Job : job'[j] # NoJob /\ job'[k] # NoJob => j = k
    BY Alone DEF HInv
<1>2. job[i] = NoJob /\ \A j \in Job : j # i => job'[j] = job[j]
    BY AppFree, OneIsolate DEF IInv
<1>3. PICK new : Compute(i, new) /\ new.op # "none" /\ job'[i] = new
    BY DEF App, GetSupportedControls, GetCurrentSize, GetSupportedSize, GetCtrlValue, SetCtrlValue, SetSize,
       Compute, IInv, TypeOK
<1>4. \A j \in Job : job[j] = NoJob
    BY <1>1, <1>2, <1>3 DEF NoJob
<1>5. \A j \in Job : job[j].op = "none" /\ (j # i => job'[j].op = "none" /\ job'[j].pc = "idle")
    BY <1>2, <1>4 DEF NoJob
<1>6. UNCHANGED doubt
    BY <1>5, HolderKept, DoubtKept DEF Attached
<1>7. \A t \in DOMAIN cache \ (doubt \cup Related) : cache[t] = value[t]
    BY <1>1, <1>5 DEF Sequential
<1>8. CASE GetSupportedControls(i)
  <2>1. /\ job'[i] = [op |-> "controls", pc |-> "ctrls", todo |-> {}, found |-> << >>, missed |-> FALSE]
        /\ DOMAIN cache = {} /\ UNCHANGED <<value, cache>>
      BY <1>8 DEF GetSupportedControls, Compute, camera, IInv, TypeOK
  <2>2. job'[i].op = "controls" /\ job'[i].pc = "ctrls" /\ DOMAIN job'[i].found = {}
      BY <2>1, EmptyMap
  <2>. QED BY <1>1, <1>2, <1>5, <1>6, <2>1, <2>2, Frame
<1>9. CASE GetCurrentSize(i) \/ GetSupportedSize(i) \/ \E s \in Size : SetSize(i, s)
  <2>1. UNCHANGED <<value, cache>> /\ job'[i].op \in {"size", "sizes"} /\ job'[i].pc # "set"
      BY <1>9 DEF GetCurrentSize, GetSupportedSize, SetSize, Compute, camera, IInv, TypeOK
  <2>. QED BY <1>1, <1>2, <1>5, <1>6, <2>1, Frame
<1>10. CASE \E type \in Type : GetCtrlValue(i, type)
  <2>1. UNCHANGED <<value, cache>> /\ job'[i].op = "get" /\ job'[i].pc # "set"
      BY <1>10 DEF GetCtrlValue, Compute, camera, IInv, TypeOK
  <2>. QED BY <1>1, <1>2, <1>5, <1>6, <2>1, Frame
<1>11. ASSUME NEW type \in Type, NEW v \in Value, SetCtrlValue(i, type, v)
       PROVE  Sequential'
  <2>1. /\ type \in DOMAIN cache /\ cache' = [cache EXCEPT ![type] = v] /\ UNCHANGED value
        /\ job'[i] = [op |-> "set", pc |-> "set", type |-> type, copy |-> v, out |-> INVALID, missed |-> FALSE]
      BY <1>11 DEF SetCtrlValue, Compute, camera, IInv, TypeOK
  <2>2. /\ job'[i].op = "set" /\ job'[i].pc = "set" /\ job'[i].type = type /\ job'[i].copy = v
      BY <2>1
  <2>3. cache = [k \in DOMAIN cache |-> cache[k]]
      BY MapDef DEF IInv, TypeOK
  <2>4. DOMAIN cache' = DOMAIN cache /\ cache'[type] = v /\ \A t \in DOMAIN cache : t # type => cache'[t] = cache[t]
      BY <2>1, <2>3
  <2>5. \A t \in DOMAIN cache' \ (doubt' \cup Related) :
            cache'[t] = value'[t] \/ \E j \in Job : job'[j].op = "set" /\ job'[j].type = t
      BY <1>6, <1>7, <2>1, <2>2, <2>4
  <2>6. \A j \in Job : job'[j].op = "set" =>
            /\ job'[j].type \in DOMAIN cache' /\ cache'[job'[j].type] = job'[j].copy
            /\ job'[j].pc = "done" /\ ~job'[j].missed /\ job'[j].out = job'[j].copy /\ job'[j].type \notin Related
                   => value'[job'[j].type] = job'[j].copy
      BY <1>5, <2>1, <2>2, <2>4
  <2>7. \A j \in Job : job'[j].op # "controls" /\ (job'[j].pc = "set" => job'[j].op = "set")
      BY <1>5, <2>2
  <2>. QED BY <1>1, <2>5, <2>6, <2>7 DEF Sequential
<1>. QED BY <1>8, <1>9, <1>10, <1>11 DEF App

\* A new holder finds no call on its way, and what is cached is in doubt from here on.
LEMMA AttachQuiet ==
    ASSUME IInv, HInv, MCNext, ~overlapped', Attach
    PROVE  Sequential'
<1>1. Attached /\ UNCHANGED <<cache, job>>
    BY DEF Attach, Attached
<1>2. \A j \in Job : job'[j] = NoJob /\ job'[j].op = "none" /\ job'[j].pc = "idle"
    BY <1>1 DEF MCNext, NoJob
<1>3. DOMAIN cache \subseteq Type
    BY MapDef, TypeAssumption DEF IInv, TypeOK
<1>4. DOMAIN cache' \subseteq doubt'
    BY <1>1, <1>3 DEF MCNext
<1>. QED BY <1>2, <1>4 DEF Sequential

\* Otherwise the camera and its holder have no part in it, but for controls the camera adjusts.
LEMMA CameraQuiet ==
    ASSUME IInv, HInv, MCNext, ~overlapped', Detach \/ OtherAttach \/ OtherAttached \/ Adjust
    PROVE  Sequential'
<1>1. ~overlapped /\ Sequential
    BY Alone DEF HInv
<1>2. UNCHANGED <<cache, job>> /\ ~Attached /\ \A t \in Camera \ Related : value'[t] = value[t]
    BY DEF Detach, OtherAttach, OtherAttached, Adjust, camera, Attached
<1>3. \A j \in Job : job[j].pc = "done" => job'[j] # NoJob
    BY <1>2 DEF NoJob
<1>4. UNCHANGED doubt
    BY <1>2, <1>3, DoubtKept
<1>5. DOMAIN cache \subseteq Camera
    BY MapDef DEF IInv, TypeOK
<1>6. \A j \in Job : /\ job[j].op = "set" => job[j].type \in Camera
                     /\ job[j].op = "controls" => DOMAIN job[j].found \subseteq Camera
    BY Kinds, MapDef DEF IInv, ValueJob, ControlsJob
<1>. QED BY <1>1, <1>2, <1>4, <1>5, <1>6 DEF Sequential

-----------------------------------------------------------------------------
(* The theorem.                                                            *)

historyVars == <<vars, overlapped, doubt>>

\* The invariant with the history variables.
THEOREM HistoryInvariance == MCSpec => [](IInv /\ HInv)
<1>1. ASSUME MCInit PROVE IInv /\ HInv
  <2>1. IInv /\ doubt = {}
      BY <1>1, Initial DEF MCInit
  <2>2. \A j \in Job : job[j] = NoJob /\ job[j].op = "none" /\ job[j].pc = "idle"
      BY <1>1 DEF MCInit, Init, NoJob
  <2>3. DOMAIN cache = {}
      BY <1>1, EmptyMap DEF MCInit, Init
  <2>. QED BY <2>1, <2>2, <2>3 DEF HInv, Sequential
<1>2. ASSUME IInv /\ HInv, [MCNext]_historyVars PROVE (IInv /\ HInv)'
  <2>1. CASE MCNext
    <3>1. IInv'
        BY <1>2, <2>1, Inductive DEF MCNext
    <3>2. doubt' \subseteq Type
        BY <2>1 DEF MCNext
    <3>3. ASSUME ~overlapped' PROVE Sequential'
      <4>1. ASSUME NEW i \in Job, JobStep(i) PROVE Sequential'
          BY <1>2, <2>1, <3>3, <4>1, LookStep, ValueSet, ValueRead, SizesQuiet, Replied DEF JobStep
      <4>2. ASSUME NEW i \in Job, App(i) PROVE Sequential'
          BY <1>2, <2>1, <3>3, <4>2, Called
      <4>3. ASSUME Attach \/ Detach \/ OtherAttach \/ OtherAttached \/ Adjust PROVE Sequential'
          BY <1>2, <2>1, <3>3, <4>3, AttachQuiet, CameraQuiet
      <4>. QED BY <2>1, <4>1, <4>2, <4>3 DEF MCNext, Next
    <3>. QED BY <3>1, <3>2, <3>3 DEF HInv
  <2>2. CASE UNCHANGED historyVars
    <3>1. UNCHANGED <<vars, overlapped, doubt>>
        BY <2>2 DEF historyVars
    <3>2. IInv'
        BY <1>2, <3>1, Stuttering
    <3>3. UNCHANGED <<value, cache, job, overlapped, doubt>>
        BY <3>1 DEF vars, camera
    <3>4. HInv'
        BY <1>2, <3>3 DEF HInv, Sequential
    <3>. QED BY <3>2, <3>4
  <2>. QED BY <1>2, <2>1, <2>2
<1>. QED BY <1>1, <1>2, PTL DEF MCSpec, historyVars

\* As long as calls overlap neither each other nor an attachment, a cached value of a control
\* the camera does not adjust is the camera's, unless the last setCtrlValue of it said that it
\* may not be, or the camera has been attached anew since.
THEOREM CacheIsRight == MCSpec => []CacheAgrees
<1>1. ASSUME IInv /\ HInv PROVE CacheAgrees
  <2>1. SUFFICES ASSUME ~overlapped, \A j \in Job : job[j] = NoJob, NEW t \in DOMAIN cache \ (doubt \cup Related)
                 PROVE  cache[t] = value[t]
      BY DEF CacheAgrees
  <2>2. \A j \in Job : job[j].op # "set"
      BY <2>1 DEF NoJob
  <2>. QED BY <1>1, <2>1, <2>2 DEF HInv, Sequential
<1>. QED BY <1>1, HistoryInvariance, PTL

=============================================================================
