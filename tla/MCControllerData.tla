--------------------------- MODULE MCControllerData ---------------------------
(* An instance of ControllerData for TLC: pan and tilt (which   *)
(* share D11) of the camera terminal, brightness of the processing unit, and   *)
(* focus, which the camera does not have; two history variables.               *)
EXTENDS ControllerData, TLC

CONSTANTS small, large

FOCUS == {5}   PAN == {11, 24}   TILT == {11, 25}   BRIGHTNESS == {0, 31}
MCSupportedCtrls == <<FOCUS, PAN, TILT>>
MCSupportedProcs == <<BRIGHTNESS>>
MCCamera == {PAN, TILT, BRIGHTNESS}
MCRelated == {BRIGHTNESS}
MCSizeList == <<small, large>>

VARIABLES
    overlapped,     \* a call has been on its way during another one, or when the camera was attached
    doubt           \* controls whose last setCtrlValue did not answer what it was asked, or
                    \* that were cached when the camera was attached anew

MCInit == Init /\ overlapped = FALSE /\ doubt = {}

Attached == holder # "present" /\ holder' = "present"
Replies(j, type) == Reply(j) /\ job[j].op = "set" /\ job[j].type = type

MCNext ==
    /\ Next
    /\ overlapped' = \/ overlapped
                     \/ \E i, j \in Job : i # j /\ job'[i] # NoJob /\ job'[j] # NoJob
                     \/ Attached /\ \E j \in Job : job[j] # NoJob
    /\ doubt' = {t \in Type :
                    \/ Attached /\ t \in DOMAIN cache
                    \/ IF \E j \in Job : Replies(j, t)
                       THEN \E j \in Job : Replies(j, t) /\ (job[j].missed \/ job[j].out # job[j].copy)
                       ELSE t \in doubt}

MCSpec == MCInit /\ [][MCNext]_<<vars, overlapped, doubt>> /\ Fairness

\* The cache is written before the camera is asked and never after.  As long as calls
\* overlap neither each other nor an attachment, it is wrong about a control that the camera
\* does not adjust by itself only when the reply to the last setCtrlValue was INVALID, or
\* another value, or not read from the camera, or the camera has been attached anew since.
CacheAgrees ==
    ~overlapped /\ (\A j \in Job : job[j] = NoJob) =>
        \A t \in DOMAIN cache \ (doubt \cup Related) : cache[t] = value[t]
=============================================================================
