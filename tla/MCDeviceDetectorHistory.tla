----------------------- MODULE MCDeviceDetectorHistory -----------------------
(* DeviceDetectorFragment for TLC, with a history variable that tells the     *)
(* behaviours in which handlers never overlap from the others.                *)
EXTENDS DeviceDetectorFragment, TLC

VARIABLE overlapped     \* handlers of two threads have run at the same time

MCInit == Init /\ overlapped = FALSE

MCNext ==
    /\ Next
    /\ overlapped' = (overlapped \/ \E t, u \in Thread : t # u /\ ~Idle(t)' /\ ~Idle(u)')

MCSpec == MCInit /\ [][MCNext]_<<vars, overlapped>> /\ Fairness

\* nativeAdd and nativeRemove run outside the mConnectors lock.  As long as handlers have
\* not overlapped, retries, refreshes, re-scans and restarts of the fragment leave native
\* code reading each tracked device through the connector mConnectors holds for it.
SequentialAgreement == ~overlapped => Agreement
=============================================================================
