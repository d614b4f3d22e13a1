--------------------------- MODULE MCDetectorStartup ---------------------------
(* DetectorStartup for TLC, with a history variable for the property that is    *)
(* about one stay in the foreground.  There is one camera and one activity at a *)
(* time, so there is no symmetry to use.                                        *)
EXTENDS DetectorStartup, TLC

VARIABLE returned   \* the stay began with Dart listening and a detector there

MCInit == Init /\ returned = FALSE

Returns ==
    /\ activity = "created" /\ activity' = "started"
    /\ compatible /\ step = "listening" /\ port = engine /\ fragments > 0
    /\ ~tracked /\ ~held

MCNext == Next /\ returned' = (activity' = "started" /\ (returned \/ Returns))

MCSpec == MCInit /\ [][MCNext]_<<vars, returned>> /\ Fairness

\* onStart of DeviceDetectorFragment reports anew every camera that onStop has removed: an
\* app that comes back to a foreground it then keeps, with a detector and its port set,
\* knows the camera for good, whatever messages were lost before.  (One that a retry has
\* tracked after onStop is skipped by onStart, and may stay unknown.)
ReturnReports == <>[]returned => <>[]known
=============================================================================
