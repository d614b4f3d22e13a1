--------------------------- MODULE MCFlutterPlugin ---------------------------
(* Instances of FlutterPlugin for TLC. *)
EXTENDS FlutterPlugin, TLC

\* Devices are interchangeable; holders are not (AddHolder chooses the first free one),
\* and neither are plugin objects in the liveness properties.
Symmetry == Permutations(Device)
=============================================================================
