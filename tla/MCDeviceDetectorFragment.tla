---------------------- MODULE MCDeviceDetectorFragment ----------------------
(* Instances of DeviceDetectorFragment for TLC. *)
EXTENDS DeviceDetectorFragment, TLC

\* Devices are interchangeable; connectors are not (OpenDevice chooses the first unused).
Symmetry == Permutations(Device)
=============================================================================
