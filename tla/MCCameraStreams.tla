--------------------------- MODULE MCCameraStreams ---------------------------
(* Instances of CameraStreams for TLC. *)
EXTENDS CameraStreams
=============================================================================
