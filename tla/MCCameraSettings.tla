------------------------ MODULE MCCameraSettings ------------------------
(* Instances of CameraSettings for TLC. *)
EXTENDS CameraSettings
=============================================================================
