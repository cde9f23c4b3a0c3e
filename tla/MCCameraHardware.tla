-------------------------- MODULE MCCameraHardware --------------------------
(***************************************************************************)
(* Three preview buffers, so that the driver can own one while one is      *)
(* shown and one is filled; one frame is skipped after a start.  Every     *)
(* request of the device may fail except the one to stop streaming, after  *)
(* whose failure previewStarted outlives even closeCamera and two threads  *)
(* may stop the preview at once (see the README).                          *)
(***************************************************************************)
EXTENDS CameraHardware

StreamAlwaysStops == AllFaults \ {"streamOff"}
=============================================================================
