-------------------------- MODULE MCCameraSettings --------------------------
(* An instance of CameraSettings for TLC: the scene stays "auto" or changes, *)
(* and the sensor refuses nothing.                                           *)
EXTENDS CameraSettings

MCChanges ==
    {{<<"exposure", 2>>}, {<<"whitebalance", "daylight">>},
     {<<"scene", "night">>, <<"fps", "4000,30000">>}, {<<"scene", "auto">>}}
MCRefusals == {{}}
=============================================================================
