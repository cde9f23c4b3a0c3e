---------------------------- MODULE MCAudioRoute ----------------------------
(***************************************************************************)
(* An instance of AudioRoute for TLC.  No counter needs a bound: each is   *)
(* at most the number of users of its device.                              *)
(***************************************************************************)
EXTENDS AudioRoute

\* Fresh memory, the leavings of an earlier object, and no route at all.
MCHeapRoutes == {"0", "MIC_MAIN", "junk"}
MCOutDevices == {"EARPIECE", "SPEAKER", "HEADSET"}
MCInDevices == {"BUILTIN_MIC", "HEADSET_MIC", "VOICE_CALL"}

=============================================================================
