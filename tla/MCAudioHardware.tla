-------------------------- MODULE MCAudioHardware --------------------------
(***************************************************************************)
(* Instances of AudioHardware for TLC.  One playback, one record, one mode *)
(* and one open/close thread; no counter needs a bound.                    *)
(***************************************************************************)
EXTENDS AudioHardware

\* The streams' own driver opens may fail; a call's may not.
StreamFaults == Streams
NoFaults == {}

\* The PCM and mixer a call opens may be refused.
CallFaults == {"call"}

=============================================================================
