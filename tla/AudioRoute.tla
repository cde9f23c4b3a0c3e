----------------------------- MODULE AudioRoute -----------------------------
(***************************************************************************)
(* The routes, volumes and the FM radio of libaudio/AudioHardware.cpp: the *)
(* control tables, setAudioRoute, and everything that calls it: the        *)
(* streams when they leave standby, setMode, setMicMute, setIncallPath_l,  *)
(* enableFMRadio and disableFMRadio.                                       *)
(*                                                                         *)
(* The state here changes under AudioHardware's mutex, or, for the radio,  *)
(* under AudioFlinger's, which serialises it with setMode and setMicMute:  *)
(* an action is a whole call, or the part of write or read that leaves     *)
(* standby.  How these calls interleave, and drivers that fail to open,    *)
(* are the subject of AudioHardware.                                       *)
(*                                                                         *)
(* The codec is the set of switches that are on, the input multiplexer and *)
(* the two volumes.  The gains, of which each has one value, are left out. *)
(***************************************************************************)
EXTENDS Naturals

CONSTANTS
    HeapRoutes,              \* what the memory of mRoute, which no constructor sets, holds
    OutDevices, InDevices,   \* the devices the policy manager routes to
    CancelDelayed            \* is the radio turned off also while its start is delayed?

Devices == {"EARPIECE", "SPEAKER", "HEADSET", "HEADPHONE", "SCO"}
Sources == {"BUILTIN_MIC", "BACK_MIC", "HEADSET_MIC", "VOICE_CALL", "FM_RX"}

ASSUME DevicesAssumption == OutDevices \subseteq Devices /\ InDevices \subseteq Sources
ASSUME CancelAssumption == CancelDelayed \in BOOLEAN

Types == {"INPUT", "OUTPUT", "VOICE_IN", "VOICE_OUT"}
Modes == {"NORMAL", "RINGTONE", "IN_CALL"}

\* Route 0, which has no table.
Off == "0"

-----------------------------------------------------------------------------
(* The tables: the switches of each route, where it points the input       *)
(* multiplexer to, and the playback volume it sets.                        *)

Dac == {"LOUT Mixer DACL", "ROUT Mixer DACR", "LIN Mixer LIN3", "RIN Mixer RIN4"}
Voice == {"LIN Mixer LVOICEINP", "RIN Mixer RVOICEINN"}

Switches(type, route) ==
    CASE type = "INPUT" ->
           (CASE route = "MIC_MAIN" -> {"Main Mic Switch"}
              [] route = "HEADSET"  -> {"Ear Mic Switch"}
              [] route = "PHONE"    -> {"Main Mic Switch", "GSM Receive Switch"}
              [] route = "FM"       -> {"FM Receive Switch", "LOUT Mixer Left LIN",
                                        "ROUT Mixer Right LIN"}
              [] OTHER -> {})
      [] type = "OUTPUT" ->
           (CASE route = "RCV"            -> {"LOUTP", "Earpiece Switch"}
              [] route = "SPK"            -> {"Speaker Switch"} \cup Dac
              [] route \in {"HP", "FM_HP"} -> {"Headphones Switch"} \cup Dac
              [] route = "SPK_HP"         -> {"Speaker Switch", "Headphones Switch"} \cup Dac
              [] OTHER -> {})
      [] type = "VOICE_IN" ->
           (CASE route = "MIC_MAIN" -> {"Main Mic Switch"}
              [] route = "MIC_SUB"  -> {"Sub Mic Switch", "LOUT3 Mixer LINS2", "ROUT3 Mixer RINS2"}
              [] route = "HEADSET"  -> {"Jack Mic Switch", "LOUT3 Mixer LINS3", "ROUT3 Mixer RINS3"}
              [] OTHER -> {})
      [] type = "VOICE_OUT" ->
           (CASE route = "RCV" -> {"LOUTP", "Earpiece Switch"}
              [] route = "SPK" -> {"Speaker Switch"} \cup Voice
              [] route = "HP"  -> {"Headphones Switch"} \cup Voice
              [] OTHER -> {})

Mux(type, route, old) ==
    CASE type \in {"INPUT", "VOICE_IN"} /\ route = "MIC_MAIN" -> "Main Mic"
      [] type = "INPUT" /\ route = "HEADSET" -> "Ear Mic"
      [] type = "INPUT" /\ route = "PHONE"   -> "Main Mic"
      [] type = "INPUT" /\ route = "FM"      -> "None"
      [] OTHER -> old

Playback(type, route, old) ==
    CASE type = "OUTPUT" /\ route \in {"SPK", "SPK_HP"} -> "64"
      [] type = "OUTPUT" /\ route \in {"HP", "FM_HP"}   -> "100"
      [] OTHER -> old

Attenuation(type, route, old) == IF type = "OUTPUT" /\ route = "RCV" THEN "3" ELSE old

\* Which route leads to a device.
OutputRoute(device) ==
    CASE device = "EARPIECE" -> "RCV"
      [] device = "SPEAKER"  -> "SPK"
      [] device \in {"HEADSET", "HEADPHONE"} -> "HP"
      [] OTHER -> "BT"

VoiceOutRoute(device) == OutputRoute(device)

VoiceInRoute(device) ==
    CASE device = "EARPIECE" -> "MIC_MAIN"
      [] device = "SPEAKER"  -> "MIC_SUB"
      [] device \in {"HEADSET", "HEADPHONE"} -> "HEADSET"
      [] OTHER -> "BT"

\* Mutant: also a muted microphone is routed.
InputRouteUnmuted(source, muted) ==
    CASE source = "BUILTIN_MIC" -> "MIC_MAIN"
      [] source = "BACK_MIC"    -> "MIC_SUB"
      [] source = "HEADSET_MIC" -> "HEADSET"
      [] source = "VOICE_CALL"  -> "PHONE"
      [] OTHER -> "FM"

InputRoute(source, muted) ==
    IF muted THEN Off
    ELSE CASE source = "BUILTIN_MIC" -> "MIC_MAIN"
           [] source = "BACK_MIC"    -> "MIC_SUB"
           [] source = "HEADSET_MIC" -> "HEADSET"
           [] source = "VOICE_CALL"  -> "PHONE"
           [] OTHER -> "FM"

\* enableFMRadio passes the number of the output device for that of a route:
\* a headset is 4, as OUTPUT_SPK_HP, and headphones are 8, as OUTPUT_FM_HP.
FmOutputRoute(device) ==
    CASE device = "EARPIECE"  -> "RCV"
      [] device = "SPEAKER"   -> "SPK"
      [] device = "HEADSET"   -> "SPK_HP"
      [] device = "HEADPHONE" -> "FM_HP"
      [] OTHER -> "16"

VARIABLES
    codec,                     \* on: switches; mux; playback, attenuation: volumes
    mRoute,
    mPcmOpenCnt, mMixerOpenCnt,
    mMode, mInCallAudioMode,
    mMicMute,
    out, in,                   \* the streams: standby, device
    fm,                        \* mFmFd >= 0, mFmResumeAfterCall, and what the client wants
    closedTwice,               \* history: a device was closed at count 0
    dead                       \* history: mixer_get_control got a null mixer

counts == <<mPcmOpenCnt, mMixerOpenCnt>>
vars == <<codec, mRoute, counts, mMode, mInCallAudioMode, mMicMute, out, in, fm,
          closedTwice, dead>>

\* mMixer # NULL, when no driver fails to open.
MixerOpen == mMixerOpenCnt > 0

Init ==
    /\ codec = [on |-> {}, mux |-> "None", playback |-> "master", attenuation |-> "3"]
    /\ mRoute \in [Types -> HeapRoutes]
    /\ mPcmOpenCnt = 0 /\ mMixerOpenCnt = 0
    /\ mMode = "NORMAL" /\ mInCallAudioMode = FALSE
    /\ mMicMute = FALSE
    /\ out \in [standby : {TRUE}, device : OutDevices]
    /\ in \in [standby : {TRUE}, device : InDevices]
    /\ fm = [open |-> FALSE, resume |-> FALSE, wanted |-> FALSE]
    /\ closedTwice = FALSE /\ dead = FALSE

-----------------------------------------------------------------------------
(* setAudioRoute as a function of the codec and the routes, so that calls  *)
(* can follow each other.                                                  *)

State == [codec |-> codec, route |-> mRoute]

\* Mutant: the switches of the old route stay on.
SetAudioRouteAdds(s, type, new) ==
    IF s.route[type] = new THEN s
    ELSE [codec |-> [s.codec EXCEPT !.on = @ \cup Switches(type, new)],
          route |-> [s.route EXCEPT ![type] = new]]

SetAudioRoute(s, type, new) ==
    LET kept == s.codec.on \ Switches(type, s.route[type])
    IN  IF s.route[type] = new THEN s
        ELSE [codec |-> [on          |-> kept \cup Switches(type, new),
                         mux         |-> Mux(type, new, s.codec.mux),
                         playback    |-> Playback(type, new, s.codec.playback),
                         attenuation |-> Attenuation(type, new, s.codec.attenuation)],
              route |-> [s.route EXCEPT ![type] = new]]

Switch(s, on, off) == [s EXCEPT !.codec.on = (@ \ off) \cup on]

Install(s) == codec' = s.codec /\ mRoute' = s.route

\* setOutputVolume, which the voice volume goes through.
OutputVolume(s, device) ==
    CASE device = "EARPIECE" -> [s EXCEPT !.codec.attenuation = "voice"]
      [] device \in {"SPEAKER", "HEADSET", "HEADPHONE"} -> [s EXCEPT !.codec.playback = "voice"]
      [] OTHER -> s

MasterVolume(s) == [s EXCEPT !.codec.playback = "master"]

Less(n) == IF n = 0 THEN 0 ELSE n - 1

-----------------------------------------------------------------------------
(* The streams: write and read leave standby; the other stream, if active, *)
(* is closed and opened again, the output first.                           *)

OpenOut(s) ==
    IF mMode = "IN_CALL" THEN s ELSE SetAudioRoute(s, "OUTPUT", OutputRoute(out.device))

OpenIn(s) ==
    IF mMode = "IN_CALL" THEN s ELSE SetAudioRoute(s, "INPUT", InputRoute(in.device, mMicMute))

OutLeavesStandby ==
    /\ ~dead /\ out.standby
    /\ out' = [out EXCEPT !.standby = FALSE]
    /\ Install(IF in.standby THEN OpenOut(State) ELSE OpenIn(OpenOut(State)))
    /\ mPcmOpenCnt' = mPcmOpenCnt + 1 /\ mMixerOpenCnt' = mMixerOpenCnt + 1
    /\ UNCHANGED <<mMode, mInCallAudioMode, mMicMute, in, fm, closedTwice, dead>>

InLeavesStandby ==
    /\ ~dead /\ in.standby
    /\ in' = [in EXCEPT !.standby = FALSE]
    /\ Install(IF out.standby THEN OpenIn(State) ELSE OpenIn(OpenOut(State)))
    /\ mMixerOpenCnt' = mMixerOpenCnt + 1
    /\ UNCHANGED <<mPcmOpenCnt, mMode, mInCallAudioMode, mMicMute, out, fm, closedTwice, dead>>

\* What close_l of the streams S that are not in standby gives back.
GiveBack(S) ==
    LET o == IF "out" \in S /\ ~out.standby THEN 1 ELSE 0
        i == IF "in" \in S /\ ~in.standby THEN 1 ELSE 0
    IN  [pcm |-> o, mixer |-> o + i]

CloseCounts(pcms, mixers) ==
    /\ mPcmOpenCnt' = (IF pcms > mPcmOpenCnt THEN 0 ELSE mPcmOpenCnt - pcms)
    /\ mMixerOpenCnt' = (IF mixers > mMixerOpenCnt THEN 0 ELSE mMixerOpenCnt - mixers)
    /\ closedTwice' = (closedTwice \/ pcms > mPcmOpenCnt \/ mixers > mMixerOpenCnt)

OutStandby ==
    /\ ~dead /\ ~out.standby
    /\ out' = [out EXCEPT !.standby = TRUE]
    /\ CloseCounts(1, 1)
    /\ UNCHANGED <<codec, mRoute, mMode, mInCallAudioMode, mMicMute, in, fm, dead>>

InStandby ==
    /\ ~dead /\ ~in.standby
    /\ in' = [in EXCEPT !.standby = TRUE]
    /\ CloseCounts(0, 1)
    /\ UNCHANGED <<codec, mRoute, mMode, mInCallAudioMode, mMicMute, out, fm, dead>>

\* setParameters of the output: a new device puts it into standby, or, in a
\* call, moves the call (setIncallPath_l).
InCallPath(s, device) ==
    IF MixerOpen
    THEN SetAudioRoute(SetAudioRoute(s, "VOICE_OUT", VoiceOutRoute(device)),
                       "VOICE_IN", VoiceInRoute(device))
    ELSE s

SetOutDevice ==
    \E d \in OutDevices :
        /\ ~dead
        /\ IF mMode = "IN_CALL"
           THEN /\ out' = [out EXCEPT !.device = d]
                /\ Install(InCallPath(State, d))
                /\ UNCHANGED <<counts, closedTwice>>
           ELSE /\ d # out.device
                /\ out' = [standby |-> TRUE, device |-> d]
                /\ CloseCounts(GiveBack({"out"}).pcm, GiveBack({"out"}).mixer)
                /\ UNCHANGED <<codec, mRoute>>
        /\ UNCHANGED <<mMode, mInCallAudioMode, mMicMute, in, fm, dead>>

SetInDevice ==
    \E d \in InDevices \ {in.device} :
        /\ ~dead
        /\ IF mMode = "IN_CALL"
           THEN in' = [in EXCEPT !.device = d] /\ UNCHANGED <<counts, closedTwice>>
           ELSE /\ in' = [standby |-> TRUE, device |-> d]
                /\ CloseCounts(0, GiveBack({"in"}).mixer)
        /\ UNCHANGED <<codec, mRoute, mMode, mInCallAudioMode, mMicMute, out, fm, dead>>

-----------------------------------------------------------------------------
(* The radio.  enableFMRadio is also the end of a setMode after a call that *)
(* delayed it; the open of /dev/radio0 may fail, and is then tried again by *)
(* the next call.                                                          *)

FmRoutes(s) == SetAudioRoute(SetAudioRoute(s, "INPUT", "FM"), "OUTPUT", FmOutputRoute(out.device))

FmOn ==
    /\ ~dead /\ ~fm.wanted
    /\ IF mMode = "IN_CALL"
       THEN /\ fm' = [fm EXCEPT !.wanted = TRUE, !.resume = TRUE]
            /\ UNCHANGED <<codec, mRoute, counts>>
       ELSE /\ mPcmOpenCnt' = mPcmOpenCnt + 1 /\ mMixerOpenCnt' = mMixerOpenCnt + 1
            /\ Install(FmRoutes(State))
            /\ \E ok \in BOOLEAN : fm' = [fm EXCEPT !.wanted = TRUE, !.open = @ \/ ok]
    /\ UNCHANGED <<mMode, mInCallAudioMode, mMicMute, out, in, closedTwice, dead>>

FmOff ==
    /\ ~dead /\ fm.wanted
    /\ fm.resume => CancelDelayed
    /\ IF MixerOpen THEN CloseCounts(1, 1) ELSE UNCHANGED <<counts, closedTwice>>
    /\ fm' = [fm EXCEPT !.wanted = FALSE, !.open = FALSE]
    /\ UNCHANGED <<codec, mRoute, mMode, mInCallAudioMode, mMicMute, out, in, dead>>

-----------------------------------------------------------------------------
(* setMode.  The base class refuses the mode it is in.                     *)

Gsm == {"GSM Send Switch", "GSM Receive Switch"}

InCallRoutes(s) ==
    Switch(OutputVolume(
        SetAudioRoute(SetAudioRoute(SetAudioRoute(s,
            "OUTPUT", "RCV"), "VOICE_IN", "MIC_MAIN"), "VOICE_OUT", "RCV"),
        out.device), Gsm, {})

\* Mutant: the voice microphone survives the call.
OffCallKeepsVoiceIn(s) ==
    Switch(MasterVolume(
        SetAudioRoute(SetAudioRoute(SetAudioRoute(s,
            "VOICE_OUT", Off), "OUTPUT", "RCV"), "INPUT", Off)), {}, Gsm)

\* Mutant: the input route survives the call.
OffCallKeepsInput(s) ==
    Switch(MasterVolume(
        SetAudioRoute(SetAudioRoute(SetAudioRoute(s,
            "VOICE_OUT", Off), "VOICE_IN", Off), "OUTPUT", "RCV")), {}, Gsm)

OffCallRoutes(s) ==
    Switch(MasterVolume(
        SetAudioRoute(SetAudioRoute(SetAudioRoute(SetAudioRoute(s,
            "VOICE_OUT", Off), "VOICE_IN", Off), "OUTPUT", "RCV"), "INPUT", Off)),
        {}, Gsm)

\* Mutant: the streams keep the devices they hold, although they are put into
\* standby.
EnterCallKeepsStreams ==
    /\ ~dead /\ mMode # "IN_CALL"
    /\ mMode' = "IN_CALL" /\ mInCallAudioMode' = TRUE
    /\ out' = [out EXCEPT !.standby = TRUE] /\ in' = [in EXCEPT !.standby = TRUE]
    /\ mPcmOpenCnt' = mPcmOpenCnt + 1 /\ mMixerOpenCnt' = mMixerOpenCnt + 1
    /\ Install(InCallRoutes(State))
    /\ UNCHANGED <<mMicMute, fm, closedTwice, dead>>

EnterCall ==
    LET b == GiveBack({"out", "in"})
    IN  /\ ~dead /\ mMode # "IN_CALL"
        /\ mMode' = "IN_CALL" /\ mInCallAudioMode' = TRUE
        /\ out' = [out EXCEPT !.standby = TRUE] /\ in' = [in EXCEPT !.standby = TRUE]
        /\ mPcmOpenCnt' = mPcmOpenCnt - b.pcm + 1
        /\ mMixerOpenCnt' = mMixerOpenCnt - b.mixer + 1
        /\ Install(InCallRoutes(State))
        /\ UNCHANGED <<mMicMute, fm, closedTwice, dead>>

\* After the call's own devices the streams', if active, are closed; then the
\* radio is turned on, if that was delayed.
LeaveCall(mode) ==
    LET b     == GiveBack({"out", "in"})
        pcm   == Less(mPcmOpenCnt)
        mixer == Less(mMixerOpenCnt)
        off   == IF MixerOpen THEN OffCallRoutes(State) ELSE State
        r     == IF fm.resume THEN 1 ELSE 0
    IN  /\ ~dead /\ mMode = "IN_CALL"
        /\ mMode' = mode /\ mInCallAudioMode' = FALSE
        /\ out' = [out EXCEPT !.standby = TRUE] /\ in' = [in EXCEPT !.standby = TRUE]
        /\ mPcmOpenCnt' = (IF b.pcm > pcm THEN 0 ELSE pcm - b.pcm) + r
        /\ mMixerOpenCnt' = (IF b.mixer > mixer THEN 0 ELSE mixer - b.mixer) + r
        /\ closedTwice' = (closedTwice \/ mPcmOpenCnt < 1 + b.pcm
                                       \/ mMixerOpenCnt < 1 + b.mixer)
        /\ Install(IF fm.resume THEN FmRoutes(off) ELSE off)
        /\ \E ok \in BOOLEAN :
              fm' = IF fm.resume THEN [fm EXCEPT !.resume = FALSE, !.open = @ \/ ok] ELSE fm
        /\ UNCHANGED <<mMicMute, dead>>

SetMode ==
    \/ EnterCall
    \/ \E mode \in {"NORMAL", "RINGTONE"} : LeaveCall(mode)
    \/ \E mode \in {"NORMAL", "RINGTONE"} \ {mMode} :
           /\ ~dead /\ mMode # "IN_CALL" /\ mMode' = mode
           /\ UNCHANGED <<codec, mRoute, counts, mInCallAudioMode, mMicMute, out, in, fm,
                          closedTwice, dead>>

\* Mutant: the wrong route is turned off.
SetMicMuteVoice ==
    /\ ~dead
    /\ mMicMute' = ~mMicMute
    /\ IF mMicMute THEN UNCHANGED <<codec, mRoute>>
       ELSE Install(SetAudioRoute(State, "VOICE_IN", Off))
    /\ UNCHANGED <<counts, mMode, mInCallAudioMode, out, in, fm, closedTwice, dead>>

\* setMicMute: muting turns the route off; unmuting sets the route it has just
\* read, which changes nothing.  It does not ask whether the mixer is open:
\* mixer_get_control is then called with NULL, and the process dies.
SetMicMute ==
    LET type == IF mMode = "IN_CALL" THEN "VOICE_IN" ELSE "INPUT"
    IN  /\ ~dead
        /\ mMicMute' = ~mMicMute
        /\ IF mMicMute THEN UNCHANGED <<codec, mRoute>> ELSE Install(SetAudioRoute(State, type, Off))
        /\ dead' = (~mMicMute /\ ~MixerOpen /\ Switches(type, mRoute[type]) # {})
        /\ UNCHANGED <<counts, mMode, mInCallAudioMode, out, in, fm, closedTwice>>

SetVoiceVolume ==
    /\ ~dead /\ mMode = "IN_CALL" /\ MixerOpen
    /\ Install(OutputVolume(State, out.device))
    /\ UNCHANGED <<counts, mMode, mInCallAudioMode, mMicMute, out, in, fm, closedTwice, dead>>

SetMasterVolume ==
    /\ ~dead /\ MixerOpen
    /\ Install(MasterVolume(State))
    /\ UNCHANGED <<counts, mMode, mInCallAudioMode, mMicMute, out, in, fm, closedTwice, dead>>

Next ==
    \/ OutLeavesStandby \/ InLeavesStandby \/ OutStandby \/ InStandby
    \/ SetOutDevice \/ SetInDevice
    \/ FmOn \/ FmOff \/ SetMode \/ SetMicMute \/ SetVoiceVolume \/ SetMasterVolume

Spec == Init /\ [][Next]_vars

-----------------------------------------------------------------------------
One(b) == IF b THEN 1 ELSE 0

\* The PCM and the mixer are counted once for each that uses them: an active
\* stream (the input has a PCM of its own), the call, the radio, unless it
\* waits for the end of the call; and closePcmOut_l and closeMixer_l are never
\* called at a count of 0, which they log as an error.
Balanced ==
    /\ mPcmOpenCnt = One(~out.standby) + One(mInCallAudioMode) + One(fm.wanted /\ ~fm.resume)
    /\ mMixerOpenCnt = mPcmOpenCnt + One(~in.standby)
    /\ mInCallAudioMode = (mMode = "IN_CALL")
    /\ ~closedTwice

\* With the microphone muted, no route that records has its switch on, outside
\* of a call: whichever stream, device, mode or radio came after the muting,
\* and whatever the memory of mRoute held at first.
MuteIsOff ==
    mMicMute /\ mMode # "IN_CALL" => {"Main Mic Switch", "Ear Mic Switch"} \cap codec.on = {}

\* The switches that only a voice route turns on.
VoiceOnly == (UNION {Switches("VOICE_IN", r) : r \in {"MIC_SUB", "HEADSET"}}) \cup Voice

\* Nothing of a call outlives it: no switch that only a voice route turns on,
\* no transmission, no radio that still waits for its end, and the playback
\* volume is not the call's.
CallLeavesNothing ==
    mMode # "IN_CALL" =>
        /\ (VoiceOnly \cup {"GSM Send Switch"}) \cap codec.on = {}
        /\ codec.playback # "voice" /\ ~fm.resume

\* The inductive invariant.  Every switch that is on is one that a route turns off
\* again, outside of a call one of the two that the streams and the radio set; and
\* the radio waits for the end of a call only during one.
Routes == {Off, "MIC_MAIN", "MIC_SUB", "HEADSET", "PHONE", "FM", "RCV", "SPK", "HP", "SPK_HP",
           "FM_HP", "BT", "16"} \cup HeapRoutes
Names == (UNION {Switches(t, r) : t \in Types, r \in Routes}) \cup Gsm
Codecs == [on : SUBSET Names, mux : {"None", "Main Mic", "Ear Mic"},
           playback : {"master", "voice", "64", "100"}, attenuation : {"3", "voice"}]

Typed ==
    /\ codec \in Codecs /\ mRoute \in [Types -> Routes]
    /\ mPcmOpenCnt \in Nat /\ mMixerOpenCnt \in Nat
    /\ mMode \in Modes /\ mInCallAudioMode \in BOOLEAN /\ mMicMute \in BOOLEAN
    /\ out \in [standby : BOOLEAN, device : OutDevices]
    /\ in \in [standby : BOOLEAN, device : InDevices]
    /\ fm \in [open : BOOLEAN, resume : BOOLEAN, wanted : BOOLEAN]
    /\ closedTwice \in BOOLEAN /\ dead \in BOOLEAN

From(types, route) == UNION {Switches(t, route[t]) : t \in types}
Owned(s, types, others) == s.codec.on \subseteq From(types, s.route) \cup others

SwitchesOwned ==
    IF mMode = "IN_CALL" THEN Owned(State, Types, Gsm) ELSE Owned(State, {"INPUT", "OUTPUT"}, {})

Delayed == fm.resume => mMode = "IN_CALL" /\ fm.wanted

IInv == Typed /\ SwitchesOwned /\ Delayed /\ Balanced /\ MuteIsOff /\ CallLeavesNothing
=============================================================================
