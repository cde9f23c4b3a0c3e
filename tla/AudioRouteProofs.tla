--------------------------- MODULE AudioRouteProofs ---------------------------
(***************************************************************************)
(* Proofs about AudioRoute, for every set of devices and whatever memory   *)
(* the routes start from, of clients that do not turn the radio off while  *)
(* its start is delayed.  The lemmas of the first part are about           *)
(* setAudioRoute as a function of the codec and the routes; in the second, *)
(* each call keeps the invariant.                                          *)
(***************************************************************************)
EXTENDS AudioRoute, TLAPS

\* The codec and the routes together.
States == [codec : Codecs, route : [Types -> Routes]]

(* ----- the tables ----- *)

\* Which switches each type of route may turn on; route 0 turns none on.
Mics == {"Main Mic Switch", "Ear Mic Switch"}

LEMMA OffIsEmpty == ASSUME NEW t \in Types PROVE Switches(t, Off) = {}
  <1>1. CASE t = "INPUT"
    BY <1>1 DEF Switches, Off
  <1>2. CASE t = "OUTPUT"
    BY <1>2 DEF Switches, Off
  <1>3. CASE t = "VOICE_IN"
    BY <1>3 DEF Switches, Off
  <1>4. CASE t = "VOICE_OUT"
    BY <1>4 DEF Switches, Off
  <1> QED
    BY <1>1, <1>2, <1>3, <1>4 DEF Types

LEMMA InputSwitches ==
    ASSUME NEW r
    PROVE  Switches("INPUT", r) \subseteq Mics \cup {"GSM Receive Switch", "FM Receive Switch",
                                                     "LOUT Mixer Left LIN", "ROUT Mixer Right LIN"}
  BY DEF Switches, Mics

LEMMA OutputSwitches ==
    ASSUME NEW r
    PROVE  Switches("OUTPUT", r) \subseteq {"LOUTP", "Earpiece Switch", "Speaker Switch",
                                            "Headphones Switch"} \cup Dac
  BY DEF Switches, Dac

LEMMA FmHasNoMic == Switches("INPUT", "FM") \cap Mics = {}
  BY DEF Switches, Mics

LEMMA VoiceSwitches ==
    VoiceOnly \subseteq {"Sub Mic Switch", "LOUT3 Mixer LINS2", "ROUT3 Mixer RINS2",
                         "Jack Mic Switch", "LOUT3 Mixer LINS3", "ROUT3 Mixer RINS3",
                         "LIN Mixer LVOICEINP", "RIN Mixer RVOICEINN"}
  <1>1. /\ Switches("VOICE_IN", "MIC_SUB") = {"Sub Mic Switch", "LOUT3 Mixer LINS2", "ROUT3 Mixer RINS2"}
        /\ Switches("VOICE_IN", "HEADSET") = {"Jack Mic Switch", "LOUT3 Mixer LINS3", "ROUT3 Mixer RINS3"}
    BY DEF Switches
  <1>2. \A x \in VoiceOnly : \/ x \in Switches("VOICE_IN", "MIC_SUB")
                           \/ x \in Switches("VOICE_IN", "HEADSET") \/ x \in Voice
    <2> SUFFICES ASSUME NEW x \in VoiceOnly, x \notin Voice
                 PROVE  x \in Switches("VOICE_IN", "MIC_SUB") \/ x \in Switches("VOICE_IN", "HEADSET")
      OBVIOUS
    <2>1. PICK r \in {"MIC_SUB", "HEADSET"} : x \in Switches("VOICE_IN", r)
      BY DEF VoiceOnly
    <2> QED
      BY <2>1
  <1> QED
    BY <1>1, <1>2 DEF Voice

\* Neither an input nor an output route turns on what only a voice route does.
LEMMA NoVoice ==
    ASSUME NEW route
    PROVE  From({"INPUT", "OUTPUT"}, route) \cap (VoiceOnly \cup {"GSM Send Switch"}) = {}
  <1>1. From({"INPUT", "OUTPUT"}, route) = Switches("INPUT", route["INPUT"]) \cup Switches("OUTPUT", route["OUTPUT"])
    BY DEF From
  <1>2. Switches("INPUT", route["INPUT"]) \cap (VoiceOnly \cup {"GSM Send Switch"}) = {}
    BY InputSwitches, VoiceSwitches DEF Mics
  <1>3. Switches("OUTPUT", route["OUTPUT"]) \cap (VoiceOnly \cup {"GSM Send Switch"}) = {}
    BY OutputSwitches, VoiceSwitches DEF Dac
  <1> QED
    BY <1>1, <1>2, <1>3

\* The routes that are set have names.
LEMMA RouteNames ==
    /\ \A d : OutputRoute(d) \in Routes /\ VoiceOutRoute(d) \in Routes
              /\ VoiceInRoute(d) \in Routes /\ FmOutputRoute(d) \in Routes
    /\ \A d, m : InputRoute(d, m) \in Routes
    /\ {Off, "RCV", "MIC_MAIN", "FM"} \subseteq Routes
  <1>1. \A d : OutputRoute(d) \in Routes
    BY DEF OutputRoute, Routes
  <1>2. \A d : VoiceInRoute(d) \in Routes
    BY DEF VoiceInRoute, Routes
  <1>3. \A d : FmOutputRoute(d) \in Routes
    BY DEF FmOutputRoute, Routes
  <1>4. \A d, m : InputRoute(d, m) \in Routes
    BY DEF InputRoute, Routes
  <1>5. {Off, "RCV", "MIC_MAIN", "FM"} \subseteq Routes
    BY DEF Routes
  <1> QED
    BY <1>1, <1>2, <1>3, <1>4, <1>5 DEF VoiceOutRoute

(* ----- setAudioRoute ----- *)

\* It changes one route, and turns the switches of the old one off and those of the
\* new one on.
LEMMA SetRoute ==
    ASSUME NEW s \in States, NEW t \in Types, NEW new \in Routes
    PROVE  LET u == SetAudioRoute(s, t, new)
           IN  /\ u \in States
               /\ u.route = [s.route EXCEPT ![t] = new]
               /\ u.codec.on \subseteq (s.codec.on \ Switches(t, s.route[t])) \cup Switches(t, new)
                     \/ (s.route[t] = new /\ u = s)
               /\ u.codec.playback = s.codec.playback \/ u.codec.playback \in {"64", "100"}
  <1>1. /\ s.codec \in Codecs /\ s.route \in [Types -> Routes]
        /\ s.codec.on \in SUBSET Names /\ s.codec.mux \in {"None", "Main Mic", "Ear Mic"}
        /\ s.codec.playback \in {"master", "voice", "64", "100"}
        /\ s.codec.attenuation \in {"3", "voice"}
    BY DEF States, Codecs
  <1>2. CASE s.route[t] = new
    <2>1. SetAudioRoute(s, t, new) = s
      BY <1>2 DEF SetAudioRoute
    <2>2. [s.route EXCEPT ![t] = new] = s.route
      BY <1>1, <1>2
    <2> QED
      BY <1>2, <2>1, <2>2
  <1>3. CASE s.route[t] # new
    <2> DEFINE o == (s.codec.on \ Switches(t, s.route[t])) \cup Switches(t, new)
               m == Mux(t, new, s.codec.mux)
               p == Playback(t, new, s.codec.playback)
               a == Attenuation(t, new, s.codec.attenuation)
               r == [s.route EXCEPT ![t] = new]
    <2>1. SetAudioRoute(s, t, new) =
              [codec |-> [on |-> o, mux |-> m, playback |-> p, attenuation |-> a], route |-> r]
      BY <1>3 DEF SetAudioRoute
    <2>2. o \in SUBSET Names
      <3>1. Switches(t, new) \in {Switches(y, z) : y \in Types, z \in Routes}
        OBVIOUS
      <3>2. Switches(t, new) \subseteq Names
        BY <3>1 DEF Names
      <3> QED
        BY <1>1, <3>2
    <2>3. m \in {"None", "Main Mic", "Ear Mic"}
      BY <1>1 DEF Mux
    <2>4. p \in {"master", "voice", "64", "100"} /\ (p = s.codec.playback \/ p \in {"64", "100"})
      BY <1>1 DEF Playback
    <2>5. a \in {"3", "voice"}
      BY <1>1 DEF Attenuation
    <2>6. r \in [Types -> Routes]
      BY <1>1
    <2> HIDE DEF o, m, p, a, r
    <2> DEFINE u == [codec |-> [on |-> o, mux |-> m, playback |-> p, attenuation |-> a], route |-> r]
    <2>7. u \in States /\ u.route = r /\ u.codec.on = o /\ u.codec.playback = p
      BY <2>2, <2>3, <2>4, <2>5, <2>6 DEF States, Codecs
    <2> HIDE DEF u
    <2>8. SetAudioRoute(s, t, new) = u
      BY <2>1 DEF u
    <2> QED
      BY <2>4, <2>7, <2>8 DEF o, r
  <1> QED
    BY <1>2, <1>3

\* Every switch that was some route's still is, one of the new route's possibly.
LEMMA OwnedStays ==
    ASSUME NEW s \in States, NEW t \in Types, NEW new \in Routes, NEW X,
           NEW types \in SUBSET Types, Owned(s, types, X)
    PROVE  Owned(SetAudioRoute(s, t, new), types \cup {t}, X)
  <1> DEFINE u == SetAudioRoute(s, t, new)
  <1>1. /\ u.route = [s.route EXCEPT ![t] = new]
        /\ u.codec.on \subseteq (s.codec.on \ Switches(t, s.route[t])) \cup Switches(t, new)
              \/ (s.route[t] = new /\ u = s)
    BY SetRoute
  <1>2. s.route \in [Types -> Routes]
    BY DEF States
  <1> HIDE DEF u
  <1> SUFFICES ASSUME NEW w \in u.codec.on, w \notin X
               PROVE  \E y \in types \cup {t} : w \in Switches(y, u.route[y])
    BY DEF Owned, From, u
  <1>3. \A y \in Types \ {t} : u.route[y] = s.route[y]
    BY <1>1, <1>2
  <1>4. u.route[t] = new
    BY <1>1, <1>2
  <1>5. CASE w \in Switches(t, new)
    BY <1>4, <1>5
  <1>6. CASE w \notin Switches(t, new)
    <2>1. w \in s.codec.on /\ w \notin Switches(t, s.route[t])
      <3>1. CASE s.route[t] = new /\ u = s
        BY <1>6, <3>1
      <3>2. CASE ~(s.route[t] = new /\ u = s)
        BY <1>1, <1>6, <3>2
      <3> QED
        BY <3>1, <3>2
    <2>2. PICK y \in types : w \in Switches(y, s.route[y])
      BY <2>1 DEF Owned, From
    <2>3. y # t
      BY <2>1, <2>2
    <2> QED
      BY <1>3, <2>2, <2>3
  <1> QED
    BY <1>5, <1>6

\* Of a type that is turned off nothing is left.
LEMMA OwnedLess ==
    ASSUME NEW s \in States, NEW t \in Types, NEW X, NEW types \in SUBSET Types, Owned(s, types, X)
    PROVE  Owned(SetAudioRoute(s, t, Off), types \ {t}, X)
  <1> DEFINE u == SetAudioRoute(s, t, Off)
  <1>1. Owned(u, types \cup {t}, X)
    BY OwnedStays, RouteNames
  <1>2. u.route[t] = Off
    <2>1. Off \in Routes /\ s.route \in [Types -> Routes]
      BY RouteNames DEF States
    <2>2. u.route = [s.route EXCEPT ![t] = Off]
      BY <2>1, SetRoute
    <2> HIDE DEF u
    <2> QED
      BY <2>1, <2>2
  <1>3. Switches(t, Off) = {}
    BY OffIsEmpty
  <1> HIDE DEF u
  <1>4. From(types \cup {t}, u.route) \subseteq From(types \ {t}, u.route)
    BY <1>2, <1>3 DEF From
  <1> QED
    BY <1>1, <1>4 DEF Owned, u

(* ----- the codec outside of a call, and in one ----- *)

Quiet(s, muted) ==
    /\ s \in States
    /\ Owned(s, {"INPUT", "OUTPUT"}, {})
    /\ muted => Mics \cap s.codec.on = {}
    /\ s.codec.playback # "voice"

Calling(s) == s \in States /\ Owned(s, Types, Gsm)

LEMMA OutputHasNoMic == ASSUME NEW r PROVE Switches("OUTPUT", r) \cap Mics = {}
  BY OutputSwitches DEF Mics, Dac

\* An output route may change at any time, an input route to one that has no
\* microphone if that is muted.
LEMMA QuietRoute ==
    ASSUME NEW s, NEW muted, Quiet(s, muted), NEW t \in {"INPUT", "OUTPUT"}, NEW new \in Routes,
           muted => Switches(t, new) \cap Mics = {}
    PROVE  Quiet(SetAudioRoute(s, t, new), muted)
  <1> DEFINE u == SetAudioRoute(s, t, new)
  <1>1. s \in States /\ t \in Types /\ {"INPUT", "OUTPUT"} \in SUBSET Types
        /\ {"INPUT", "OUTPUT"} \cup {t} = {"INPUT", "OUTPUT"}
    BY DEF Quiet, Types
  <1>2. Owned(u, {"INPUT", "OUTPUT"} \cup {t}, {})
    BY <1>1, OwnedStays DEF Quiet
  <1>3. /\ u \in States
        /\ u.codec.on \subseteq (s.codec.on \ Switches(t, s.route[t])) \cup Switches(t, new)
              \/ (s.route[t] = new /\ u = s)
        /\ u.codec.playback = s.codec.playback \/ u.codec.playback \in {"64", "100"}
    <2>1. s \in States /\ t \in Types
      BY <1>1
    <2> QED
      BY ONLY <2>1, new \in Routes, SetRoute DEF u
  <1> HIDE DEF u
  <1>4. muted => Mics \cap u.codec.on = {}
    BY <1>3 DEF Quiet
  <1>5. u.codec.playback # "voice"
    BY <1>3 DEF Quiet
  <1> QED
    BY <1>1, <1>2, <1>3, <1>4, <1>5 DEF Quiet, u

LEMMA QuietFm ==
    ASSUME NEW s, NEW muted, Quiet(s, muted) PROVE Quiet(FmRoutes(s), muted)
  <1>1. Quiet(SetAudioRoute(s, "INPUT", "FM"), muted)
    BY QuietRoute, RouteNames, FmHasNoMic
  <1> QED
    BY <1>1, QuietRoute, RouteNames, OutputHasNoMic DEF FmRoutes

LEMMA QuietOpen ==
    ASSUME NEW s, Quiet(s, mMicMute), mMode # "IN_CALL"
    PROVE  Quiet(OpenOut(s), mMicMute) /\ Quiet(OpenIn(s), mMicMute)
  <1>1. Quiet(OpenOut(s), mMicMute)
    BY QuietRoute, RouteNames, OutputHasNoMic DEF OpenOut
  <1>2. mMicMute => InputRoute(in.device, mMicMute) = Off
    BY DEF InputRoute
  <1>3. Off \in Routes /\ Switches("INPUT", Off) = {} /\ InputRoute(in.device, mMicMute) \in Routes
    BY RouteNames, OffIsEmpty DEF Types
  <1>4. mMicMute => Switches("INPUT", InputRoute(in.device, mMicMute)) \cap Mics = {}
    BY <1>2, <1>3
  <1>5. Quiet(SetAudioRoute(s, "INPUT", InputRoute(in.device, mMicMute)), mMicMute)
    BY <1>3, <1>4, QuietRoute
  <1> QED
    BY <1>1, <1>5 DEF OpenIn

\* Whatever routes there were: without an input route no microphone is on.
LEMMA OutputsAreQuiet ==
    ASSUME NEW u \in States, Owned(u, {"OUTPUT"}, {}), NEW muted, u.codec.playback # "voice"
    PROVE  Quiet(u, muted)
  <1>1. u.codec.on \subseteq Switches("OUTPUT", u.route["OUTPUT"])
    BY DEF Owned, From
  <1>2. Owned(u, {"INPUT", "OUTPUT"}, {})
    BY DEF Owned, From
  <1> QED
    BY <1>1, <1>2, OutputHasNoMic DEF Quiet

LEMMA QuietMute ==
    ASSUME NEW s, NEW m, Quiet(s, m), NEW muted
    PROVE  Quiet(SetAudioRoute(s, "INPUT", Off), muted)
  <1> DEFINE u == SetAudioRoute(s, "INPUT", Off)
  <1>1. s \in States /\ Owned(s, {"INPUT", "OUTPUT"}, {}) /\ s.codec.playback # "voice"
        /\ "INPUT" \in Types /\ {"INPUT", "OUTPUT"} \in SUBSET Types /\ Off \in Routes
        /\ {"INPUT", "OUTPUT"} \ {"INPUT"} = {"OUTPUT"}
    BY RouteNames DEF Quiet, Types
  <1>2. Owned(u, {"INPUT", "OUTPUT"} \ {"INPUT"}, {})
    BY <1>1, OwnedLess
  <1>3. u \in States /\ (u.codec.playback = s.codec.playback \/ u.codec.playback \in {"64", "100"})
    BY <1>1, SetRoute
  <1> HIDE DEF u
  <1>4. Quiet(u, muted)
    BY <1>1, <1>2, <1>3, OutputsAreQuiet
  <1> QED
    BY <1>4 DEF u

LEMMA CallingRoute ==
    ASSUME NEW s, Calling(s), NEW t \in Types, NEW new \in Routes
    PROVE  Calling(SetAudioRoute(s, t, new))
  <1>1. Types \cup {t} = Types
    OBVIOUS
  <1>2. Owned(SetAudioRoute(s, t, new), Types \cup {t}, Gsm)
    BY OwnedStays DEF Calling
  <1>3. SetAudioRoute(s, t, new) \in States
    BY SetRoute DEF Calling
  <1> QED
    BY <1>1, <1>2, <1>3 DEF Calling

\* The volumes and the transmission are no route's.
LEMMA CodecWith ==
    ASSUME NEW s \in States, NEW c \in Codecs
    PROVE  LET u == [s EXCEPT !.codec = c] IN u \in States /\ u.route = s.route /\ u.codec = c
  BY DEF States

LEMMA VolumeIsSet ==
    ASSUME NEW s \in States
    PROVE  /\ \A d : LET u == OutputVolume(s, d)
                     IN  u \in States /\ u.route = s.route /\ u.codec.on = s.codec.on
           /\ LET u == MasterVolume(s)
              IN  u \in States /\ u.route = s.route /\ u.codec.on = s.codec.on
                  /\ u.codec.playback = "master"
  <1>1. s.codec \in Codecs
    BY DEF States
  <1> DEFINE v == [s.codec EXCEPT !.playback = "voice"]
             m == [s.codec EXCEPT !.playback = "master"]
             a == [s.codec EXCEPT !.attenuation = "voice"]
  <1>2. v \in Codecs /\ v.on = s.codec.on
    BY <1>1 DEF Codecs
  <1>3. m \in Codecs /\ m.on = s.codec.on /\ m.playback = "master"
    BY <1>1 DEF Codecs
  <1>4. a \in Codecs /\ a.on = s.codec.on
    BY <1>1 DEF Codecs
  <1>5. \A d : OutputVolume(s, d) \in {s, [s EXCEPT !.codec = a], [s EXCEPT !.codec = v]}
    BY DEF OutputVolume, States
  <1>6. MasterVolume(s) = [s EXCEPT !.codec = m]
    BY DEF MasterVolume, States
  <1> HIDE DEF v, m, a
  <1>7. LET u == [s EXCEPT !.codec = a] IN u \in States /\ u.route = s.route /\ u.codec = a
    BY <1>4, CodecWith
  <1>8. LET u == [s EXCEPT !.codec = v] IN u \in States /\ u.route = s.route /\ u.codec = v
    BY <1>2, CodecWith
  <1>9. LET u == [s EXCEPT !.codec = m] IN u \in States /\ u.route = s.route /\ u.codec = m
    BY <1>3, CodecWith
  <1> QED
    BY <1>2, <1>3, <1>4, <1>5, <1>6, <1>7, <1>8, <1>9

LEMMA SwitchIsSet ==
    ASSUME NEW s \in States, NEW on \in SUBSET Gsm, NEW off \in SUBSET Gsm
    PROVE  LET u == Switch(s, on, off)
           IN  u \in States /\ u.route = s.route /\ u.codec.on = (s.codec.on \ off) \cup on
               /\ u.codec.playback = s.codec.playback
  <1> DEFINE o == (s.codec.on \ off) \cup on
             c == [s.codec EXCEPT !.on = o]
  <1>1. s.codec \in Codecs
    BY DEF States
  <1>2. o \in SUBSET Names
    <2>1. s.codec.on \subseteq Names
      BY <1>1 DEF Codecs
    <2>2. Gsm \subseteq Names
      BY DEF Names
    <2> QED
      BY <2>1, <2>2
  <1>3. Switch(s, on, off) = [s EXCEPT !.codec = c]
    BY DEF Switch, States
  <1> HIDE DEF o
  <1>4. c \in Codecs /\ c.on = o /\ c.playback = s.codec.playback
    BY <1>1, <1>2 DEF Codecs
  <1> HIDE DEF c
  <1>5. LET u == [s EXCEPT !.codec = c] IN u \in States /\ u.route = s.route /\ u.codec = c
    BY <1>4, CodecWith
  <1> QED
    BY <1>3, <1>4, <1>5 DEF o

LEMMA CallStarts ==
    ASSUME NEW s, NEW muted, Quiet(s, muted) PROVE Calling(InCallRoutes(s))
  <1>1. Calling(s)
    BY DEF Quiet, Calling, Owned, From, Types
  <1> DEFINE u == SetAudioRoute(SetAudioRoute(SetAudioRoute(s, "OUTPUT", "RCV"),
                                              "VOICE_IN", "MIC_MAIN"), "VOICE_OUT", "RCV")
             v == OutputVolume(u, out.device)
  <1>2. {"OUTPUT", "VOICE_IN", "VOICE_OUT"} \subseteq Types /\ {"RCV", "MIC_MAIN"} \subseteq Routes
    BY RouteNames DEF Types
  <1>3. Calling(u)
    BY <1>1, <1>2, CallingRoute
  <1> HIDE DEF u
  <1>4. v \in States /\ v.route = u.route /\ v.codec.on = u.codec.on
    BY <1>3, VolumeIsSet DEF Calling
  <1> HIDE DEF v
  <1> DEFINE w == Switch(v, Gsm, {})
  <1>5. w \in States /\ w.route = v.route /\ w.codec.on = (v.codec.on \ {}) \cup Gsm
    BY <1>4, SwitchIsSet
  <1> HIDE DEF w
  <1>6. Calling(w)
    BY <1>3, <1>4, <1>5 DEF Calling, Owned
  <1>7. InCallRoutes(s) = w
    BY DEF InCallRoutes, u, v, w
  <1> QED
    BY <1>6, <1>7

LEMMA CallEnds ==
    ASSUME NEW s, Calling(s), NEW muted PROVE Quiet(OffCallRoutes(s), muted)
  <1> DEFINE u1 == SetAudioRoute(s, "VOICE_OUT", Off)
             u2 == SetAudioRoute(u1, "VOICE_IN", Off)
             u3 == SetAudioRoute(u2, "OUTPUT", "RCV")
             u4 == SetAudioRoute(u3, "INPUT", Off)
             u5 == MasterVolume(u4)
             u6 == Switch(u5, {}, Gsm)
  <1>1. OffCallRoutes(s) = u6
    BY DEF OffCallRoutes
  <1>2. Off \in Routes /\ "RCV" \in Routes
    BY RouteNames
  <1>20. Types \ {"VOICE_OUT"} = {"INPUT", "OUTPUT", "VOICE_IN"} /\ "VOICE_OUT" \in Types
    BY DEF Types
  <1>21. {"INPUT", "OUTPUT", "VOICE_IN"} \in SUBSET Types /\ "VOICE_IN" \in Types
         /\ {"INPUT", "OUTPUT", "VOICE_IN"} \ {"VOICE_IN"} = {"INPUT", "OUTPUT"}
    BY DEF Types
  <1>22. {"INPUT", "OUTPUT"} \in SUBSET Types /\ "OUTPUT" \in Types /\ "INPUT" \in Types
         /\ {"INPUT", "OUTPUT"} \cup {"OUTPUT"} = {"INPUT", "OUTPUT"}
         /\ {"INPUT", "OUTPUT"} \ {"INPUT"} = {"OUTPUT"}
    BY DEF Types
  <1>3. u1 \in States /\ Owned(u1, {"INPUT", "OUTPUT", "VOICE_IN"}, Gsm)
    <2>1. u1 \in States /\ Owned(u1, Types \ {"VOICE_OUT"}, Gsm)
      BY <1>2, <1>20, SetRoute, OwnedLess DEF Calling
    <2> QED
      BY <1>20, <2>1
  <1> HIDE DEF u1
  <1>4. u2 \in States /\ Owned(u2, {"INPUT", "OUTPUT"}, Gsm)
    <2>1. u2 \in States /\ Owned(u2, {"INPUT", "OUTPUT", "VOICE_IN"} \ {"VOICE_IN"}, Gsm)
      BY <1>2, <1>3, <1>21, SetRoute, OwnedLess
    <2> QED
      BY <1>21, <2>1
  <1> HIDE DEF u2
  <1>5. u3 \in States /\ Owned(u3, {"INPUT", "OUTPUT"}, Gsm)
    <2>1. u3 \in States /\ Owned(u3, {"INPUT", "OUTPUT"} \cup {"OUTPUT"}, Gsm)
      BY <1>2, <1>4, <1>22, SetRoute, OwnedStays
    <2> QED
      BY <1>22, <2>1
  <1> HIDE DEF u3
  <1>7. u4 \in States /\ Owned(u4, {"OUTPUT"}, Gsm)
    <2>1. u4 \in States /\ Owned(u4, {"INPUT", "OUTPUT"} \ {"INPUT"}, Gsm)
      BY <1>2, <1>5, <1>22, SetRoute, OwnedLess
    <2> QED
      BY <1>22, <2>1
  <1> HIDE DEF u4
  <1>8. u5 \in States /\ u5.route = u4.route /\ u5.codec.on = u4.codec.on /\ u5.codec.playback = "master"
    BY <1>7, VolumeIsSet
  <1> HIDE DEF u5
  <1>9. /\ u6 \in States /\ u6.route = u5.route /\ u6.codec.on = (u5.codec.on \ Gsm) \cup {}
        /\ u6.codec.playback = u5.codec.playback
    <2>1. {} \in SUBSET Gsm /\ Gsm \in SUBSET Gsm
      OBVIOUS
    <2> QED
      BY <1>8, <2>1, SwitchIsSet, ZenonT(60)
  <1> HIDE DEF u6
  <1>10. Owned(u6, {"OUTPUT"}, {})
    BY <1>7, <1>8, <1>9 DEF Owned
  <1> QED
    BY <1>1, <1>8, <1>9, <1>10, OutputsAreQuiet

(* ----- the calls ----- *)

Sound == IF mMode = "IN_CALL" THEN Calling(State) ELSE Quiet(State, mMicMute)

Counted ==
    /\ mPcmOpenCnt \in Nat /\ mMixerOpenCnt \in Nat
    /\ mMode \in Modes /\ mInCallAudioMode \in BOOLEAN /\ mMicMute \in BOOLEAN
    /\ out \in [standby : BOOLEAN, device : OutDevices]
    /\ in \in [standby : BOOLEAN, device : InDevices]
    /\ fm \in [open : BOOLEAN, resume : BOOLEAN, wanted : BOOLEAN]
    /\ closedTwice \in BOOLEAN /\ dead \in BOOLEAN
    /\ Delayed /\ Balanced

\* The invariant is about the codec and the routes, and about everything else.
LEMMA TwoHalves == IInv <=> Sound /\ Counted
  <1>1. State \in States <=> codec \in Codecs /\ mRoute \in [Types -> Routes]
    BY DEF State, States
  <1>2. State.codec = codec /\ State.route = mRoute
    BY DEF State
  <1>3. Quiet(State, mMicMute) => (VoiceOnly \cup {"GSM Send Switch"}) \cap codec.on = {}
    BY <1>2, NoVoice DEF Quiet, Owned
  <1>4. Sound => Typed \/ ~Counted
    BY <1>1 DEF Sound, Counted, Typed, Quiet, Calling
  <1>5. Sound => SwitchesOwned
    BY DEF Sound, SwitchesOwned, Quiet, Calling
  <1>6. Sound => MuteIsOff
    BY <1>2 DEF Sound, MuteIsOff, Quiet, Mics
  <1>7. Sound /\ Counted => CallLeavesNothing
    BY <1>2, <1>3 DEF Sound, Counted, CallLeavesNothing, Delayed, Quiet
  <1>8. Typed /\ SwitchesOwned /\ MuteIsOff /\ CallLeavesNothing => Sound
    <2> SUFFICES ASSUME Typed, SwitchesOwned, MuteIsOff, CallLeavesNothing PROVE Sound
      OBVIOUS
    <2>1. State \in States
      BY <1>1 DEF Typed
    <2>2. CASE mMode = "IN_CALL"
      BY <2>1, <2>2 DEF Sound, SwitchesOwned, Calling
    <2>3. CASE mMode # "IN_CALL"
      BY <1>2, <2>1, <2>3 DEF Sound, SwitchesOwned, MuteIsOff, CallLeavesNothing, Quiet, Mics
    <2> QED
      BY <2>2, <2>3
  <1>9. IInv => Counted
    BY DEF IInv, Counted, Typed
  <1> QED
    BY <1>4, <1>5, <1>6, <1>7, <1>8, <1>9 DEF IInv, Counted

LEMMA Installed == ASSUME NEW s \in States, Install(s) PROVE State' = s
  BY DEF Install, State, States

\* Quiet and Calling are about their arguments only.
LEMMA SameState ==
    ASSUME UNCHANGED <<codec, mRoute>> PROVE State' = State
  BY DEF State

LEMMA QuietNext ==
    ASSUME NEW s, Quiet(s, mMicMute'), Install(s), mMode' # "IN_CALL" PROVE Sound'
  <1>1. s \in States
    BY DEF Quiet
  <1>2. State' = s
    BY <1>1, Installed
  <1>3. Sound' = IF mMode' = "IN_CALL" THEN Calling(State') ELSE Quiet(State', mMicMute')
    BY DEF Sound, Calling, Quiet, Owned, From
  <1> QED
    BY <1>2, <1>3

LEMMA CallingNext ==
    ASSUME NEW s, Calling(s), Install(s), mMode' = "IN_CALL" PROVE Sound'
  <1>1. s \in States
    BY DEF Calling
  <1>2. State' = s
    BY <1>1, Installed
  <1>3. Sound' = IF mMode' = "IN_CALL" THEN Calling(State') ELSE Quiet(State', mMicMute')
    BY DEF Sound, Calling, Quiet, Owned, From
  <1> QED
    BY <1>2, <1>3

LEMMA SoundStays ==
    ASSUME Sound, UNCHANGED <<codec, mRoute, mMode, mMicMute>> PROVE Sound'
  BY DEF Sound, Calling, Quiet, Owned, From, State

\* In a call the mixer is open.
LEMMA MixerInCall == ASSUME Counted, mMode = "IN_CALL" PROVE MixerOpen
  <1>1. mInCallAudioMode
    BY DEF Counted, Balanced
  <1>2. mPcmOpenCnt >= 1
    BY <1>1 DEF Counted, Balanced, One
  <1> QED
    BY <1>2 DEF Counted, Balanced, One, MixerOpen

LEMMA RoutesStep == ASSUME Sound, Counted, [Next]_vars PROVE Sound'
  <1> USE DEF counts
  <1>1. mMode = "IN_CALL" => Calling(State)
    BY DEF Sound
  <1>2. mMode # "IN_CALL" => Quiet(State, mMicMute)
    BY DEF Sound
  <1>3. ASSUME UNCHANGED <<mMode, mMicMute>>,
               NEW s, Install(s), IF mMode = "IN_CALL" THEN Calling(s) ELSE Quiet(s, mMicMute)
        PROVE  Sound'
    BY <1>3, QuietNext, CallingNext
  <1>4. CASE OutLeavesStandby
    <2> DEFINE s == IF in.standby THEN OpenOut(State) ELSE OpenIn(OpenOut(State))
    <2>1. Install(s) /\ UNCHANGED <<mMode, mMicMute>>
      BY <1>4 DEF OutLeavesStandby
    <2>2. CASE mMode = "IN_CALL"
      <3>1. s = State
        BY <2>2 DEF OpenOut, OpenIn
      <3> QED
        BY <1>1, <1>3, <2>1, <2>2, <3>1
    <2>3. CASE mMode # "IN_CALL"
      <3>1. Quiet(OpenOut(State), mMicMute)
        BY <1>2, <2>3, QuietOpen
      <3>2. Quiet(OpenIn(OpenOut(State)), mMicMute)
        BY <2>3, <3>1, QuietOpen
      <3>3. Quiet(s, mMicMute)
        BY <3>1, <3>2
      <3> HIDE DEF s
      <3> QED
        BY <1>3, <2>1, <2>3, <3>3
    <2> QED
      BY <2>2, <2>3
  <1>5. CASE InLeavesStandby
    <2> DEFINE s == IF out.standby THEN OpenIn(State) ELSE OpenIn(OpenOut(State))
    <2>1. Install(s) /\ UNCHANGED <<mMode, mMicMute>>
      BY <1>5 DEF InLeavesStandby
    <2>2. CASE mMode = "IN_CALL"
      <3>1. s = State
        BY <2>2 DEF OpenOut, OpenIn
      <3> QED
        BY <1>1, <1>3, <2>1, <2>2, <3>1
    <2>3. CASE mMode # "IN_CALL"
      <3>1. Quiet(OpenOut(State), mMicMute) /\ Quiet(OpenIn(State), mMicMute)
        BY <1>2, <2>3, QuietOpen
      <3>2. Quiet(OpenIn(OpenOut(State)), mMicMute)
        BY <2>3, <3>1, QuietOpen
      <3>3. Quiet(s, mMicMute)
        BY <3>1, <3>2
      <3> HIDE DEF s
      <3> QED
        BY <1>3, <2>1, <2>3, <3>3
    <2> QED
      BY <2>2, <2>3
  <1>6. CASE OutStandby \/ InStandby \/ SetInDevice \/ FmOff
    BY <1>6, SoundStays DEF OutStandby, InStandby, SetInDevice, FmOff
  <1>7. CASE SetOutDevice
    <2>1. PICK d \in OutDevices :
              /\ UNCHANGED <<mMode, mMicMute>>
              /\ IF mMode = "IN_CALL" THEN Install(InCallPath(State, d)) ELSE UNCHANGED <<codec, mRoute>>
      BY <1>7 DEF SetOutDevice
    <2>2. CASE mMode = "IN_CALL"
      <3>1. {"VOICE_OUT", "VOICE_IN"} \subseteq Types
            /\ VoiceOutRoute(d) \in Routes /\ VoiceInRoute(d) \in Routes
        BY RouteNames DEF Types
      <3>2. Calling(SetAudioRoute(State, "VOICE_OUT", VoiceOutRoute(d)))
        BY <1>1, <2>2, <3>1, CallingRoute
      <3>3. Calling(InCallPath(State, d))
        BY <1>1, <2>2, <3>1, <3>2, CallingRoute DEF InCallPath
      <3> QED
        BY <1>3, <2>1, <2>2, <3>3
    <2>3. CASE mMode # "IN_CALL"
      BY <2>1, <2>3, SoundStays
    <2> QED
      BY <2>2, <2>3
  <1>8. CASE FmOn
    <2>1. CASE mMode = "IN_CALL"
      BY <1>8, <2>1, SoundStays DEF FmOn
    <2>2. CASE mMode # "IN_CALL"
      <3>1. Install(FmRoutes(State)) /\ UNCHANGED <<mMode, mMicMute>>
        BY <1>8, <2>2 DEF FmOn
      <3>2. Quiet(FmRoutes(State), mMicMute)
        BY <1>2, <2>2, QuietFm
      <3> QED
        BY <1>3, <2>2, <3>1, <3>2
    <2> QED
      BY <2>1, <2>2
  <1>9. CASE EnterCall
    <2>1. mMode # "IN_CALL" /\ mMode' = "IN_CALL" /\ Install(InCallRoutes(State))
      BY <1>9 DEF EnterCall
    <2>2. Calling(InCallRoutes(State))
      BY <1>2, <2>1, CallStarts
    <2> QED
      BY <2>1, <2>2, CallingNext
  <1>10. ASSUME NEW mode \in {"NORMAL", "RINGTONE"}, LeaveCall(mode) PROVE Sound'
    <2> DEFINE off == IF MixerOpen THEN OffCallRoutes(State) ELSE State
               s == IF fm.resume THEN FmRoutes(off) ELSE off
    <2>1. mMode = "IN_CALL" /\ mMode' = mode /\ Install(s) /\ mMicMute' = mMicMute
      BY <1>10 DEF LeaveCall
    <2>2. Quiet(off, mMicMute)
      BY <1>1, <2>1, CallEnds, MixerInCall
    <2>3. Quiet(s, mMicMute)
      BY <2>2, QuietFm
    <2> HIDE DEF s
    <2> QED
      BY <1>10, <2>1, <2>3, QuietNext
  <1>11. CASE \E mode \in {"NORMAL", "RINGTONE"} \ {mMode} :
                  /\ ~dead /\ mMode # "IN_CALL" /\ mMode' = mode
                  /\ UNCHANGED <<codec, mRoute, counts, mInCallAudioMode, mMicMute, out, in, fm,
                                 closedTwice, dead>>
    <2>1. mMode # "IN_CALL" /\ mMode' # "IN_CALL" /\ UNCHANGED <<codec, mRoute, mMicMute>>
      BY <1>11
    <2>2. Install(State)
      BY <2>1 DEF Install, State
    <2> QED
      BY <1>2, <2>1, <2>2, QuietNext
  <1>12. CASE SetMicMute
    <2> DEFINE type == IF mMode = "IN_CALL" THEN "VOICE_IN" ELSE "INPUT"
    <2>1. /\ mMicMute' = ~mMicMute /\ mMode' = mMode
          /\ IF mMicMute THEN UNCHANGED <<codec, mRoute>> ELSE Install(SetAudioRoute(State, type, Off))
      BY <1>12 DEF SetMicMute
    <2>2. CASE mMicMute
      <3>1. Install(State) /\ mMicMute' = FALSE
        BY <2>1, <2>2 DEF Install, State
      <3>2. mMode # "IN_CALL" => Quiet(State, FALSE)
        BY <1>2 DEF Quiet
      <3> QED
        BY <1>1, <2>1, <3>1, <3>2, QuietNext, CallingNext
    <2>3. CASE ~mMicMute /\ mMode = "IN_CALL"
      <3>1. "VOICE_IN" \in Types /\ Off \in Routes
        BY RouteNames DEF Types
      <3>2. Calling(SetAudioRoute(State, "VOICE_IN", Off))
        BY <1>1, <2>3, <3>1, CallingRoute
      <3> QED
        BY <2>1, <2>3, <3>2, CallingNext
    <2>4. CASE ~mMicMute /\ mMode # "IN_CALL"
      <3>1. Quiet(SetAudioRoute(State, "INPUT", Off), mMicMute')
        BY <1>2, <2>4, QuietMute
      <3> QED
        BY <2>1, <2>4, <3>1, QuietNext
    <2> QED
      BY <2>2, <2>3, <2>4
  <1>13. CASE SetVoiceVolume
    <2>1. mMode = "IN_CALL" /\ mMode' = mMode /\ Install(OutputVolume(State, out.device))
      BY <1>13 DEF SetVoiceVolume
    <2>2. Calling(OutputVolume(State, out.device))
      BY <1>1, <2>1, VolumeIsSet DEF Calling, Owned
    <2> QED
      BY <2>1, <2>2, CallingNext
  <1>14. CASE SetMasterVolume
    <2>1. UNCHANGED <<mMode, mMicMute>> /\ Install(MasterVolume(State))
      BY <1>14 DEF SetMasterVolume
    <2>2. mMode = "IN_CALL" => Calling(MasterVolume(State))
      BY <1>1, VolumeIsSet DEF Calling, Owned
    <2>3. mMode # "IN_CALL" => Quiet(MasterVolume(State), mMicMute)
      BY <1>2, VolumeIsSet DEF Quiet, Owned
    <2> QED
      BY <1>3, <2>1, <2>2, <2>3
  <1>15. CASE UNCHANGED vars
    BY <1>15, SoundStays DEF vars
  <1> QED
    BY <1>4, <1>5, <1>6, <1>7, <1>8, <1>9, <1>10, <1>11, <1>12, <1>13, <1>14, <1>15 DEF Next, SetMode

(* ----- the counts ----- *)

LEMMA OneIsBit == \A b \in BOOLEAN : One(b) \in {0, 1} /\ (One(b) = 1 <=> b)
  BY DEF One

\* What the streams give back is what they are counted for.
LEMMA GivesBack ==
    /\ GiveBack({"out", "in"}).pcm = One(~out.standby)
    /\ GiveBack({"out", "in"}).mixer = One(~out.standby) + One(~in.standby)
    /\ GiveBack({"out"}).pcm = One(~out.standby)
    /\ GiveBack({"out"}).mixer = One(~out.standby) + 0
    /\ GiveBack({"in"}).mixer = 0 + One(~in.standby)
  BY DEF GiveBack, One

\* Giving back what is counted is no close too many.
LEMMA Closes ==
    ASSUME mPcmOpenCnt \in Nat, mMixerOpenCnt \in Nat, closedTwice = FALSE,
           NEW p \in Nat, NEW m \in Nat, p <= mPcmOpenCnt, m <= mMixerOpenCnt, CloseCounts(p, m)
    PROVE  mPcmOpenCnt' = mPcmOpenCnt - p /\ mMixerOpenCnt' = mMixerOpenCnt - m /\ closedTwice' = FALSE
  <1>1. ~(p > mPcmOpenCnt) /\ ~(m > mMixerOpenCnt)
    OBVIOUS
  <1> QED
    BY <1>1 DEF CloseCounts

\* The users of the devices, after the step.
LEMMA CountedNext ==
    ASSUME NEW a \in {0, 1}, NEW b \in {0, 1}, NEW c \in {0, 1}, NEW d \in {0, 1},
           a = One(~out'.standby), b = One(mInCallAudioMode'), c = One(fm'.wanted /\ ~fm'.resume),
           d = One(~in'.standby),
           mPcmOpenCnt' = a + b + c, mMixerOpenCnt' = a + b + c + d, closedTwice' = FALSE,
           mMode' \in Modes, mInCallAudioMode' = (mMode' = "IN_CALL"), mMicMute' \in BOOLEAN,
           out' \in [standby : BOOLEAN, device : OutDevices],
           in' \in [standby : BOOLEAN, device : InDevices],
           fm' \in [open : BOOLEAN, resume : BOOLEAN, wanted : BOOLEAN], dead' \in BOOLEAN,
           fm'.resume => mMode' = "IN_CALL" /\ fm'.wanted
    PROVE  Counted'
  <1>1. mPcmOpenCnt' \in Nat /\ mMixerOpenCnt' \in Nat /\ mMixerOpenCnt' = mPcmOpenCnt' + d
    BY ONLY a \in {0, 1}, b \in {0, 1}, c \in {0, 1}, d \in {0, 1},
            mPcmOpenCnt' = a + b + c, mMixerOpenCnt' = a + b + c + d
  <1> QED
    BY <1>1 DEF Counted, Balanced, Delayed, One

LEMMA CountsStep == ASSUME ~CancelDelayed, Counted, [Next]_vars PROVE Counted'
  <1> DEFINE a == One(~out.standby)
             b == One(mInCallAudioMode)
             c == One(fm.wanted /\ ~fm.resume)
             d == One(~in.standby)
  <1>1. /\ out \in [standby : BOOLEAN, device : OutDevices]
        /\ in \in [standby : BOOLEAN, device : InDevices]
        /\ fm \in [open : BOOLEAN, resume : BOOLEAN, wanted : BOOLEAN]
        /\ mPcmOpenCnt \in Nat /\ mMixerOpenCnt \in Nat /\ closedTwice = FALSE
        /\ mMode \in Modes /\ mMicMute \in BOOLEAN /\ dead \in BOOLEAN
        /\ mInCallAudioMode = (mMode = "IN_CALL")
        /\ fm.resume => mMode = "IN_CALL" /\ fm.wanted
    BY DEF Counted, Delayed, Balanced
  <1>2. /\ out.standby \in BOOLEAN /\ in.standby \in BOOLEAN /\ fm.wanted \in BOOLEAN
        /\ fm.resume \in BOOLEAN /\ fm.open \in BOOLEAN /\ mInCallAudioMode \in BOOLEAN
    BY <1>1
  <1>3. /\ a \in {0, 1} /\ (a = 1 <=> ~out.standby)
        /\ b \in {0, 1} /\ (b = 1 <=> mInCallAudioMode)
        /\ c \in {0, 1} /\ (c = 1 <=> fm.wanted /\ ~fm.resume)
        /\ d \in {0, 1} /\ (d = 1 <=> ~in.standby)
    BY <1>2, OneIsBit
  <1>4. mPcmOpenCnt = a + b + c /\ mMixerOpenCnt = a + b + c + d
    BY <1>3 DEF Counted, Balanced
  <1> HIDE DEF a, b, c, d
  <1> USE DEF counts
  <1>5. ASSUME UNCHANGED <<counts, mMode, mInCallAudioMode, out, in, fm, closedTwice>>,
               mMicMute' \in BOOLEAN, dead' \in BOOLEAN
        PROVE  Counted'
    BY <1>1, <1>3, <1>4, <1>5, CountedNext DEF a, b, c, d
  <1>6. CASE OutLeavesStandby
    <2>1. /\ out.standby /\ out' = [out EXCEPT !.standby = FALSE]
          /\ mPcmOpenCnt' = mPcmOpenCnt + 1 /\ mMixerOpenCnt' = mMixerOpenCnt + 1
          /\ UNCHANGED <<mMode, mInCallAudioMode, mMicMute, in, fm, closedTwice, dead>>
      BY <1>6 DEF OutLeavesStandby
    <2>2. out' \in [standby : BOOLEAN, device : OutDevices] /\ out'.standby = FALSE
      BY <1>1, <2>1
    <2>3. a = 0 /\ mPcmOpenCnt' = 1 + b + c /\ mMixerOpenCnt' = 1 + b + c + d
      BY <1>3, <1>4, <2>1
    <2>4. 1 = One(~out'.standby) /\ b = One(mInCallAudioMode') /\ d = One(~in'.standby)
          /\ c = One(fm'.wanted /\ ~fm'.resume)
      BY <2>1, <2>2 DEF b, c, d, One
    <2> QED
      BY <1>1, <1>3, <2>1, <2>2, <2>3, <2>4, CountedNext
  <1>7. CASE InLeavesStandby
    <2>1. /\ in.standby /\ in' = [in EXCEPT !.standby = FALSE]
          /\ mMixerOpenCnt' = mMixerOpenCnt + 1
          /\ UNCHANGED <<mPcmOpenCnt, mMode, mInCallAudioMode, mMicMute, out, fm, closedTwice, dead>>
      BY <1>7 DEF InLeavesStandby
    <2>2. in' \in [standby : BOOLEAN, device : InDevices] /\ in'.standby = FALSE
      BY <1>1, <2>1
    <2>3. d = 0 /\ mPcmOpenCnt' = a + b + c /\ mMixerOpenCnt' = a + b + c + 1
      BY <1>3, <1>4, <2>1
    <2>4. a = One(~out'.standby) /\ b = One(mInCallAudioMode') /\ 1 = One(~in'.standby)
          /\ c = One(fm'.wanted /\ ~fm'.resume)
      BY <2>1, <2>2 DEF a, b, c, One
    <2> QED
      BY <1>1, <1>3, <2>1, <2>2, <2>3, <2>4, CountedNext
  <1>8. ASSUME NEW dev \in OutDevices, out' = [standby |-> TRUE, device |-> dev],
               CloseCounts(a, a + 0),
               UNCHANGED <<mMode, mInCallAudioMode, mMicMute, in, fm, dead>>
        PROVE  Counted'
    <2>1. out' \in [standby : BOOLEAN, device : OutDevices] /\ out'.standby = TRUE
      BY <1>8
    <2>2. mPcmOpenCnt' = mPcmOpenCnt - a /\ mMixerOpenCnt' = mMixerOpenCnt - (a + 0)
          /\ closedTwice' = FALSE
      <3>1. a \in Nat /\ a + 0 \in Nat /\ a <= mPcmOpenCnt /\ a + 0 <= mMixerOpenCnt
        BY ONLY <1>3, <1>4
      <3> QED
        BY <1>1, <1>8, <3>1, Closes
    <2>3. mPcmOpenCnt' = 0 + b + c /\ mMixerOpenCnt' = 0 + b + c + d
      BY <1>3, <1>4, <2>2
    <2>4. 0 = One(~out'.standby) /\ b = One(mInCallAudioMode') /\ d = One(~in'.standby)
          /\ c = One(fm'.wanted /\ ~fm'.resume)
      BY <1>8, <2>1 DEF b, c, d, One
    <2> QED
      BY <1>1, <1>3, <1>8, <2>1, <2>2, <2>3, <2>4, CountedNext, ZenonT(60)
  <1>9. ASSUME NEW dev \in InDevices, in' = [standby |-> TRUE, device |-> dev],
               CloseCounts(0, 0 + d),
               UNCHANGED <<mMode, mInCallAudioMode, mMicMute, out, fm, dead>>
        PROVE  Counted'
    <2>1. in' \in [standby : BOOLEAN, device : InDevices] /\ in'.standby = TRUE
      BY <1>9
    <2>2. mPcmOpenCnt' = mPcmOpenCnt - 0 /\ mMixerOpenCnt' = mMixerOpenCnt - (0 + d)
          /\ closedTwice' = FALSE
      <3>1. 0 \in Nat /\ 0 + d \in Nat /\ 0 <= mPcmOpenCnt /\ 0 + d <= mMixerOpenCnt
        BY ONLY <1>3, <1>4
      <3> QED
        BY <1>1, <1>9, <3>1, Closes
    <2>3. mPcmOpenCnt' = a + b + c /\ mMixerOpenCnt' = a + b + c + 0
      BY <1>3, <1>4, <2>2
    <2>4. a = One(~out'.standby) /\ b = One(mInCallAudioMode') /\ 0 = One(~in'.standby)
          /\ c = One(fm'.wanted /\ ~fm'.resume)
      BY <1>9, <2>1 DEF a, b, c, One
    <2> QED
      BY <1>1, <1>3, <1>9, <2>1, <2>2, <2>3, <2>4, CountedNext, ZenonT(60)
  <1>10. CASE OutStandby
    <2>1. out' = [standby |-> TRUE, device |-> out.device] /\ out.device \in OutDevices
      BY <1>1, <1>10 DEF OutStandby
    <2>2. a = 1 /\ a + 0 = 1
      BY <1>3, <1>10 DEF OutStandby
    <2> QED
      BY <1>8, <1>10, <2>1, <2>2 DEF OutStandby
  <1>11. CASE InStandby
    <2>1. in' = [standby |-> TRUE, device |-> in.device] /\ in.device \in InDevices
      BY <1>1, <1>11 DEF InStandby
    <2>2. d = 1 /\ 0 + d = 1
      BY <1>3, <1>11 DEF InStandby
    <2> QED
      BY <1>9, <1>11, <2>1, <2>2 DEF InStandby
  <1>12. CASE SetOutDevice
    <2>1. PICK dev \in OutDevices :
            /\ IF mMode = "IN_CALL"
               THEN out' = [out EXCEPT !.device = dev] /\ UNCHANGED <<counts, closedTwice>>
               ELSE /\ out' = [standby |-> TRUE, device |-> dev]
                    /\ CloseCounts(GiveBack({"out"}).pcm, GiveBack({"out"}).mixer)
            /\ UNCHANGED <<mMode, mInCallAudioMode, mMicMute, in, fm, dead>>
      BY <1>12 DEF SetOutDevice
    <2>2. CASE mMode = "IN_CALL"
      <3>1. out' \in [standby : BOOLEAN, device : OutDevices] /\ out'.standby = out.standby
        BY <1>1, <2>1, <2>2
      <3>2. a = One(~out'.standby) /\ b = One(mInCallAudioMode') /\ d = One(~in'.standby)
            /\ c = One(fm'.wanted /\ ~fm'.resume)
        BY <2>1, <2>2, <3>1 DEF a, b, c, d
      <3> QED
        BY <1>1, <1>3, <1>4, <2>1, <2>2, <3>1, <3>2, CountedNext
    <2>3. CASE mMode # "IN_CALL"
      <3>1. CloseCounts(a, a + 0)
        BY <2>1, <2>3, GivesBack DEF a
      <3> QED
        BY <1>8, <2>1, <2>3, <3>1
    <2> QED
      BY <2>2, <2>3
  <1>13. CASE SetInDevice
    <2>1. PICK dev \in InDevices :
            /\ IF mMode = "IN_CALL"
               THEN in' = [in EXCEPT !.device = dev] /\ UNCHANGED <<counts, closedTwice>>
               ELSE in' = [standby |-> TRUE, device |-> dev] /\ CloseCounts(0, GiveBack({"in"}).mixer)
            /\ UNCHANGED <<mMode, mInCallAudioMode, mMicMute, out, fm, dead>>
      BY <1>13 DEF SetInDevice
    <2>2. CASE mMode = "IN_CALL"
      <3>1. in' \in [standby : BOOLEAN, device : InDevices] /\ in'.standby = in.standby
        BY <1>1, <2>1, <2>2
      <3>2. a = One(~out'.standby) /\ b = One(mInCallAudioMode') /\ d = One(~in'.standby)
            /\ c = One(fm'.wanted /\ ~fm'.resume)
        BY <2>1, <2>2, <3>1 DEF a, b, c, d
      <3> QED
        BY <1>1, <1>3, <1>4, <2>1, <2>2, <3>1, <3>2, CountedNext
    <2>3. CASE mMode # "IN_CALL"
      <3>1. CloseCounts(0, 0 + d)
        BY <2>1, <2>3, GivesBack DEF d
      <3> QED
        BY <1>9, <2>1, <2>3, <3>1
    <2> QED
      BY <2>2, <2>3
  <1>14. CASE FmOn
    <2>1. /\ ~fm.wanted /\ UNCHANGED <<mMode, mInCallAudioMode, mMicMute, out, in, closedTwice, dead>>
          /\ a = One(~out'.standby) /\ b = One(mInCallAudioMode') /\ d = One(~in'.standby)
      BY <1>14 DEF FmOn, a, b, d
    <2>2. c = 0
      BY <1>3, <2>1
    <2>3. CASE mMode = "IN_CALL"
      <3>1. fm' = [fm EXCEPT !.wanted = TRUE, !.resume = TRUE] /\ UNCHANGED counts
        BY <1>14, <2>3 DEF FmOn
      <3>2. fm' \in [open : BOOLEAN, resume : BOOLEAN, wanted : BOOLEAN] /\ fm'.wanted /\ fm'.resume
        BY <1>1, <3>1
      <3>3. 0 = One(fm'.wanted /\ ~fm'.resume)
        BY <3>2 DEF One
      <3>4. mPcmOpenCnt' = a + b + 0 /\ mMixerOpenCnt' = a + b + 0 + d
        BY <1>3, <1>4, <2>2, <3>1
      <3> QED
        BY <1>1, <1>3, <2>1, <2>3, <3>2, <3>3, <3>4, CountedNext, ZenonT(60)
    <2>4. CASE mMode # "IN_CALL"
      <3>1. mPcmOpenCnt' = mPcmOpenCnt + 1 /\ mMixerOpenCnt' = mMixerOpenCnt + 1
            /\ \E ok \in BOOLEAN : fm' = [fm EXCEPT !.wanted = TRUE, !.open = @ \/ ok]
        BY <1>14, <2>4 DEF FmOn
      <3>2. fm' \in [open : BOOLEAN, resume : BOOLEAN, wanted : BOOLEAN] /\ fm'.wanted /\ ~fm'.resume
        BY <1>1, <2>4, <3>1
      <3>3. 1 = One(fm'.wanted /\ ~fm'.resume)
        BY <3>2 DEF One
      <3>4. mPcmOpenCnt' = a + b + 1 /\ mMixerOpenCnt' = a + b + 1 + d
        BY <1>3, <1>4, <2>2, <3>1
      <3> QED
        BY <1>1, <1>3, <2>1, <2>4, <3>2, <3>3, <3>4, CountedNext
    <2> QED
      BY <2>3, <2>4
  <1>15. CASE FmOff
    <2>1. /\ fm.wanted /\ ~fm.resume
          /\ fm' = [fm EXCEPT !.wanted = FALSE, !.open = FALSE]
          /\ UNCHANGED <<mMode, mInCallAudioMode, mMicMute, out, in, dead>>
          /\ a = One(~out'.standby) /\ b = One(mInCallAudioMode') /\ d = One(~in'.standby)
      BY <1>15 DEF FmOff, a, b, d
    <2>2. c = 1 /\ MixerOpen
      BY <1>3, <1>4, <2>1 DEF MixerOpen
    <2>3. mPcmOpenCnt' = mPcmOpenCnt - 1 /\ mMixerOpenCnt' = mMixerOpenCnt - 1 /\ closedTwice' = FALSE
      <3>1. 1 \in Nat /\ 1 <= mPcmOpenCnt /\ 1 <= mMixerOpenCnt
        BY ONLY <1>3, <1>4, <2>2
      <3>2. CloseCounts(1, 1)
        BY <1>15, <2>2 DEF FmOff
      <3> QED
        BY <1>1, <3>1, <3>2, Closes
    <2>4. fm' \in [open : BOOLEAN, resume : BOOLEAN, wanted : BOOLEAN] /\ ~fm'.wanted /\ ~fm'.resume
      BY <1>1, <2>1
    <2> DEFINE e == One(fm'.wanted /\ ~fm'.resume)
    <2>5. e = 0
      BY <2>4 DEF One
    <2> HIDE DEF e
    <2>6. /\ mPcmOpenCnt' = a + b + e /\ mMixerOpenCnt' = a + b + e + d
          /\ e \in {0, 1} /\ e = One(fm'.wanted /\ ~fm'.resume)
      <3>1. mPcmOpenCnt' = a + b + e /\ mMixerOpenCnt' = a + b + e + d /\ e \in {0, 1}
        BY ONLY <1>3, <1>4, <2>2, <2>3, <2>5
      <3> QED
        BY <3>1 DEF e
    <2>7. fm'.resume => mMode' = "IN_CALL" /\ fm'.wanted
      BY <2>4
    <2>8. mMode' \in Modes /\ mInCallAudioMode' = (mMode' = "IN_CALL") /\ mMicMute' \in BOOLEAN
          /\ out' \in [standby : BOOLEAN, device : OutDevices]
          /\ in' \in [standby : BOOLEAN, device : InDevices] /\ dead' \in BOOLEAN
      BY <1>1, <2>1
    <2> QED
      BY <1>3, <2>1, <2>3, <2>4, <2>5, <2>6, <2>7, <2>8, CountedNext
  <1>16. ASSUME out' = [out EXCEPT !.standby = TRUE], in' = [in EXCEPT !.standby = TRUE]
         PROVE  /\ out' \in [standby : BOOLEAN, device : OutDevices] /\ 0 = One(~out'.standby)
                /\ in' \in [standby : BOOLEAN, device : InDevices] /\ 0 = One(~in'.standby)
    BY <1>1, <1>16 DEF One
  <1>17. CASE EnterCall
    <2>1. /\ mMode # "IN_CALL" /\ mMode' = "IN_CALL" /\ mInCallAudioMode' = TRUE
          /\ out' = [out EXCEPT !.standby = TRUE] /\ in' = [in EXCEPT !.standby = TRUE]
          /\ mPcmOpenCnt' = mPcmOpenCnt - GiveBack({"out", "in"}).pcm + 1
          /\ mMixerOpenCnt' = mMixerOpenCnt - GiveBack({"out", "in"}).mixer + 1
          /\ UNCHANGED <<mMicMute, fm, closedTwice, dead>>
      BY <1>17 DEF EnterCall
    <2>2. mPcmOpenCnt' = mPcmOpenCnt - a + 1 /\ mMixerOpenCnt' = mMixerOpenCnt - (a + d) + 1
      BY <2>1, GivesBack DEF a, d
    <2>3. b = 0
      BY <1>1, <1>3, <2>1
    <2>4. mPcmOpenCnt' = 0 + 1 + c /\ mMixerOpenCnt' = 0 + 1 + c + 0
      BY ONLY <1>3, <1>4, <2>2, <2>3
    <2>5. 1 = One(mInCallAudioMode') /\ c = One(fm'.wanted /\ ~fm'.resume)
      BY <2>1 DEF One, c
    <2> QED
      BY <1>1, <1>3, <1>16, <2>1, <2>4, <2>5, CountedNext DEF Modes
  <1>18. ASSUME NEW mode \in {"NORMAL", "RINGTONE"}, LeaveCall(mode) PROVE Counted'
    <2> DEFINE r == IF fm.resume THEN 1 ELSE 0
               pcm == Less(mPcmOpenCnt)
               mixer == Less(mMixerOpenCnt)
    <2>1. /\ mMode = "IN_CALL" /\ mMode' = mode /\ mInCallAudioMode' = FALSE
          /\ out' = [out EXCEPT !.standby = TRUE] /\ in' = [in EXCEPT !.standby = TRUE]
          /\ UNCHANGED <<mMicMute, dead>>
          /\ \E ok \in BOOLEAN :
                fm' = IF fm.resume THEN [fm EXCEPT !.resume = FALSE, !.open = @ \/ ok] ELSE fm
      BY <1>18 DEF LeaveCall
    <2>2. /\ mPcmOpenCnt' = (IF a > pcm THEN 0 ELSE pcm - a) + r
          /\ mMixerOpenCnt' = (IF a + d > mixer THEN 0 ELSE mixer - (a + d)) + r
          /\ closedTwice' = (closedTwice \/ mPcmOpenCnt < 1 + a \/ mMixerOpenCnt < 1 + (a + d))
      BY <1>18, GivesBack DEF LeaveCall, a, d
    <2>3. b = 1
      BY <1>1, <1>3, <2>1
    <2>4. pcm = a + c /\ mixer = a + c + d
      BY <1>3, <1>4, <2>3 DEF Less
    <2>5. r \in {0, 1} /\ (r = 1 <=> fm.resume)
      OBVIOUS
    <2> HIDE DEF r, pcm, mixer
    <2>6. mPcmOpenCnt' = c + r /\ mMixerOpenCnt' = c + r
      BY ONLY <1>3, <2>2, <2>4, <2>5
    <2>7. closedTwice' = FALSE
      <3>1. ~(mPcmOpenCnt < 1 + a) /\ ~(mMixerOpenCnt < 1 + (a + d))
        BY ONLY <1>3, <1>4, <2>3
      <3> QED
        BY <1>1, <2>2, <3>1
    <2>8. fm' \in [open : BOOLEAN, resume : BOOLEAN, wanted : BOOLEAN]
          /\ fm'.wanted = fm.wanted /\ ~fm'.resume
      BY <1>1, <2>1
    <2>9. c + r = One(fm'.wanted /\ ~fm'.resume) /\ c + r \in {0, 1}
      <3>1. CASE fm.resume
        <4>1. fm'.wanted /\ c = 0 /\ r = 1
          BY <1>1, <1>3, <2>5, <2>8, <3>1
        <4> QED
          BY <2>8, <4>1 DEF One
      <3>2. CASE ~fm.resume
        <4>1. r = 0 /\ (c = 1 <=> fm'.wanted)
          BY <1>3, <2>5, <2>8, <3>2
        <4> QED
          BY <1>3, <2>8, <4>1 DEF One
      <3> QED
        BY <3>1, <3>2
    <2> DEFINE e == c + r
    <2>10. /\ mPcmOpenCnt' = 0 + 0 + e /\ mMixerOpenCnt' = 0 + 0 + e + 0
           /\ e \in {0, 1} /\ e = One(fm'.wanted /\ ~fm'.resume)
      BY <2>6, <2>9
    <2>11. 0 = One(mInCallAudioMode') /\ mMode' \in Modes /\ mMode' # "IN_CALL"
      BY <2>1 DEF One, Modes
    <2> HIDE DEF e
    <2> QED
      BY <1>1, <1>16, <2>1, <2>7, <2>8, <2>10, <2>11, CountedNext, ZenonT(60)
  <1>19. CASE \E mode \in {"NORMAL", "RINGTONE"} \ {mMode} :
                  /\ ~dead /\ mMode # "IN_CALL" /\ mMode' = mode
                  /\ UNCHANGED <<codec, mRoute, counts, mInCallAudioMode, mMicMute, out, in, fm,
                                 closedTwice, dead>>
    <2>1. /\ mMode' \in Modes /\ mMode # "IN_CALL" /\ mMode' # "IN_CALL"
          /\ UNCHANGED <<counts, mInCallAudioMode, mMicMute, out, in, fm, closedTwice, dead>>
      BY <1>19 DEF Modes
    <2>2. a = One(~out'.standby) /\ b = One(mInCallAudioMode') /\ d = One(~in'.standby)
          /\ c = One(fm'.wanted /\ ~fm'.resume)
      BY <2>1 DEF a, b, c, d
    <2> QED
      BY <1>1, <1>3, <1>4, <2>1, <2>2, CountedNext
  <1>20. CASE SetMicMute
    BY <1>1, <1>5, <1>20 DEF SetMicMute
  <1>21. CASE SetVoiceVolume \/ SetMasterVolume
    BY <1>1, <1>5, <1>21 DEF SetVoiceVolume, SetMasterVolume
  <1>22. CASE UNCHANGED vars
    BY <1>1, <1>5, <1>22 DEF vars
  <1> QED
    BY <1>6, <1>7, <1>10, <1>11, <1>12, <1>13, <1>14, <1>15, <1>17, <1>18, <1>19, <1>20, <1>21,
       <1>22 DEF Next, SetMode

(* ----- the theorems ----- *)

LEMMA Starts == Init => IInv
  <1> SUFFICES ASSUME Init PROVE Sound /\ Counted
    BY TwoHalves
  <1>1. mMode = "NORMAL" /\ mRoute \in [Types -> Routes]
    BY DEF Init, Routes
  <1>2. codec \in Codecs /\ codec.on = {} /\ codec.playback = "master"
    BY DEF Init, Codecs
  <1>3. Quiet(State, mMicMute)
    BY <1>1, <1>2 DEF Quiet, State, States, Owned
  <1>4. Counted
    <2>1. /\ mPcmOpenCnt = 0 /\ mMixerOpenCnt = 0 /\ mMode = "NORMAL" /\ mInCallAudioMode = FALSE
          /\ mMicMute = FALSE /\ closedTwice = FALSE /\ dead = FALSE
          /\ out \in [standby : BOOLEAN, device : OutDevices] /\ out.standby = TRUE
          /\ in \in [standby : BOOLEAN, device : InDevices] /\ in.standby = TRUE
          /\ fm \in [open : BOOLEAN, resume : BOOLEAN, wanted : BOOLEAN]
          /\ fm.wanted = FALSE /\ fm.resume = FALSE
      BY DEF Init
    <2>2. mInCallAudioMode = (mMode = "IN_CALL")
      BY <2>1
    <2>3. /\ One(~out.standby) = 0 /\ One(mInCallAudioMode) = 0
          /\ One(fm.wanted /\ ~fm.resume) = 0 /\ One(~in.standby) = 0
      BY <2>1 DEF One
    <2>4. Balanced
      BY <2>1, <2>2, <2>3 DEF Balanced
    <2> QED
      BY <2>1, <2>4 DEF Counted, Modes, Delayed
  <1> QED
    BY <1>1, <1>3, <1>4 DEF Sound

\* The inductive invariant, of clients that do not turn the radio off while its start
\* is delayed.
THEOREM Invariant == ASSUME ~CancelDelayed PROVE Spec => []IInv
  <1>1. IInv /\ [Next]_vars => IInv'
    <2>1. IInv <=> Sound /\ Counted
      BY TwoHalves
    <2>2. (IInv <=> Sound /\ Counted)'
      BY TwoHalves, PTL
    <2> QED
      BY <2>1, <2>2, RoutesStep, CountsStep
  <1> QED
    BY <1>1, Starts, PTL DEF Spec

\* openPcmOut_l, openMixer_l and their closes balance: each device is open exactly
\* as often as there are users of it, and none is closed at a count of 0.
THEOREM CountsBalance == ASSUME ~CancelDelayed PROVE Spec => []Balanced
  <1>1. IInv => Balanced
    BY DEF IInv
  <1> QED
    BY <1>1, Invariant, PTL

\* setMicMute holds: no call of a stream, of setMode or of the radio turns a muted
\* microphone on again outside of a call.
THEOREM MuteHolds == ASSUME ~CancelDelayed PROVE Spec => []MuteIsOff
  <1>1. IInv => MuteIsOff
    BY DEF IInv
  <1> QED
    BY <1>1, Invariant, PTL

\* setMode takes back what a call has set up, whatever happened in it.
THEOREM CallIsOver == ASSUME ~CancelDelayed PROVE Spec => []CallLeavesNothing
  <1>1. IInv => CallLeavesNothing
    BY DEF IInv
  <1> QED
    BY <1>1, Invariant, PTL
=============================================================================
