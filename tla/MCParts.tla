------------------------------ MODULE MCParts -------------------------------
(* Instances of the parts for TLC. *)
EXTENDS Parts

\* Requests of less than a page, of a page, and of more.
MCSizes == {1, 2, 4, 5, 6}

\* What the callers of pcm_open want: playback, capture, and the smallest and
\* the largest periods.
MCOpens ==
    {[in |-> in, mono |-> mono, mult |-> 8, cnt |-> 4] : in \in BOOLEAN, mono \in BOOLEAN}
    \cup {[in |-> in, mono |-> TRUE, mult |-> 1, cnt |-> 2] : in \in BOOLEAN}
    \cup {[in |-> FALSE, mono |-> FALSE, mult |-> 16, cnt |-> 17]}

\* The rates of the list, those outside it and in the middle between two.
MCRates == {8000, 11025, 16000, 22050, 44100, 4000, 9500, 9513, 13512, 13513, 19000, 48000}

\* One parameter, with the values that make a difference and one that is not
\* supported, or a scene together with what it overrules.
MCChanges ==
    {{<<"previewSize", "352x288">>}, {<<"previewSize", "800x600">>},
     {<<"previewFormat", "yuv420sp">>},
     {<<"pictureSize", "640x480">>}, {<<"pictureSize", "invalid">>},
     {<<"pictureFormat", "rgb565">>}, {<<"pictureFormat", "png">>},
     {<<"quality", 50>>}, {<<"quality", 0>>}, {<<"thumbnail", "0x0">>},
     {<<"rotation", 90>>}, {<<"rotation", -1>>}, {<<"exposure", 2>>}, {<<"exposure", 5>>},
     {<<"whitebalance", "auto">>}, {<<"whitebalance", "daylight">>},
     {<<"whitebalance", "twilight">>},
     {<<"scene", "auto">>}, {<<"scene", "candlelight">>}, {<<"scene", "theatre">>},
     {<<"scene", "night">>, <<"fps", "4000,30000">>},
     {<<"scene", "night">>, <<"exposure", 2>>},
     {<<"effect", "mono">>}, {<<"effect", "none">>}, {<<"effect", "posterize">>}}
MCRefusals == {{}, {"COLORFX"}, {"BRIGHTNESS", "AUTO_WB"}}

\* Copies without and with scaling, quarter turns, sources off their corner, and
\* calls that are refused.
MCImage(w, h) == [w |-> w, h |-> h]
MCRect(l, t, r, b) == [l |-> l, t |-> t, r |-> r, b |-> b]
MCCalls ==
    {[op |-> "stretch", dst |-> MCImage(8, 6), src |-> MCImage(8, 8),
      dst_rect |-> MCRect(1, 1, 5, 3), src_rect |-> s, format |-> TRUE] :
        s \in {MCRect(0, 0, 4, 2), MCRect(0, 0, 2, 4), MCRect(0, 0, 2, 1),
              MCRect(0, 0, 8, 4), MCRect(2, 1, 6, 3), MCRect(0, 0, 9, 2)}}
    \cup {[op |-> "blit", dst |-> MCImage(4, 2), src |-> MCImage(w, 6 - w),
           dst_rect |-> MCRect(0, 0, 4, 2), src_rect |-> MCRect(0, 0, w, 6 - w),
           format |-> f] : w \in {2, 4}, f \in BOOLEAN}
MCRegions ==
    {<<MCRect(0, 0, 8, 6)>>, <<MCRect(0, 0, 3, 2), MCRect(3, 1, 5, 3)>>,
     <<MCRect(1, 1, 2, 2)>>}
=============================================================================
