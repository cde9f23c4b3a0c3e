--------------------------- MODULE CameraSettings ---------------------------
(***************************************************************************)
(* libcamera: what setParameters of V4L2CameraHardware keeps in            *)
(* mParameters, what it stores in V4L2Camera and what it sets in the       *)
(* sensor.  The camera service lets in one call at a time.                 *)
(*                                                                         *)
(* A client changes some of the parameters it got.  A parameter is what    *)
(* its string says: a name, a number, a size by its name.                  *)
(*                                                                         *)
(* External: the sensor, which may refuse any control; takePicture and its *)
(* thread, which CameraHardware models; the frames of the preview.         *)
(***************************************************************************)
EXTENDS Integers

CONSTANTS
    Changes,    \* sets of <<key, value>>: what a client changes in one call
    Refusals,   \* sets of controls: what the sensor refuses in one call
    MaxCalls    \* bound on the calls of a client

(* The tables of the two files *)

V4L2Format ==
    [yuv420sp |-> "NV21", yuv420p |-> "YUV420", yuv422i |-> "YUYV",
     rgb565 |-> "RGB565", jpeg |-> "YUYV", yuv422p |-> "YUV422P",
     uyv422i_custom |-> "UYVY", uyv422i |-> "UYVY", yvu420 |-> "YVU420"]
V4L2WhiteBalance ==
    [daylight |-> 0, cloudy |-> 1, incandescent |-> 2, fluorescent |-> 3]
V4L2SceneMode ==
    [auto |-> "NONE", portrait |-> "PORTRAIT", landscape |-> "LANDSCAPE",
     sports |-> "SPORTS", party |-> "PARTY_INDOOR", beach |-> "BEACH_SNOW",
     snow |-> "BEACH_SNOW", sunset |-> "SUNSET_CANDLE", night |-> "NIGHTSHOT",
     fireworks |-> "FIREWORKS", candlelight |-> "SUNSET_CANDLE"]
V4L2Effect ==
    [none |-> 0, mono |-> 1, sepia |-> 2, negative |-> 3, aqua |-> 6]

SupportedPreviewSizes == {"1024x768", "640x480", "352x288", "176x144"}
EFFECT_SKIP_FRAME == 1

\* A scene is a list of controls with their values.
Preset(iso, brightness, saturation, sharpness, glamour, auto_wb, metering) ==
    [ISO |-> iso, BRIGHTNESS |-> brightness, SATURATION |-> saturation,
     SHARPNESS |-> sharpness, GLAMOUR |-> glamour, AUTO_WB |-> auto_wb,
     METERING |-> metering]
And(preset, c, value) ==
    [x \in DOMAIN preset \cup {c} |-> IF x = c THEN value ELSE preset[x]]
sceneTable ==
    [NONE          |-> And(Preset(0, 0, 0, 0, 0, 1, 0), "NIGHTSHOT", 0),
     PORTRAIT      |-> Preset(1, 0, 0, -1, 1, 1, 0),
     LANDSCAPE     |-> Preset(1, 0, 1, 1, -1, 1, 2),
     SPORTS        |-> Preset(6, 0, 0, 0, 0, 1, 0),
     PARTY_INDOOR  |-> Preset(1, 0, 1, 0, 0, 1, 0),
     BEACH_SNOW    |-> Preset(1, 1, 1, 0, 0, 1, 0),
     SUNSET_CANDLE |-> And(Preset(1, 0, 0, 0, 0, 0, 0), "WB_PRESET", 0),
     NIGHTSHOT     |-> And(Preset(5, 0, 4, 0, 0, 1, 0), "NIGHTSHOT", 1),
     FIREWORKS     |-> Preset(5, 0, 4, 0, 0, 1, 0)]

Control ==
    {"FRAME_RATE", "AUTO_WB", "WB_PRESET", "BRIGHTNESS", "COLORFX", "ISO",
     "CONTRAST", "SATURATION", "SHARPNESS", "GLAMOUR", "METERING", "NIGHTSHOT",
     "FOCUS_MODE"}
\* These stay in V4L2Camera.
Internal == {"JPEG_QUALITY", "EXIF_ORIENTATION", "SCENE_MODE"}

RefusalsAssumption == Refusals \subseteq SUBSET Control
MaxCallsAssumption == MaxCalls \in Nat

VARIABLES
    mParameters,
    camera,     \* V4L2Camera: sizes and formats
    control,    \* the sensor's controls and the internal ones
    mSkipFrame,
    mCaptureInProgress,
    calls,      \* calls left
    asked,      \* history: the parameters of the last call that was let in,
    refused,    \* and what the sensor refused of it
    ret         \* what the last call returned; "none" before the first

settingVars == <<mParameters, camera, control, mSkipFrame, mCaptureInProgress,
                 calls, asked, refused, ret>>

-----------------------------------------------------------------------------
(* V4L2Camera *)

\* NV21 is made from YUV420 in software.
RealFormat(format) == IF format = "NV21" THEN "YUV420" ELSE format

setPreviewSize(cam, size, format) ==
    [cam EXCEPT !.previewSize = size, !.previewFormat = RealFormat(format),
                !.previewTargetFormat = format]
setSnapshotPixelFormat(cam, format) ==
    [cam EXCEPT !.snapshotFormat = RealFormat(format),
                !.snapshotTargetFormat = format]
setSnapshotSize(cam, size) == [cam EXCEPT !.snapshotSize = size]
setJpegThumbnailSize(cam, size) == [cam EXCEPT !.thumbnail = size]

setControl(values, c, value, no) ==
    IF c \in no THEN values ELSE [values EXCEPT ![c] = value]

\* What the sensor refuses of a scene goes unnoticed.
setSceneMode(values, scene, no) ==
    LET list == sceneTable[scene] IN
    [c \in DOMAIN values |->
        IF c = "SCENE_MODE" THEN scene
        ELSE IF c \in DOMAIN list \ no THEN list[c] ELSE values[c]]

-----------------------------------------------------------------------------
(* setParameters, in its order.  A section gets what the ones before it made *)
(* of s: the parameters p, the camera, the controls, the frames to skip, and *)
(* whether all went well.                                                    *)

Failed(s) == [s EXCEPT !.ok = FALSE]

\* The preview format is kept as it was asked for, and is RGB565 in the camera,
\* for pictures too.
setPreviewFormat(s, q) ==
    [s EXCEPT !.cam = setPreviewSize(setSnapshotPixelFormat(@, "RGB565"),
                                     q.previewSize, "RGB565"),
              !.p = [@ EXCEPT !.previewSize = q.previewSize,
                              !.previewFormat = q.previewFormat]]

Preview(s, q) ==
    IF q.previewSize \in SupportedPreviewSizes THEN setPreviewFormat(s, q) ELSE Failed(s)

PictureSize(s, q) ==
    IF q.pictureSize = "invalid" THEN s
    ELSE [s EXCEPT !.cam = setSnapshotSize(@, q.pictureSize),
                   !.p.pictureSize = q.pictureSize]

PictureFormat(s, q) ==
    LET known == q.pictureFormat \in DOMAIN V4L2Format
    IN [s EXCEPT !.cam = setSnapshotPixelFormat(@,
                             IF known THEN V4L2Format[q.pictureFormat] ELSE "RGB565"),
                 !.p.pictureFormat = q.pictureFormat]

\* A parameter with a control of its own: kept if the control was set.
Section(s, key, value, c, v, no) ==
    [s EXCEPT !.values = setControl(@, c, v, no),
              !.p[key] = IF c \in no THEN @ ELSE value,
              !.ok = @ /\ c \notin no]

\* Values out of range are ignored without an error.
Jpeg(s, q) ==
    LET t == IF q.quality \in 1..100
             THEN Section(s, "quality", q.quality, "JPEG_QUALITY", q.quality, {})
             ELSE s
    IN IF q.thumbnail = "invalid" THEN t
       ELSE [t EXCEPT !.cam = setJpegThumbnailSize(@, q.thumbnail),
                      !.p.thumbnail = q.thumbnail]

Rotation(s, q) ==
    IF q.rotation < 0 THEN s
    ELSE Section(s, "rotation", q.rotation, "EXIF_ORIENTATION", q.rotation, {})

Brightness(s, q, no) ==
    IF q.exposure \in -4..4
    THEN Section(s, "exposure", q.exposure, "BRIGHTNESS", q.exposure, no)
    ELSE s

\* A fixed white balance is kept; "auto" never is.
WhiteBalance(s, q, no) ==
    LET auto == q.whitebalance = "auto"
        t == [s EXCEPT !.values = setControl(@, "AUTO_WB", IF auto THEN 1 ELSE 0, no),
                       !.ok = @ /\ "AUTO_WB" \notin no]
    IN IF auto THEN t
       ELSE IF q.whitebalance \notin DOMAIN V4L2WhiteBalance THEN Failed(t)
       ELSE Section(t, "whitebalance", q.whitebalance, "WB_PRESET",
                    V4L2WhiteBalance[q.whitebalance], no)

\* The range is the scene's.  Another one is an error only if the scene stays.
FpsRange(s, q) ==
    IF q.scene = s.p.scene /\ q.fps # s.p.fps THEN Failed(s) ELSE s

\* The focus mode that was asked for is not looked at, and the range is reset
\* for an unknown scene too, which keeps the old one.
Scene(s, q, no) ==
    LET known == q.scene \in DOMAIN V4L2SceneMode
        scene == IF known THEN V4L2SceneMode[q.scene] ELSE "unknown"
        t == [s EXCEPT !.p.fps = IF scene = "NIGHTSHOT" THEN "4000,30000" ELSE "15000,30000",
                       !.ok = @ /\ known]
        f == IF scene = "NONE" THEN t
             ELSE Section(t, "focus", "auto", "FOCUS_MODE", 0, no)
    IN IF known
       THEN [f EXCEPT !.values = setSceneMode(@, scene, no), !.p.scene = q.scene]
       ELSE f

setSkipFrame(s, frame) == [s EXCEPT !.skip = IF frame < @ THEN @ ELSE frame]

\* Mutant: an effect that is unknown, or refused, is no error.
EffectSilent(s, q, no) ==
    IF q.effect \notin DOMAIN V4L2Effect THEN s
    ELSE [Section(s, "effect", q.effect, "COLORFX", V4L2Effect[q.effect], no)
             EXCEPT !.ok = s.ok]

Effect(s, q, no) ==
    IF q.effect \notin DOMAIN V4L2Effect THEN Failed(s)
    ELSE LET t == IF "COLORFX" \notin no /\ q.effect # s.p.effect
                  THEN setSkipFrame(s, EFFECT_SKIP_FRAME) ELSE s
         IN Section(t, "effect", q.effect, "COLORFX", V4L2Effect[q.effect], no)

\* Mutant: the picture before the preview.
SectionsPictureFirst(s, q, no) ==
    LET preview == Preview(PictureFormat(PictureSize(s, q), q), q)
        exif    == Rotation(Jpeg(preview, q), q)
        light   == WhiteBalance(Brightness(exif, q, no), q, no)
    IN Effect(Scene(FpsRange(light, q), q, no), q, no)

\* Mutant: the scene before the controls it sets.
SectionsSceneFirst(s, q, no) ==
    LET preview == Preview(Scene(FpsRange(s, q), q, no), q)
        picture == PictureFormat(PictureSize(preview, q), q)
        exif    == Rotation(Jpeg(picture, q), q)
    IN Effect(WhiteBalance(Brightness(exif, q, no), q, no), q, no)

Sections(s, q, no) ==
    LET preview == Preview(s, q)
        picture == PictureFormat(PictureSize(preview, q), q)
        exif    == Rotation(Jpeg(picture, q), q)
        light   == WhiteBalance(Brightness(exif, q, no), q, no)
    IN Effect(Scene(FpsRange(light, q), q, no), q, no)

setParameters(q, no) ==
    IF mCaptureInProgress
    THEN /\ ret' = "error"
         /\ UNCHANGED <<mParameters, camera, control, mSkipFrame, asked, refused>>
    ELSE LET s == Sections([p |-> mParameters, cam |-> camera, values |-> control,
                            skip |-> mSkipFrame, ok |-> TRUE], q, no)
         IN /\ mParameters' = s.p /\ camera' = s.cam /\ control' = s.values
            /\ mSkipFrame' = s.skip
            /\ ret' = IF s.ok THEN "ok" ELSE "error"
            /\ asked' = q /\ refused' = no

-----------------------------------------------------------------------------

Defaults ==
    [previewSize |-> "640x480", previewFormat |-> "rgb565",
     pictureSize |-> "2048x1536", pictureFormat |-> "jpeg",
     quality |-> 100, thumbnail |-> "320x240", rotation |-> 0, exposure |-> 0,
     whitebalance |-> "auto", scene |-> "auto", focus |-> "auto",
     fps |-> "15000,30000", effect |-> "none"]

\* The constructor of V4L2Camera, the sensor after power-up, and the first
\* parameters of the HAL, which are set from themselves.
Init ==
    /\ mParameters = Defaults
    /\ camera = [previewSize |-> "640x480", previewFormat |-> "YUV420",
                 previewTargetFormat |-> "NV21", snapshotFormat |-> "YUYV",
                 snapshotTargetFormat |-> "YUYV", snapshotSize |-> "2048x1536",
                 thumbnail |-> "320x240"]
    /\ control = [c \in Control \cup Internal |->
                      CASE c = "SCENE_MODE" -> "unset" [] c \in Control -> 0 [] OTHER -> -1]
    /\ mSkipFrame = 0 /\ mCaptureInProgress = FALSE
    /\ calls = MaxCalls
    /\ asked = Defaults /\ refused = {} /\ ret = "none"

Request(changes) ==
    [key \in DOMAIN mParameters |->
        IF \E v \in changes : v[1] = key
        THEN (CHOOSE v \in changes : v[1] = key)[2] ELSE mParameters[key]]

\* What it sets after setParameters is what the scene "auto" has just set, but
\* for CONTRAST and FRAME_RATE.
initDefaultParameters ==
    /\ ret = "none"
    /\ \E no \in Refusals : setParameters(mParameters, no)
    /\ UNCHANGED <<mCaptureInProgress, calls>>

Set ==
    /\ ret # "none" /\ calls > 0
    /\ calls' = calls - 1
    /\ \E changes \in Changes, no \in Refusals : setParameters(Request(changes), no)
    /\ UNCHANGED mCaptureInProgress

TakePicture ==
    /\ ret # "none"
    /\ mCaptureInProgress' = ~mCaptureInProgress
    /\ UNCHANGED <<mParameters, camera, control, mSkipFrame, calls, asked, refused, ret>>

Frame ==
    /\ mSkipFrame > 0
    /\ mSkipFrame' = mSkipFrame - 1
    /\ UNCHANGED <<mParameters, camera, control, mCaptureInProgress, calls,
                   asked, refused, ret>>

Next == initDefaultParameters \/ Set \/ TakePicture \/ Frame

Spec == Init /\ [][Next]_settingVars

-----------------------------------------------------------------------------

\* Of the sizes, the thumbnail, the picture format, the quality, the rotation and
\* the effect, what mParameters says is what the camera and the sensor have,
\* whatever was refused in whatever order, and although a change of the preview
\* also changes the format of pictures.  Nothing is said here of the exposure and
\* the white balance (see SettingsReachDevice), nor of the preview format, which
\* is stored as any name while the camera has RGB565.
DeviceAgrees ==
    ret # "none" =>
        /\ camera.previewSize = mParameters.previewSize
        /\ camera.snapshotSize = mParameters.pictureSize
        /\ camera.thumbnail = mParameters.thumbnail
        /\ camera.snapshotTargetFormat =
               IF mParameters.pictureFormat \in DOMAIN V4L2Format
               THEN V4L2Format[mParameters.pictureFormat] ELSE "RGB565"
        /\ control["JPEG_QUALITY"] = mParameters.quality
        /\ control["EXIF_ORIENTATION"] = mParameters.rotation
        /\ control["COLORFX"] = V4L2Effect[mParameters.effect]

\* After a call with a scene that exists, the controls of that scene have its
\* values but for those the sensor refused, and those of earlier scenes do not
\* outlast it: the sections before it in the call leave nothing in them.  In
\* "auto" the exposure and the white balance are left to SettingsReachDevice.
SceneInSensor ==
    ret # "none" /\ asked.scene \in DOMAIN V4L2SceneMode =>
        LET list   == sceneTable[V4L2SceneMode[asked.scene]]
            asking == IF asked.scene = "auto" THEN {"BRIGHTNESS", "AUTO_WB"} ELSE {}
        IN \A c \in DOMAIN list \ (refused \cup asking) : control[c] = list[c]

\* Values that are out of range, which are left as they are without an error,
\* parameters that only the scene sets, and the white balance "auto", which is
\* set and not kept.
Ignored(key, value) ==
    \/ key \in {"pictureSize", "thumbnail"} /\ value = "invalid"
    \/ key = "quality" /\ value \notin 1..100
    \/ key = "rotation" /\ value < 0
    \/ key = "exposure" /\ value \notin -4..4
    \/ key \in {"focus", "fps"}
    \/ key = "whitebalance" /\ value = "auto"

\* A call that reports no error leaves every parameter as it was asked for, but
\* for the keys and values of Ignored.
AcceptedIsKept ==
    ret = "ok" =>
        \A key \in DOMAIN mParameters :
            ~Ignored(key, asked[key]) => mParameters[key] = asked[key]

\* "make sure mV4L2Camera has all the settings we do": after a call without an
\* error, in the scene "auto", the sensor has the exposure compensation and the
\* fixed white balance that mParameters has.
SettingsReachDevice ==
    ret = "ok" /\ refused = {} /\ mParameters.scene = "auto" =>
        /\ control["BRIGHTNESS"] = mParameters.exposure
        /\ mParameters.whitebalance # "auto" =>
               /\ control["AUTO_WB"] = 0
               /\ control["WB_PRESET"] = V4L2WhiteBalance[mParameters.whitebalance]

-----------------------------------------------------------------------------
(* The inductive invariant. *)

Keys == DOMAIN Defaults
Fields ==
    {"previewSize", "previewFormat", "previewTargetFormat", "snapshotFormat",
     "snapshotTargetFormat", "snapshotSize", "thumbnail"}

\* What has to agree with the device before the first call as well.
Agrees ==
    /\ camera.previewSize = mParameters.previewSize
    /\ camera.snapshotSize = mParameters.pictureSize
    /\ camera.thumbnail = mParameters.thumbnail
    /\ mParameters.effect \in DOMAIN V4L2Effect
    /\ control["COLORFX"] = V4L2Effect[mParameters.effect]

IInv ==
    /\ DOMAIN mParameters = Keys /\ DOMAIN camera = Fields
    /\ DOMAIN control = Control \cup Internal
    /\ ret = "none" => mParameters = Defaults /\ mCaptureInProgress = FALSE
    /\ Agrees /\ DeviceAgrees /\ SceneInSensor /\ AcceptedIsKept
=============================================================================
