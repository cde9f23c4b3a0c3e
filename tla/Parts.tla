------------------------------- MODULE Parts --------------------------------
(***************************************************************************)
(* The parts that work on their own, in one specification: each behaviour  *)
(* is one of them, chosen at the start.  The parts take turns in the same  *)
(* variables s1, s2, ..., which each of them names in its own way; those   *)
(* of Allocator, which this module extends, are its own.                   *)
(***************************************************************************)
EXTENDS Allocator

CONSTANTS
    Opens, MaxUnderruns,                    \* of Pcm
    Period, Rates, MaxPeriods,              \* of DownSampler
    Fd, None, AxisReading, Axes, MaxQueue,  \* of Sensors
    MaxFds,                                 \* of SensorsControl
    SampleReading,                          \* of SensorsData
    Page, Regular, NoBuffer, Depths, ScreenFaults,  \* of FbPost
    LightThread, NoThread, Level,           \* of Lights
    Changes, Refusals, MaxCalls,            \* of CameraSettings
    NodeFaults,                             \* of CaptureNode
    EncoderFaults, Lengths,                 \* of JpegEncoder
    Calls, Regions                          \* of Copybit

VARIABLES part, s1, s2, s3, s4, s5, s6, s7, s8, s9, s10, s11, s12, s13

state == <<s1, s2, s3, s4, s5, s6, s7, s8, s9, s10, s11, s12, s13>>
partsVars == <<part, vars, state>>

Transfer == INSTANCE Pcm WITH
    want <- s1, flags <- s2, fd <- s3,
    running <- s4, underruns <- s5, buffer_size <- s6, call <- s7,
    ret <- s8, drv <- s9, hw <- s10, moved <- s11

Capture == INSTANCE DownSampler WITH
    rate <- s1,
    channels <- s2, pc <- s3, mInPcmInBuf <- s4, in <- s5, mOutBufPos <- s6,
    mInOutBuf <- s7, remaining <- s8, extent <- s9, captured <- s10,
    got <- s11, delivered <- s12, outBase <- s13

Accelerometer == INSTANCE Sensors WITH
    Reading <- AxisReading, Axis <- Axes, sFD <- s1, old <- s2, state <- s3, data <- s4, has <- s5,
    pc <- s6, got <- s7, pos <- s8, fds <- s9, answer <- s10, shown <- s11

Switches == INSTANCE SensorsControl WITH
    akmd_fd <- s1, active_sensors <- s2, flags <- s3,
    power <- s4, inputs <- s5

Samples == INSTANCE SensorsData WITH
    Reading <- SampleReading, polling <- s1, opened <- s2, sensorA <- s3,
    sensorO <- s4, old <- s5, pendingSensors <- s6, new_sensors <- s7,
    woken <- s8, seen <- s9, due <- s10, answer <- s11, pair <- s12

Screen == INSTANCE FbPost WITH
    Faults <- ScreenFaults, framebuffer <- s1, fbFormat <- s2, opened <- s3, currentBuffer <- s4,
    lockState <- s5, drawn <- s6, pc <- s7, buffer <- s8, locked <- s9,
    panned <- s10, screen <- s11, held <- s12, copied <- s13

Light == INSTANCE Lights WITH
    Thread <- LightThread, opened <- s1, g_lock <- s2, at <- s3, file <- s4, reports <- s5

Guard == INSTANCE CrashGuard WITH
    guard <- s1, dump <- s2, pc <- s3, handlers <- s4, told <- s5,
    last <- s6, dumping <- s7

Settings == INSTANCE CameraSettings WITH
    mParameters <- s1, camera <- s2, control <- s3, mSkipFrame <- s4,
    mCaptureInProgress <- s5, calls <- s6, asked <- s7, refused <- s8,
    ret <- s9

Node == INSTANCE CaptureNode WITH
    Faults <- NodeFaults, device <- s1, allocation <- s2, own <- s3, started <- s4,
    mPreviewRunning <- s5, mRecordRunning <- s6, streaming <- s7,
    queued <- s8, user <- s9, step <- s10, thread <- s11, stuck <- s12

Encoder == INSTANCE JpegEncoder WITH
    Faults <- EncoderFaults, thumbnail <- s1, gps <- s2, device <- s3, pc <- s4,
    image <- s5, thumbData <- s6, format <- s7, buffers <- s8, stream <- s9,
    content <- s10, polled <- s11, ret <- s12, exif <- s13

Engine == INSTANCE Copybit WITH
    opened <- s1, transform <- s2,
    rotation <- s3, asked <- s4, call <- s5, clips <- s6, region <- s7,
    drawn <- s8, ret <- s9

ASSUME PartsAssumption ==
    /\ Transfer!OpensAssumption
    /\ Transfer!BoundAssumption
    /\ Capture!PeriodAssumption
    /\ Capture!BoundAssumption
    /\ Capture!RatesAssumption
    /\ Accelerometer!FdAssumption
    /\ Accelerometer!ReadingAssumption
    /\ Accelerometer!AxisAssumption
    /\ Accelerometer!QueueAssumption
    /\ Switches!MaxFdsAssumption
    /\ Samples!ReadingAssumption
    /\ Screen!BufferAssumption
    /\ Screen!DepthsAssumption
    /\ Screen!FaultsAssumption
    /\ Light!ThreadAssumption
    /\ Light!LevelAssumption
    /\ Settings!RefusalsAssumption
    /\ Settings!MaxCallsAssumption
    /\ Node!FaultsAssumption
    /\ Encoder!FaultsAssumption
    /\ Encoder!LengthsAssumption
    /\ Engine!CallsAssumption
    /\ Engine!RegionsAssumption

\* A part that is not chosen does not move, and the allocator stays at its start.
PartsInit ==
    /\ Init
    /\ \/ part = "Pcm" /\ Transfer!Init
          /\ s12 = 0 /\ s13 = 0
       \/ part = "DownSampler" /\ Capture!Init
       \/ part = "Sensors" /\ Accelerometer!Init
          /\ s12 = 0 /\ s13 = 0
       \/ part = "SensorsControl" /\ Switches!Init
          /\ s6 = 0 /\ s7 = 0 /\ s8 = 0 /\ s9 = 0 /\ s10 = 0 /\ s11 = 0 /\ s12 = 0
          /\ s13 = 0
       \/ part = "SensorsData" /\ Samples!Init
          /\ s13 = 0
       \/ part = "FbPost" /\ Screen!Init
       \/ part = "Lights" /\ Light!Init
          /\ s6 = 0 /\ s7 = 0 /\ s8 = 0 /\ s9 = 0 /\ s10 = 0 /\ s11 = 0 /\ s12 = 0
          /\ s13 = 0
       \/ part = "CrashGuard" /\ Guard!Init
          /\ s8 = 0 /\ s9 = 0 /\ s10 = 0 /\ s11 = 0 /\ s12 = 0 /\ s13 = 0
       \/ part = "CameraSettings" /\ Settings!Init
          /\ s10 = 0 /\ s11 = 0 /\ s12 = 0 /\ s13 = 0
       \/ part = "CaptureNode" /\ Node!Init
          /\ s13 = 0
       \/ part = "JpegEncoder" /\ Encoder!Init
       \/ part = "Copybit" /\ Engine!Init
          /\ s10 = 0 /\ s11 = 0 /\ s12 = 0 /\ s13 = 0
       \/ part = "Allocator"
          /\ s1 = 0 /\ s2 = 0 /\ s3 = 0 /\ s4 = 0 /\ s5 = 0 /\ s6 = 0 /\ s7 = 0
          /\ s8 = 0 /\ s9 = 0 /\ s10 = 0 /\ s11 = 0 /\ s12 = 0 /\ s13 = 0

Others ==
    \/ part = "Pcm" /\ Transfer!Next
       /\ UNCHANGED <<s12, s13>>
    \/ part = "DownSampler" /\ Capture!Next
    \/ part = "Sensors" /\ Accelerometer!Next
       /\ UNCHANGED <<s12, s13>>
    \/ part = "SensorsControl" /\ Switches!Next
       /\ UNCHANGED <<s6, s7, s8, s9, s10, s11, s12, s13>>
    \/ part = "SensorsData" /\ Samples!Next
       /\ UNCHANGED <<s13>>
    \/ part = "FbPost" /\ Screen!Next
    \/ part = "Lights" /\ Light!Next
       /\ UNCHANGED <<s6, s7, s8, s9, s10, s11, s12, s13>>
    \/ part = "CrashGuard" /\ Guard!Next
       /\ UNCHANGED <<s8, s9, s10, s11, s12, s13>>
    \/ part = "CameraSettings" /\ Settings!Next
       /\ UNCHANGED <<s10, s11, s12, s13>>
    \/ part = "CaptureNode" /\ Node!Next
       /\ UNCHANGED <<s13>>
    \/ part = "JpegEncoder" /\ Encoder!Next
    \/ part = "Copybit" /\ Engine!Next
       /\ UNCHANGED <<s10, s11, s12, s13>>

PartsNext ==
    \/ part = "Allocator" /\ Next /\ UNCHANGED state
    \/ Others /\ UNCHANGED vars

PartsSpec == PartsInit /\ [][PartsNext /\ part' = part]_partsVars

-----------------------------------------------------------------------------
(* The properties of the parts, each about the behaviours of its part.      *)

\* The allocator's list is the heap, cut into chunks without gap or overlap,
\* with no two free neighbours, and its search is a best fit (Allocator).
ListKept == TypeOK /\ Tiled /\ Coalesced /\ BestFit

\* A client's recording is neither cut nor repeated nor mixed with an earlier
\* one, no round of the filters leaves a buffer, and the rate is one of the
\* nearest (CaptureIsContinuous, BuffersHold, NearestRate of DownSampler).
CaptureKept ==
    part = "DownSampler" =>
        Capture!CaptureIsContinuous /\ Capture!BuffersHold /\ Capture!NearestRate

\* A transfer moves its frames once or not at all, on a PCM that is prepared
\* and has the periods its caller wanted (MovedOnce, PreparedWhenUsed,
\* GeometryKept of Pcm).
TransfersRight ==
    part = "Pcm" =>
        Transfer!MovedOnce /\ Transfer!PreparedWhenUsed /\ Transfer!GeometryKept

\* Every sample is followed by its own orientation (Sensors).
OrientationOfSample == [][part = "Sensors" => Accelerometer!OrientationFollows]_partsVars

\* A sample of the accelerometer is what it measured (SampleIsTrue of Sensors).  Of
\* several sensors, the mask of the active ones promises no events that cannot
\* come, and a sample is returned as it was when its frame ended, in step with its
\* orientation (ActiveIsOn of SensorsControl; PendingIsKept, PairMatches of
\* SensorsData).
SamplesRight ==
    /\ part = "Sensors" => Accelerometer!SampleIsTrue
    /\ part = "SensorsControl" => Switches!ActiveIsOn
    /\ part = "SensorsData" => Samples!PendingIsKept /\ Samples!PairMatches

\* A buffer has the locks of its drawer and of the screen, and nobody draws into
\* the page on screen between posts (LocksAccounted, ShownIsStill of FbPost).
ScreenKept == part = "FbPost" => Screen!LocksAccounted /\ Screen!ShownIsStill

\* The backlight has the level that was set last (Lights).
LevelIsLast == part = "Lights" => Light!LevelIsLast

\* A dump is made exactly after a run that was cut off (CrashGuard).
GuardTells == part = "CrashGuard" => Guard!GuardTells

\* Sizes, picture format, quality, rotation and effect are in mParameters as in the
\* device; a call without an error keeps what it was asked for, but for what Ignored
\* names; the controls of a scene have its values after a call, but in "auto" those of
\* exposure and white balance (DeviceAgrees, AcceptedIsKept, SceneInSensor of
\* CameraSettings).  That exposure and white balance reach the sensor is not said:
\* they do not (SettingsReachDevice there).
SettingsKept ==
    part = "CameraSettings" =>
        Settings!DeviceAgrees /\ Settings!AcceptedIsKept /\ Settings!SceneInSensor

\* No buffer is freed under the driver, and preview and recording stream one at
\* a time, each from its own buffers (QueuedIsHeld, OneStream of CaptureNode).
NodeKept == part = "CaptureNode" => Node!QueuedIsHeld /\ Node!OneStream

\* What the encoder reports as the picture was encoded from the input, its waits
\* for the driver end, and all tags of the picture can be found (PictureIsInput,
\* DequeueEnds, TagsIntact of JpegEncoder).
PictureRight ==
    part = "JpegEncoder" =>
        Encoder!PictureIsInput /\ Encoder!DequeueEnds /\ Encoder!TagsIntact

\* A call draws, clip by clip, what it would draw as a whole (Copybit).
ClipsFit == part = "Copybit" => Engine!ClipsFit
=============================================================================
