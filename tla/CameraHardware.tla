--------------------------- MODULE CameraHardware ---------------------------
(***************************************************************************)
(* The threads of the camera HAL (src/libcamera/V4L2CameraHardware.cpp)    *)
(* over the one video device they share (V4L2Camera.cpp): the client that  *)
(* calls the HAL, the preview thread, the auto focus thread and the        *)
(* picture thread.                                                         *)
(*                                                                         *)
(* A thread is the label it stands at; a label names what it does next.    *)
(* A mutex is the thread that holds it, a condition variable is the label  *)
(* of the thread asleep on it: a signal moves that thread on, and is lost  *)
(* when no thread is there.  mFocusLock and mSkipFrameLock are held only   *)
(* inside single steps and need no variable.                               *)
(*                                                                         *)
(* One call of the client is in progress at a time: the comment at         *)
(* V4L2CameraHardware.cpp:646-651 speaks of the lock CameraService holds.  *)
(* A call into V4L2Camera takes effect in one step, on leaving it;         *)
(* CaptureExclusive is what justifies that grain.                          *)
(***************************************************************************)
EXTENDS Naturals

CONSTANTS
    NumBuffers,   \* REC_BUFFERS
    InitialSkip,  \* INITIAL_SKIP_FRAME
    Faults,       \* the device requests, or creation of a thread, that may fail
    EarlyRelease  \* the client may release before the preview thread is in its loop

AllFaults == {"start", "streamOff", "poll", "queue", "dequeue",
              "thread"}

ASSUME CameraAssumption ==
    /\ NumBuffers \in Nat \ {0, 1}
    /\ InitialSkip \in Nat
    /\ Faults \subseteq AllFaults
    /\ EarlyRelease \in BOOLEAN

VARIABLES
    client,          \* the call in progress and the label it stands at
    preview,         \* label of the preview thread
    focus,           \* label of the auto focus thread
    picture,         \* label of the picture thread
    previewRunning,  \* mPreviewRunning
    exitPreview,     \* mExitPreviewThread and the thread's exit request
    exitFocus,       \* mExitAutoFocusThread and the thread's exit request
    exitPicture,     \* the picture thread's exit request
    skipFrame,       \* mSkipFrame
    capture,         \* mCaptureInProgress
    stateLock,       \* holder of mStateLock
    previewLock,     \* holder of mPreviewLock
    dev,             \* V4L2Camera and the driver below it
    focusAsked       \* history: an autoFocus call no run has answered yet

threads == <<preview, focus, picture>>
flags   == <<previewRunning, exitPreview, exitFocus, exitPicture, skipFrame,
             capture, focusAsked>>
locks   == <<stateLock, previewLock>>
vars    == <<client, threads, flags, locks, dev>>

Buffers   == 0 .. NumBuffers - 1
CallNames == {"startPreview", "stopPreview", "takePicture", "cancelPicture",
              "autoFocus", "release"}
Free      == "free"
Idle      == [call |-> "none", at |-> "idle"]

-----------------------------------------------------------------------------
(* V4L2Camera and the driver.  started is previewStarted; requested says   *)
(* that the driver has the preview buffers, queued which of them it may    *)
(* write into; prev is prevBufIdx, the frame handed out last.  The driver  *)
(* refuses to queue a buffer it does not have or has queued already.       *)

Devices == [open : BOOLEAN, started : BOOLEAN, requested : BOOLEAN,
            queued : SUBSET Buffers, prev : Buffers]

NoDevice == [open |-> FALSE, started |-> FALSE, requested |-> FALSE,
             queued |-> {}, prev |-> 0]

\* closing the descriptor and reqBufs(0) both take every buffer back
Unqueued(d) == [d EXCEPT !.requested = FALSE, !.queued = {}]

MayFail(fault) == fault \in Faults

\* V4L2Camera::startPreview, its result and the device after it.  The results
\* are the sets of <<succeeded, device>> a call may end with.
DevStart(d) ==
    IF d.started THEN {<<TRUE, d>>}
    ELSE {<<TRUE, [d EXCEPT !.started = TRUE, !.requested = TRUE,
                            !.queued = Buffers \ {0}, !.prev = 0]>>}
         \cup {<<FALSE, Unqueued(d)>> : f \in Faults \cap {"start"}}

\* V4L2Camera::stopPreview
DevStop(d) ==
    IF ~d.started THEN {<<TRUE, d>>}
    ELSE {<<TRUE, [Unqueued(d) EXCEPT !.started = FALSE]>>}
         \cup {<<FALSE, d>> : f \in Faults \cap {"streamOff"}}

\* V4L2Camera::getPreview: poll, give the last frame back, take the next one
GetFails(d) ==
    IF ~d.started THEN {d}
    ELSE UNION {
        IF MayFail("poll") \/ ~d.requested THEN {r[2] : r \in DevStop(d)} ELSE {},
        IF MayFail("queue") \/ ~d.requested \/ d.prev \in d.queued THEN {d} ELSE {},
        IF MayFail("dequeue") /\ d.requested /\ d.prev \notin d.queued
        THEN {[d EXCEPT !.queued = @ \cup {d.prev}]} ELSE {} }

\* mutant: the buffer is queued after the dequeue instead of before it, so
\* that it is the new one that goes back
GetFramesRequeued(d) ==
    IF ~d.started \/ ~d.requested THEN {}
    ELSE {[d EXCEPT !.prev = i] : i \in d.queued}

GetFrames(d) ==
    IF ~d.started \/ ~d.requested \/ d.prev \in d.queued THEN {}
    ELSE {[d EXCEPT !.queued = (@ \cup {d.prev}) \ {i}, !.prev = i] :
             i \in d.queued \cup {d.prev}}

\* V4L2Camera::getSnapshotAndJpeg: a preview still on is stopped; if that
\* fails the driver, still streaming, refuses the snapshot's buffer.
\* Whatever happens after that, every buffer is taken back.
DevSnapshot(d) ==
    {IF r[1] THEN Unqueued(r[2]) ELSE r[2] : r \in DevStop(d)}

-----------------------------------------------------------------------------
(* Notation.                                                               *)

At(call, label) == client = [call |-> call, at |-> label]

GoTo(label) == client' = [client EXCEPT !.at = label]

Return == client' = Idle

\* mPreviewCondition.signal()
SignalPreview == preview' = IF preview = "sleep" THEN "relock" ELSE preview

\* mFocusCondition.signal()
SignalFocus == focus' = IF focus = "sleep" THEN "woken" ELSE focus

Init ==
    /\ client = Idle
    /\ preview = "dead"
    /\ focus = "dead"
    /\ picture = "dead"
    /\ previewRunning = FALSE
    /\ exitPreview = FALSE
    /\ exitFocus = FALSE
    /\ exitPicture = FALSE
    /\ skipFrame = 0
    /\ capture = FALSE
    /\ stateLock = Free
    /\ previewLock = Free
    /\ dev = NoDevice
    /\ focusAsked = FALSE

-----------------------------------------------------------------------------
(* The client.  Opening makes a new V4L2CameraHardware, whose threads      *)
(* start to run, over the V4L2Camera singleton, which keeps its fields.    *)

Open ==
    /\ ~dev.open
    /\ client = Idle
    /\ dev' = [dev EXCEPT !.open = TRUE]
    /\ preview' = "starting"
    /\ focus' = "starting"
    /\ picture' = "dead"
    /\ previewRunning' = FALSE
    /\ exitPreview' = FALSE
    /\ exitFocus' = FALSE
    /\ exitPicture' = FALSE
    /\ skipFrame' = 0
    /\ capture' = FALSE
    /\ focusAsked' = FALSE
    /\ UNCHANGED <<client, locks>>

FirstLabel(call) ==
    [startPreview |-> "state", stopPreview |-> "preview",
     takePicture |-> "preview", cancelPicture |-> "exit",
     autoFocus |-> "signal", release |-> "flags"][call]

\* the preview thread runs, or sleeps where a signal wakes it
PreviewInLoop == preview = "sleep" \/ (previewRunning /\ preview # "starting")

Call(call) ==
    /\ dev.open
    /\ client = Idle
    /\ call = "release" => EarlyRelease \/ PreviewInLoop
    /\ client' = [call |-> call, at |-> FirstLabel(call)]
    /\ UNCHANGED <<threads, flags, locks, dev>>

-----------------------------------------------------------------------------
(* startPreview                                                            *)

StartRefusedByCapture ==
    /\ At("startPreview", "state")
    /\ stateLock = Free
    /\ capture
    /\ Return
    /\ UNCHANGED <<threads, flags, locks, dev>>

\* mutant: mCaptureInProgress is not tested
StartLocksStateAnyway ==
    /\ At("startPreview", "state")
    /\ stateLock = Free
    /\ stateLock' = "client"
    /\ GoTo("preview")
    /\ UNCHANGED <<threads, flags, previewLock, dev>>

StartLocksState ==
    /\ At("startPreview", "state")
    /\ stateLock = Free
    /\ ~capture
    /\ stateLock' = "client"
    /\ GoTo("preview")
    /\ UNCHANGED <<threads, flags, previewLock, dev>>

StartRefusedRunning ==
    /\ At("startPreview", "preview")
    /\ previewLock = Free
    /\ previewRunning
    /\ stateLock' = Free
    /\ Return
    /\ UNCHANGED <<threads, flags, previewLock, dev>>

\* mutant: the frames still to skip are added up
StartAddsSkip ==
    /\ At("startPreview", "preview")
    /\ previewLock = Free
    /\ ~previewRunning
    /\ previewLock' = "client"
    /\ skipFrame' = skipFrame + InitialSkip
    /\ GoTo("device")
    /\ UNCHANGED <<threads, previewRunning, exitPreview, exitFocus, exitPicture,
                   capture, focusAsked, stateLock, dev>>

\* setSkipFrame(INITIAL_SKIP_FRAME) only ever raises the count
StartLocksPreview ==
    /\ At("startPreview", "preview")
    /\ previewLock = Free
    /\ ~previewRunning
    /\ previewLock' = "client"
    /\ skipFrame' = IF InitialSkip < skipFrame THEN skipFrame ELSE InitialSkip
    /\ GoTo("device")
    /\ UNCHANGED <<threads, previewRunning, exitPreview, exitFocus, exitPicture,
                   capture, focusAsked, stateLock, dev>>

StartDevice ==
    /\ At("startPreview", "device")
    /\ \E r \in DevStart(dev) :
          /\ dev' = r[2]
          /\ previewRunning' = r[1]
          /\ IF r[1] THEN SignalPreview ELSE UNCHANGED preview
    /\ stateLock' = Free
    /\ previewLock' = Free
    /\ Return
    /\ UNCHANGED <<focus, picture, exitPreview, exitFocus, exitPicture,
                   skipFrame, capture, focusAsked>>

-----------------------------------------------------------------------------
(* stopPreview, which takePicture begins with.  The wait for               *)
(* mPreviewStoppedCondition is not in a loop.                              *)

Stopping(label) == At("stopPreview", label) \/ At("takePicture", label)

\* what follows stopPreview: the end of the call, or the rest of takePicture
AfterStop == IF client.call = "takePicture" THEN GoTo("state") ELSE Return

StopNotRunning ==
    /\ Stopping("preview")
    /\ previewLock = Free
    /\ ~previewRunning
    /\ AfterStop
    /\ UNCHANGED <<threads, flags, locks, dev>>

\* mutant: the preview thread is told to stop and not waited for
StopWithoutWait ==
    /\ Stopping("preview")
    /\ previewLock = Free
    /\ previewRunning
    /\ previewRunning' = FALSE
    /\ SignalPreview
    /\ AfterStop
    /\ UNCHANGED <<focus, picture, exitPreview, exitFocus, exitPicture,
                   skipFrame, capture, focusAsked, locks, dev>>

StopAndWait ==
    /\ Stopping("preview")
    /\ previewLock = Free
    /\ previewRunning
    /\ previewRunning' = FALSE
    /\ SignalPreview
    /\ GoTo("wait")
    /\ UNCHANGED <<focus, picture, exitPreview, exitFocus, exitPicture,
                   skipFrame, capture, focusAsked, locks, dev>>

StopWoken ==
    /\ Stopping("woken")
    /\ previewLock = Free
    /\ AfterStop
    /\ UNCHANGED <<threads, flags, locks, dev>>

-----------------------------------------------------------------------------
(* takePicture after its stopPreview, and cancelPicture.  android::Thread  *)
(* refuses to run() a thread that is still running, or cannot create one.  *)

PictureAlive == picture \notin {"dead", "skipped"}

TakeRefused ==
    /\ At("takePicture", "state")
    /\ stateLock = Free
    /\ capture \/ PictureAlive \/ MayFail("thread")
    /\ Return
    /\ UNCHANGED <<threads, flags, locks, dev>>

TakeRunsThread ==
    /\ At("takePicture", "state")
    /\ stateLock = Free
    /\ ~capture
    /\ ~PictureAlive
    /\ picture' = "starting"
    /\ stateLock' = "client"
    /\ GoTo("mark")
    /\ UNCHANGED <<preview, focus, flags, previewLock, dev>>

TakeMarks ==
    /\ At("takePicture", "mark")
    /\ capture' = TRUE
    /\ stateLock' = Free
    /\ Return
    /\ UNCHANGED <<threads, previewRunning, exitPreview, exitFocus, exitPicture,
                   skipFrame, focusAsked, previewLock, dev>>

\* requestExitAndWait, the same in cancelPicture and in release
ExitPicture ==
    /\ client.at = "exit"
    /\ exitPicture' = TRUE
    /\ GoTo("join")
    /\ UNCHANGED <<threads, previewRunning, exitPreview, exitFocus, skipFrame,
                   capture, focusAsked, locks, dev>>

CancelJoined ==
    /\ At("cancelPicture", "join")
    /\ ~PictureAlive
    /\ exitPicture' = FALSE
    /\ Return
    /\ UNCHANGED <<threads, previewRunning, exitPreview, exitFocus, skipFrame,
                   capture, focusAsked, locks, dev>>

\* autoFocus: a signal with no lock held and no flag set
AutoFocus ==
    /\ At("autoFocus", "signal")
    /\ SignalFocus
    /\ focusAsked' = TRUE
    /\ Return
    /\ UNCHANGED <<preview, picture, previewRunning, exitPreview, exitFocus,
                   exitPicture, skipFrame, capture, locks, dev>>

-----------------------------------------------------------------------------
(* release.  The two flags of the preview thread are stored without        *)
(* mPreviewLock, so the thread may see the stores in either order.         *)

ReleaseFlags ==
    /\ At("release", "flags")
    /\ \/ ~exitPreview /\ exitPreview' = TRUE /\ UNCHANGED previewRunning
       \/ ~previewRunning /\ previewRunning' = TRUE /\ UNCHANGED exitPreview
    /\ UNCHANGED <<client, threads, exitFocus, exitPicture, skipFrame, capture,
                   focusAsked, locks, dev>>

ReleaseSignals ==
    /\ At("release", "flags")
    /\ exitPreview
    /\ previewRunning
    /\ SignalPreview
    /\ GoTo("joinPreview")
    /\ UNCHANGED <<focus, picture, flags, locks, dev>>

\* the preview thread has ended; under mFocusLock the focus thread is told
ReleaseFocus ==
    /\ At("release", "joinPreview")
    /\ preview = "dead"
    /\ exitFocus' = TRUE
    /\ SignalFocus
    /\ GoTo("joinFocus")
    /\ UNCHANGED <<preview, picture, previewRunning, exitPreview, exitPicture,
                   skipFrame, capture, focusAsked, locks, dev>>

ReleasePicture ==
    /\ At("release", "joinFocus")
    /\ focus = "dead"
    /\ GoTo("exit")
    /\ UNCHANGED <<threads, flags, locks, dev>>

\* closeCamera; previewStarted keeps its value
ReleaseCloses ==
    /\ At("release", "join")
    /\ ~PictureAlive
    /\ dev' = [Unqueued(dev) EXCEPT !.open = FALSE]
    /\ Return
    /\ UNCHANGED <<threads, flags, locks>>

-----------------------------------------------------------------------------
(* previewThreadWrapper and previewThread.  android::Thread ends a thread  *)
(* asked to exit before its first threadLoop without running it.           *)

PreviewStarts ==
    /\ preview = "starting"
    /\ preview' = IF exitPreview THEN "dead" ELSE "relock"
    /\ UNCHANGED <<client, focus, picture, flags, locks, dev>>

PreviewLocks ==
    /\ preview = "relock"
    /\ previewLock = Free
    /\ previewLock' = "preview"
    /\ preview' = "check"
    /\ UNCHANGED <<client, focus, picture, flags, stateLock, dev>>

\* while (!mPreviewRunning), and the unlock after the loop
PreviewChecks ==
    /\ preview = "check"
    /\ IF previewRunning
       THEN preview' = "exit?" /\ previewLock' = Free
       ELSE preview' = "stop" /\ UNCHANGED previewLock
    /\ UNCHANGED <<client, focus, picture, flags, stateLock, dev>>

\* mV4L2Camera->stopPreview()
PreviewStops ==
    /\ preview = "stop"
    /\ \E r \in DevStop(dev) : dev' = r[2]
    /\ preview' = "signal"
    /\ UNCHANGED <<client, focus, picture, flags, locks>>

\* mPreviewStoppedCondition.signal(), then the wait gives mPreviewLock up
PreviewSleeps ==
    /\ preview = "signal"
    /\ client' = IF Stopping("wait") THEN [client EXCEPT !.at = "woken"]
                 ELSE client
    /\ previewLock' = Free
    /\ preview' = "sleep"
    /\ UNCHANGED <<focus, picture, flags, stateLock, dev>>

PreviewTestsExit ==
    /\ preview = "exit?"
    /\ preview' = IF exitPreview THEN "exit" ELSE "get"
    /\ UNCHANGED <<client, focus, picture, flags, locks, dev>>

PreviewExits ==
    /\ preview = "exit"
    /\ \E r \in DevStop(dev) : dev' = r[2]
    /\ preview' = "dead"
    /\ UNCHANGED <<client, focus, picture, flags, locks>>

\* previewThread: getPreview fails, or the frame is skipped, or it is shown
PreviewGetFails ==
    /\ preview = "get"
    /\ dev' \in GetFails(dev)
    /\ preview' = "relock"
    /\ UNCHANGED <<client, focus, picture, flags, locks>>

PreviewGets ==
    /\ preview = "get"
    /\ dev' \in GetFrames(dev)
    /\ IF skipFrame > 0
       THEN preview' = "relock" /\ skipFrame' = skipFrame - 1
       ELSE preview' = "show?" /\ UNCHANGED skipFrame
    /\ UNCHANGED <<client, focus, picture, previewRunning, exitPreview,
                   exitFocus, exitPicture, capture, focusAsked, locks>>

\* mPreviewRunning is read without mPreviewLock; the message may be disabled
PreviewShows ==
    /\ preview = "show?"
    /\ \/ previewRunning /\ preview' = "show"
       \/ preview' = "relock"
    /\ UNCHANGED <<client, focus, picture, flags, locks, dev>>

PreviewShown ==
    /\ preview = "show"
    /\ preview' = "relock"
    /\ UNCHANGED <<client, focus, picture, flags, locks, dev>>

-----------------------------------------------------------------------------
(* autoFocusThread: the lock, both exit checks, the wait, the focusing.    *)

\* mutant: no exit check before the wait
FocusSleepsAnyway ==
    /\ focus = "starting"
    /\ focus' = "sleep"
    /\ UNCHANGED <<client, preview, picture, flags, locks, dev>>

FocusStarts ==
    /\ focus = "starting"
    /\ focus' = IF exitFocus THEN "dead" ELSE "sleep"
    /\ UNCHANGED <<client, preview, picture, flags, locks, dev>>

FocusWakes ==
    /\ focus = "woken"
    /\ IF exitFocus
       THEN focus' = "dead" /\ UNCHANGED focusAsked
       ELSE focus' = "focusing" /\ focusAsked' = FALSE
    /\ UNCHANGED <<client, preview, picture, previewRunning, exitPreview,
                   exitFocus, exitPicture, skipFrame, capture, locks, dev>>

\* setAutofocus, the result callback, and threadLoop is entered again
FocusDone ==
    /\ focus = "focusing"
    /\ focus' = "starting"
    /\ UNCHANGED <<client, preview, picture, flags, locks, dev>>

-----------------------------------------------------------------------------
(* pictureThread                                                           *)

PictureStarts ==
    /\ picture = "starting"
    /\ picture' = IF exitPicture THEN "skipped" ELSE "snapshot"
    /\ UNCHANGED <<client, preview, focus, flags, locks, dev>>

\* with neither image wanted getSnapshotAndJpeg returns at once
PictureSnaps ==
    /\ picture = "snapshot"
    /\ dev' \in DevSnapshot(dev) \cup {dev}
    /\ picture' = "deliver"
    /\ UNCHANGED <<client, preview, focus, flags, locks>>

PictureDelivers ==
    /\ picture = "deliver"
    /\ picture' = "clear"
    /\ UNCHANGED <<client, preview, focus, flags, locks, dev>>

\* mutant: mCaptureInProgress is cleared without mStateLock
PictureClearsUnlocked ==
    /\ picture = "clear"
    /\ capture' = FALSE
    /\ picture' = "ending"
    /\ UNCHANGED <<client, preview, focus, previewRunning, exitPreview,
                   exitFocus, exitPicture, skipFrame, focusAsked, locks, dev>>

PictureClears ==
    /\ picture = "clear"
    /\ stateLock = Free
    /\ capture' = FALSE
    /\ picture' = "ending"
    /\ UNCHANGED <<client, preview, focus, previewRunning, exitPreview,
                   exitFocus, exitPicture, skipFrame, focusAsked, locks, dev>>

\* endSnapshot does nothing; android::Thread then marks the thread as ended
PictureEnds ==
    /\ picture = "ending"
    /\ picture' = "dead"
    /\ UNCHANGED <<client, preview, focus, flags, locks, dev>>

-----------------------------------------------------------------------------
ClientStep ==
    \/ StartRefusedByCapture \/ StartLocksState \/ StartRefusedRunning
    \/ StartLocksPreview \/ StartDevice
    \/ StopNotRunning \/ StopAndWait \/ StopWoken
    \/ TakeRefused \/ TakeRunsThread \/ TakeMarks
    \/ ExitPicture \/ CancelJoined \/ AutoFocus
    \/ ReleaseFlags \/ ReleaseSignals \/ ReleaseFocus \/ ReleasePicture
    \/ ReleaseCloses

PreviewStep ==
    \/ PreviewStarts \/ PreviewLocks \/ PreviewChecks \/ PreviewStops
    \/ PreviewSleeps \/ PreviewTestsExit \/ PreviewExits
    \/ PreviewGetFails \/ PreviewGets \/ PreviewShows \/ PreviewShown

FocusStep == FocusStarts \/ FocusWakes \/ FocusDone

PictureStep ==
    \/ PictureStarts \/ PictureSnaps \/ PictureDelivers \/ PictureClears
    \/ PictureEnds

Next ==
    \/ Open
    \/ \E call \in CallNames : Call(call)
    \/ ClientStep
    \/ PreviewStep
    \/ FocusStep
    \/ PictureStep

Spec == Init /\ [][Next]_vars

\* Every thread is scheduled, and one that keeps trying to take a mutex gets
\* it in the end although the preview thread takes it again and again.  A
\* client may stop making calls: Open and Call have no fairness.
Fairness ==
    /\ SF_vars(ClientStep)
    /\ SF_vars(PreviewStep)
    /\ WF_vars(FocusStep)
    /\ SF_vars(PictureStep)

FairSpec == Spec /\ Fairness

-----------------------------------------------------------------------------
FlagTypes ==
    /\ previewRunning \in BOOLEAN
    /\ capture \in BOOLEAN
    /\ focusAsked \in BOOLEAN
    /\ exitPreview \in BOOLEAN
    /\ exitFocus \in BOOLEAN
    /\ exitPicture \in BOOLEAN

TypeOK ==
    /\ client \in [call : CallNames \cup {"none"},
                   at : {"idle", "state", "preview", "device", "wait", "woken",
                         "mark", "exit", "join", "signal", "flags",
                         "joinPreview", "joinFocus"}]
    /\ preview \in {"dead", "starting", "relock", "check", "stop", "signal",
                    "sleep", "exit?", "exit", "get", "show?", "show"}
    /\ focus \in {"dead", "starting", "sleep", "woken", "focusing"}
    /\ picture \in {"dead", "skipped", "starting", "snapshot", "deliver",
                    "clear", "ending"}
    /\ FlagTypes
    /\ skipFrame \in 0 .. InitialSkip
    /\ stateLock \in {Free, "client"}
    /\ previewLock \in {Free, "client", "preview"}
    /\ dev \in Devices

\* The threads that are inside a V4L2Camera function that changes the stream:
\* a stopPreview that finds nothing started returns at once.
ClientInDevice  == At("startPreview", "device")
PreviewInDevice == preview = "get" \/ (preview \in {"stop", "exit"} /\ dev.started)
PictureInDevice == picture = "snapshot"

\* No two threads are ever inside the capture device at once, although
\* V4L2Camera has no lock: mCaptureInProgress and the stop handshake keep the
\* client, the preview thread and the picture thread apart.
CaptureExclusive ==
    /\ ~(ClientInDevice /\ PreviewInDevice)
    /\ ~(ClientInDevice /\ PictureInDevice)
    /\ ~(PreviewInDevice /\ PictureInDevice)

\* While the client looks at a preview frame the stream is on and the driver
\* does not have that frame's buffer, so the picture does not change under it
\* (getPreview gives a buffer back only when the next frame is fetched).
FrameStable ==
    preview = "show" => dev.started /\ dev.prev \notin dev.queued

\* Once stopPreview has returned no frame is fetched or shown until the next
\* startPreview: the preview thread is away from the device and the callback.
StoppedMeansQuiet ==
    ~previewRunning /\ ~Stopping("wait")
        => preview \notin {"get", "show?", "show"}

\* Whenever mStateLock is free, mCaptureInProgress is set exactly while a
\* picture is under way, so preview is refused no longer than the picture
\* takes.  A picture cancelled before its thread first ran is the exception:
\* android::Thread skips the body that would have cleared the flag.
UnderWay == {"starting", "snapshot", "deliver", "clear", "skipped"}

CaptureFlagExact == stateLock = Free => (capture <=> picture \in UnderWay)

\* Every call returns: neither the wait for the preview thread to stop nor the
\* three joins of release can block for ever, given that release is not
\* called before the preview thread is in its loop.
CallsReturn == client # Idle ~> client = Idle

\* autoFocus signals "autoFocusThread to run once" (V4L2CameraHardware.cpp:703):
\* once asked, the thread does not sleep until it has focused.  The call sets
\* no flag, so a signal sent while the thread is not asleep is lost.
FocusRunsWhenAsked == focusAsked => focus # "sleep"
=============================================================================
