---------------------------- MODULE CaptureNode -----------------------------
(***************************************************************************)
(* libcamera: the capture node of the camera, which the preview and the    *)
(* recording stream from by turns, ioctl by ioctl (V4L2Camera.cpp,         *)
(* V4L2Device.cpp).  The camera service lets in one call at a time; the    *)
(* thread of the preview runs beside it and stops the preview by itself    *)
(* when no frame comes.                                                    *)
(*                                                                         *)
(* External: the driver.  As V4L2 has it, it refuses a format or buffers   *)
(* while it streams, drops the buffers it has when it is asked for others  *)
(* and when it stops, and does not stream without buffers.                 *)
(***************************************************************************)
EXTENDS Naturals, Sequences

CONSTANT Faults     \* requests that may fail for other reasons
FaultsAssumption ==
    Faults \subseteq {"open", "format", "reqbufs", "queue", "on", "poll", "off"}

Use == {"preview", "record"}
Fails(request) == request \in Faults

VARIABLES
    device,             \* V4L2Camera::device is there
    allocation,         \* what V4L2Device has for the direction: "empty" or a use
    own,                \* uses with an allocation: previewAllocation, recordAllocation
    started,            \* uses that are: previewStarted, recordingStarted
    mPreviewRunning, mRecordRunning,
    streaming, queued,  \* the driver: the use whose buffers it has, or "none"
    user, step,         \* the call: whose, and where in it
    thread,             \* where the thread of the preview is
    stuck               \* history: the driver refused to stop

api == <<user, step>>
halVars == <<mPreviewRunning, mRecordRunning>>
driverVars == <<streaming, queued>>
nodeVars == <<device, allocation, own, started, halVars, driverVars, api, thread, stuck>>

Init ==
    /\ device = FALSE /\ allocation = "empty" /\ own = {} /\ started = {}
    /\ mPreviewRunning = FALSE /\ mRecordRunning = FALSE
    /\ streaming = FALSE /\ queued = "none"
    /\ user = "none" /\ step = "idle" /\ thread = "none" /\ stuck = FALSE

At(use, place) == user = use /\ step = place
GoTo(use, place) == user' = use /\ step' = place
Idle == At("none", "idle")
Return == GoTo("none", "idle")

-----------------------------------------------------------------------------
(* The device *)

\* Mutant: it takes the allocation before it asks.
reqBufs_early(use) ==
    /\ queued' = IF streaming THEN queued ELSE "none"
    /\ allocation' = use
    /\ UNCHANGED streaming

\* V4L2Device takes the new allocation when the driver has agreed.
reqBufs(use) ==
    /\ ~streaming
    /\ queued' = "none" /\ allocation' = use
    /\ UNCHANGED streaming
reqBufsFails ==
    /\ streaming \/ Fails("reqbufs")
    /\ UNCHANGED <<driverVars, allocation>>

StreamOff == streaming' = FALSE /\ queued' = "none" /\ UNCHANGED stuck
StreamOffFails == Fails("off") /\ stuck' = TRUE /\ UNCHANGED driverVars

-----------------------------------------------------------------------------
(* startPreview and startRecord of V4L2Camera *)

SetFormat(use) ==
    /\ device /\ use \notin started
    /\ IF streaming THEN UNCHANGED <<own, api>>
       ELSE \/ own' = own \cup {use} /\ GoTo(use, "reqbufs")
            \/ Fails("format") /\ UNCHANGED <<own, api>>
    /\ UNCHANGED <<device, allocation, started, halVars, driverVars, thread, stuck>>

\* The recording keeps the allocation that the driver did not take.
ReqBufs(use) ==
    /\ At(use, "reqbufs")
    /\ \/ reqBufs(use) /\ GoTo(use, "queue")
       \/ /\ reqBufsFails
          /\ IF use = "preview" THEN GoTo(use, "free") ELSE Return
    /\ UNCHANGED <<device, own, started, halVars, thread, stuck>>

\* The buffers are those of V4L2Device, which has none after reqBufs(0).
Queue(use) ==
    /\ At(use, "queue")
    /\ \/ /\ allocation # "empty"
          /\ queued' = allocation /\ GoTo(use, "on")
       \/ /\ allocation = "empty" \/ Fails("queue")
          /\ GoTo(use, "free") /\ UNCHANGED queued
    /\ UNCHANGED <<device, allocation, own, started, halVars, streaming, thread, stuck>>

On(use) ==
    /\ At(use, "on")
    /\ \/ queued # "none" /\ streaming' = TRUE /\ GoTo(use, "poll")
       \/ /\ queued = "none" \/ Fails("on")
          /\ GoTo(use, "free") /\ UNCHANGED streaming
    /\ UNCHANGED <<device, allocation, own, started, halVars, queued, thread, stuck>>

\* Whether the stream could be stopped again is not looked at.
Poll(use) ==
    /\ At(use, "poll")
    /\ \/ /\ started' = started \cup {use} /\ GoTo(use, "started")
          /\ UNCHANGED <<driverVars, stuck>>
       \/ /\ Fails("poll") /\ GoTo(use, "free")
          /\ StreamOff \/ StreamOffFails
          /\ UNCHANGED started
    /\ UNCHANGED <<device, allocation, own, halVars, thread>>

Free(use) ==
    /\ At(use, "free")
    /\ reqBufs("empty") \/ reqBufsFails
    /\ own' = own \ {use} /\ Return
    /\ UNCHANGED <<device, started, halVars, thread, stuck>>

(* The calls of the HAL around them *)

startPreview ==
    /\ Idle /\ thread = "waits" /\ ~mPreviewRunning
    /\ SetFormat("preview")

\* V4L2Camera finds a preview that is already started.
startPreviewAgain ==
    /\ Idle /\ thread = "waits" /\ ~mPreviewRunning
    /\ "preview" \in started
    /\ GoTo("preview", "started")
    /\ UNCHANGED <<device, allocation, own, started, halVars, driverVars, thread, stuck>>

startRecording ==
    /\ Idle /\ thread # "none" /\ ~mRecordRunning
    /\ SetFormat("record")

startRecordingAgain ==
    /\ Idle /\ thread # "none" /\ ~mRecordRunning
    /\ "record" \in started
    /\ GoTo("record", "started")
    /\ UNCHANGED <<device, allocation, own, started, halVars, driverVars, thread, stuck>>

Started ==
    /\ \/ /\ At("preview", "started")
          /\ mPreviewRunning' = TRUE /\ thread' = "runs"
          /\ UNCHANGED mRecordRunning
       \/ /\ At("record", "started")
          /\ mRecordRunning' = TRUE /\ UNCHANGED <<mPreviewRunning, thread>>
    /\ Return
    /\ UNCHANGED <<device, allocation, own, started, driverVars, stuck>>

stopPreview ==
    /\ Idle /\ mPreviewRunning
    /\ mPreviewRunning' = FALSE /\ GoTo("preview", "stopping")
    /\ UNCHANGED <<device, allocation, own, started, mRecordRunning, driverVars, thread, stuck>>

\* stopRecord, from stopRecording and from closeCamera, which does not look at
\* its result.
StopRecordOff(next) ==
    IF "record" \in started
    THEN \/ StreamOff /\ GoTo("record", IF next = "close" THEN "free close" ELSE "free stop")
         \/ StreamOffFails /\ IF next = "close" THEN GoTo("record", next) ELSE Return
    ELSE GoTo("record", next) /\ UNCHANGED <<driverVars, stuck>>

stopRecording ==
    /\ Idle /\ mRecordRunning
    /\ StopRecordOff("stop")
    /\ UNCHANGED <<device, allocation, own, started, halVars, thread>>

StopRecordFree ==
    /\ At("record", "free stop") \/ At("record", "free close")
    /\ reqBufs("empty") \/ reqBufsFails
    /\ own' = own \ {"record"} /\ started' = started \ {"record"}
    /\ GoTo("record", IF At("record", "free close") THEN "close" ELSE "stop")
    /\ UNCHANGED <<device, halVars, thread, stuck>>

StopRecordingEnd ==
    /\ At("record", "stop")
    /\ mRecordRunning' = FALSE /\ Return
    /\ UNCHANGED <<device, allocation, own, started, mPreviewRunning, driverVars, thread, stuck>>

-----------------------------------------------------------------------------
(* The thread of the preview: frames, and stopPreview of V4L2Camera *)

\* A frame: the buffer before it is queued again, and it is taken.  When none
\* comes, or a preview that is not started is polled, there is none.
getPreview ==
    /\ thread = "runs" /\ mPreviewRunning
    /\ "preview" \in started
    /\ thread' = IF streaming THEN thread ELSE "poll off"
    /\ UNCHANGED <<device, allocation, own, started, halVars, driverVars, api, stuck>>

getPreviewFails ==
    /\ thread = "runs" /\ mPreviewRunning
    /\ "preview" \in started /\ Fails("poll")
    /\ thread' = "poll off"
    /\ UNCHANGED <<device, allocation, own, started, halVars, driverVars, api, stuck>>

Stopping ==
    /\ thread = "runs"
    /\ ~mPreviewRunning \/ At("preview", "exiting")
    /\ thread' = IF "preview" \in started THEN "stop off" ELSE "stopped"
    /\ UNCHANGED <<device, allocation, own, started, halVars, driverVars, api, stuck>>

\* The loop goes on after a frame, and waits after a stop.
AfterStop == IF thread \in {"poll off", "poll free"} THEN "runs" ELSE "stopped"

StopPreviewOff ==
    /\ thread \in {"poll off", "stop off"}
    /\ \/ /\ StreamOff
          /\ thread' = IF thread = "poll off" THEN "poll free" ELSE "stop free"
       \/ StreamOffFails /\ thread' = AfterStop
    /\ UNCHANGED <<device, allocation, own, started, halVars, api>>

\* Mutant: previewStarted is not reset.
StopPreviewFreeKeeps ==
    /\ thread \in {"poll free", "stop free"}
    /\ reqBufs("empty") \/ reqBufsFails
    /\ own' = own \ {"preview"} /\ UNCHANGED started
    /\ thread' = AfterStop
    /\ UNCHANGED <<device, halVars, api, stuck>>

StopPreviewFree ==
    /\ thread \in {"poll free", "stop free"}
    /\ reqBufs("empty") \/ reqBufsFails
    /\ own' = own \ {"preview"} /\ started' = started \ {"preview"}
    /\ thread' = AfterStop
    /\ UNCHANGED <<device, halVars, api, stuck>>

Stopped ==
    /\ thread = "stopped"
    /\ \/ At("preview", "stopping") /\ thread' = "waits" /\ Return
       \/ At("preview", "exiting") /\ thread' = "none" /\ GoTo("preview", "exit")
    /\ UNCHANGED <<device, allocation, own, started, halVars, driverVars, stuck>>

-----------------------------------------------------------------------------
(* Opening and closing *)

\* Buffers of an earlier opening are dropped with setBufType.  Without a camera
\* the HAL goes on to use it, and the process ends.
openCamera ==
    /\ Idle /\ thread = "none" /\ ~device
    /\ allocation' = "empty" /\ queued' = "none" /\ streaming' = FALSE
    /\ \/ device' = TRUE /\ thread' = "waits" /\ UNCHANGED <<own, started, stuck>>
       \/ /\ Fails("open")
          /\ own' = {} /\ started' = {} /\ stuck' = FALSE
          /\ UNCHANGED <<device, thread>>
    /\ UNCHANGED <<halVars, api>>

\* release() lets the thread run so that it leaves its loop, and stops the
\* preview on its way out.
release ==
    /\ Idle /\ thread # "none" /\ device
    /\ mPreviewRunning' = TRUE /\ GoTo("preview", "exiting")
    /\ thread' = IF thread = "waits" THEN "runs" ELSE thread
    /\ UNCHANGED <<device, allocation, own, started, mRecordRunning, driverVars, stuck>>

closeCamera ==
    /\ At("preview", "exit")
    /\ StopRecordOff("close")
    /\ UNCHANGED <<device, allocation, own, started, halVars, thread>>

\* The HAL goes; V4L2Camera stays.
Close ==
    /\ At("record", "close")
    /\ device' = FALSE /\ allocation' = "empty"
    /\ streaming' = FALSE /\ queued' = "none"
    /\ mPreviewRunning' = FALSE /\ mRecordRunning' = FALSE
    /\ Return
    /\ UNCHANGED <<own, started, thread, stuck>>

Next ==
    \/ startPreview \/ startPreviewAgain \/ startRecording \/ startRecordingAgain
    \/ Started \/ stopPreview \/ stopRecording \/ StopRecordFree \/ StopRecordingEnd
    \/ \E use \in Use : ReqBufs(use) \/ Queue(use) \/ On(use) \/ Poll(use) \/ Free(use)
    \/ getPreview \/ getPreviewFails \/ Stopping \/ StopPreviewOff \/ StopPreviewFree
    \/ Stopped \/ openCamera \/ release \/ closeCamera \/ Close

Spec == Init /\ [][Next]_nodeVars

-----------------------------------------------------------------------------

\* The memory that the driver writes frames to is the one V4L2Device holds on
\* to: whatever fails, and whoever of the preview's thread and a call asks for
\* buffers in between, none is freed under the driver.
QueuedIsHeld == queued # "none" => allocation = queued

\* As long as the driver stops when it is told to, the preview and the recording
\* are never both started, and the one that is has its own buffers streaming:
\* also when a recording starts while the thread of the preview stops it.
OneStream ==
    ~stuck =>
        LET stopping == {"poll off", "poll free", "stop off", "stop free"} IN
        /\ Use \subseteq started => thread \in stopping
        /\ \A use \in started :
               \/ streaming /\ queued = use
               \/ use = "preview" /\ thread \in stopping
               \/ use = "record" /\ (At(use, "free stop") \/ At(use, "free close"))
=============================================================================
