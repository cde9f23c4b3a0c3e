------------------------ MODULE CameraHardwareProofs ------------------------
(***************************************************************************)
(* Why the threads of the camera HAL never meet inside the device.         *)
(*                                                                         *)
(* The first half of the invariant (Locks, Flag, Quiet) holds whatever the *)
(* device does and whenever release is called.  The second (Lifetime,      *)
(* StartedRuns, Apart) needs what CaptureExclusive needs: that a stream    *)
(* can be switched off and that the preview thread is in its loop before   *)
(* release is called.                                                      *)
(***************************************************************************)
EXTENDS CameraHardware, TLAPS

-----------------------------------------------------------------------------
(* Which label goes with which mutex.                                      *)

Locks ==
    /\ stateLock = "client" <=> \/ At("startPreview", "preview")
                                \/ At("startPreview", "device")
                                \/ At("takePicture", "mark")
    /\ previewLock = "client" <=> At("startPreview", "device")
    /\ previewLock = "preview" <=> preview \in {"check", "stop", "signal"}

(* mCaptureInProgress and the picture thread, also while mStateLock is     *)
(* held: by startPreview no picture is under way, and takePicture holds it *)
(* until the flag has caught up with the thread it started.                *)

Flag ==
    /\ CaptureFlagExact
    /\ At("startPreview", "preview") \/ At("startPreview", "device")
         => ~capture /\ picture \notin UnderWay
    /\ At("takePicture", "mark") => ~capture /\ picture \in UnderWay

(* The preview thread is past its test of mPreviewRunning only while the   *)
(* flag is set or a stopPreview waits for it.                              *)

PastTest == {"exit?", "exit", "get", "show?", "show"}

Quiet ==
    /\ preview \in PastTest => previewRunning \/ Stopping("wait")
    /\ Stopping("wait") \/ Stopping("woken") => ~previewRunning
    /\ At("startPreview", "device") => ~previewRunning
    /\ At("takePicture", "state") \/ At("takePicture", "mark") => ~previewRunning

(* The preview thread of a closed HAL, or of one whose release is past its  *)
(* first join, has ended.                                                  *)

Ended ==
    /\ ~dev.open => client = Idle /\ preview = "dead"
    /\ client.call = "release" /\ client.at \in {"joinFocus", "exit", "join"}
         => preview = "dead"

SafeInv == TypeOK /\ Locks /\ Flag /\ Quiet /\ Ended

-----------------------------------------------------------------------------
(* The preview thread ends in release only, where it does not start.       *)

Lifetime ==
    /\ preview = "dead" \/ exitPreview => client.call = "release" \/ ~dev.open
    /\ preview = "exit" => exitPreview
    /\ client.call = "release" => preview # "starting"
    /\ At("release", "flags") /\ ~previewRunning /\ ~exitPreview
         => preview = "sleep"
    /\ At("release", "joinPreview") => exitPreview /\ previewRunning

(* The device streams only while the preview runs or is being stopped.     *)

StartedRuns ==
    /\ dev.started => previewRunning \/ Stopping("wait")
    /\ preview \in {"signal", "dead"} => ~dev.started

(* Until a picture is taken the preview is off; a release under way then   *)
(* only lets the preview thread run to its exit.                           *)

Apart ==
    picture \in {"starting", "snapshot"} =>
        /\ ~dev.started
        /\ preview \notin {"get", "show?", "show"}
        /\ ~Stopping("wait")
        /\ previewRunning => /\ client.call = "release"
                             /\ preview = "sleep" \/ exitPreview

(* A frame on its way to the client.                                       *)

Shown == preview \in {"show?", "show"} => dev.started /\ dev.prev \notin dev.queued

DeviceInv == SafeInv /\ Lifetime /\ StartedRuns /\ Apart /\ Shown

-----------------------------------------------------------------------------
(* What the functions of V4L2Camera may do to the device.                  *)

\* Taking the buffers back leaves the rest of the device alone.
LEMMA UnqueuedKeeps ==
    ASSUME NEW d \in Devices
    PROVE  /\ Unqueued(d) \in Devices
           /\ Unqueued(d).open = d.open
           /\ Unqueued(d).started = d.started
  BY DEF Unqueued, Devices

\* Opening or closing the descriptor leaves the rest of the device alone.
LEMMA DescriptorKeeps ==
    ASSUME NEW d \in Devices, NEW b \in BOOLEAN
    PROVE  /\ [d EXCEPT !.open = b] \in Devices
           /\ [d EXCEPT !.open = b].open = b
           /\ [d EXCEPT !.open = b].started = d.started
           /\ [d EXCEPT !.open = b].prev = d.prev
           /\ [d EXCEPT !.open = b].queued = d.queued
  BY DEF Devices

\* V4L2Camera::stopPreview never starts a stream, and ends it if it can.
LEMMA DevStopEffect ==
    ASSUME NEW d \in Devices, NEW r \in DevStop(d)
    PROVE  /\ r[2] \in Devices
           /\ r[2].open = d.open
           /\ r[2].started => d.started
           /\ "streamOff" \notin Faults => ~r[2].started
           /\ r[1] \in BOOLEAN
  <1>1. CASE ~d.started
    <2>1. r = <<TRUE, d>>
      BY <1>1 DEF DevStop
    <2> QED
      BY <1>1, <2>1
  <1>2. CASE d.started
    <2>1. CASE r = <<TRUE, [Unqueued(d) EXCEPT !.started = FALSE]>>
      BY <2>1 DEF Unqueued, Devices
    <2>2. CASE r = <<FALSE, d>> /\ "streamOff" \in Faults
      BY <1>2, <2>2
    <2> QED
      BY <1>2, <2>1, <2>2 DEF DevStop
  <1> QED
    BY <1>1, <1>2 DEF Devices

\* V4L2Camera::startPreview leaves a stream on only if it says so.
LEMMA DevStartEffect ==
    ASSUME NEW d \in Devices, NEW r \in DevStart(d)
    PROVE  /\ r[2] \in Devices
           /\ r[2].open = d.open
           /\ r[2].started => r[1]
           /\ r[1] \in BOOLEAN
  <1>1. CASE d.started
    <2>1. r = <<TRUE, d>>
      BY <1>1 DEF DevStart
    <2> QED
      BY <1>1, <2>1
  <1>2. CASE ~d.started
    <2>1. CASE r = <<TRUE, [d EXCEPT !.started = TRUE, !.requested = TRUE,
                                     !.queued = Buffers \ {0}, !.prev = 0]>>
      <3>1. 0 \in Buffers
        BY CameraAssumption DEF Buffers
      <3> QED
        BY <2>1, <3>1 DEF Devices
    <2>2. CASE r = <<FALSE, Unqueued(d)>>
      BY <1>2, <2>2, UnqueuedKeeps
    <2> QED
      BY <1>2, <2>1, <2>2 DEF DevStart
  <1> QED
    BY <1>1, <1>2 DEF Devices

\* A failing getPreview never starts a stream.
LEMMA GetFailsEffect ==
    ASSUME NEW d \in Devices, NEW e \in GetFails(d)
    PROVE  /\ e \in Devices
           /\ e.open = d.open
           /\ e.started => d.started
  <1>1. CASE e = d
    BY <1>1
  <1>2. CASE \E r \in DevStop(d) : e = r[2]
    BY <1>2, DevStopEffect
  <1>3. CASE e = [d EXCEPT !.queued = @ \cup {d.prev}]
    BY <1>3 DEF Devices
  <1> QED
    BY <1>1, <1>2, <1>3 DEF GetFails

\* A frame comes from a stream, and its buffer from the driver.
LEMMA GetFramesEffect ==
    ASSUME NEW d \in Devices, NEW e \in GetFrames(d)
    PROVE  /\ e \in Devices
           /\ e.open = d.open
           /\ d.started /\ e.started
           /\ e.prev \notin e.queued
  <1>1. d.started
    BY DEF GetFrames
  <1>2. PICK i \in d.queued \cup {d.prev} :
           e = [d EXCEPT !.queued = (@ \cup {d.prev}) \ {i}, !.prev = i]
    BY DEF GetFrames
  <1>3. i \in Buffers
    BY <1>2 DEF Devices
  <1> QED
    BY <1>1, <1>2, <1>3 DEF Devices

\* The snapshot never leaves a stream on that was off.
LEMMA DevSnapshotEffect ==
    ASSUME NEW d \in Devices, NEW e \in DevSnapshot(d) \cup {d}
    PROVE  /\ e \in Devices
           /\ e.open = d.open
           /\ e.started => d.started
  <1>1. CASE e = d
    BY <1>1
  <1>2. CASE e \in DevSnapshot(d)
    <2>1. PICK r \in DevStop(d) : e = IF r[1] THEN Unqueued(r[2]) ELSE r[2]
      BY <1>2 DEF DevSnapshot
    <2> QED
      BY <2>1, DevStopEffect, UnqueuedKeeps
  <1> QED
    BY <1>1, <1>2

-----------------------------------------------------------------------------
(* The part of the invariant that holds under every assumption.            *)

USE DEF threads, flags, locks

\* No step stores anything but a truth value in a flag.
LEMMA FlagsStep == ASSUME TypeOK, [Next]_vars PROVE FlagTypes'
  <1> USE DEF FlagTypes
  <1>0. FlagTypes /\ dev \in Devices
    BY DEF TypeOK
  <1>1. CASE UNCHANGED flags
    BY <1>0, <1>1
  <1>2. CASE StartDevice
    BY <1>0, <1>2, DevStartEffect, Zenon DEF StartDevice
  <1>3. CASE \/ Open \/ StartLocksPreview \/ StopAndWait \/ TakeMarks \/ ExitPicture
             \/ CancelJoined \/ AutoFocus \/ ReleaseFlags \/ ReleaseFocus
             \/ PreviewGets \/ FocusWakes \/ PictureClears
    BY <1>0, <1>3, Zenon DEF Open, StartLocksPreview, StopAndWait, TakeMarks,
       ExitPicture, CancelJoined, AutoFocus, ReleaseFlags, ReleaseFocus,
       PreviewGets, FocusWakes, PictureClears
  <1> QED
    BY <1>1, <1>2, <1>3, Zenon
       DEF vars, Next, ClientStep, PreviewStep, FocusStep, PictureStep, Call,
           StartRefusedByCapture, StartLocksState, StartRefusedRunning,
           StopNotRunning, StopWoken, TakeRefused, TakeRunsThread,
           ReleaseSignals, ReleasePicture, ReleaseCloses, PreviewStarts,
           PreviewLocks, PreviewChecks, PreviewStops, PreviewSleeps,
           PreviewTestsExit, PreviewExits, PreviewGetFails, PreviewShows,
           PreviewShown, FocusStarts, FocusDone, PictureStarts, PictureSnaps,
           PictureDelivers, PictureEnds

\* Every step of every thread keeps SafeInv.
LEMMA SafeStep == ASSUME SafeInv, [Next]_vars PROVE SafeInv'
  <1> USE DEF SafeInv, TypeOK, Locks, Flag, Quiet, CaptureFlagExact, UnderWay,
              PastTest, Ended, CallNames, At, Stopping, Idle, Free
  <1>a. FlagTypes'
    BY FlagsStep, Zenon DEF SafeInv
  <1>0. CASE UNCHANGED vars
    BY <1>a, <1>0 DEF vars
  <1>1. CASE Open
    <2>1. dev' \in Devices /\ dev'.open = TRUE
      BY <1>1, DescriptorKeeps DEF Open
    <2>2. 0 \in 0 .. InitialSkip
      BY CameraAssumption
    <2> QED
      BY <1>a, <1>1, <2>1, <2>2 DEF Open
  <1>2. ASSUME NEW call \in CallNames, Call(call) PROVE  SafeInv'
    BY <1>a, <1>2 DEF Call, Idle, FirstLabel, PreviewInLoop
  <1>3. CASE StartRefusedByCapture
    BY <1>a, <1>3 DEF StartRefusedByCapture, Return, At
  <1>4. CASE StartLocksState
    BY <1>a, <1>4 DEF StartLocksState, GoTo, At
  <1>5. CASE StartRefusedRunning
    BY <1>a, <1>5 DEF StartRefusedRunning, Return, At
  <1>6. CASE StartLocksPreview
    BY <1>a, <1>6, CameraAssumption DEF StartLocksPreview, GoTo, At
  <1>7. CASE StartDevice
    BY <1>a, <1>7, DevStartEffect DEF StartDevice, Return, SignalPreview, At
  <1>8. CASE StopNotRunning
    BY <1>a, <1>8 DEF StopNotRunning, AfterStop, Stopping, GoTo, Return
  <1>9. CASE StopAndWait
    BY <1>a, <1>9 DEF StopAndWait, GoTo, SignalPreview, Stopping
  <1>10. CASE StopWoken
    BY <1>a, <1>10 DEF StopWoken, AfterStop, Stopping, GoTo, Return
  <1>11. CASE TakeRefused
    BY <1>a, <1>11 DEF TakeRefused, Return, PictureAlive, At, MayFail
  <1>12. CASE TakeRunsThread
    BY <1>a, <1>12 DEF TakeRunsThread, GoTo, PictureAlive, At
  <1>13. CASE TakeMarks
    BY <1>a, <1>13 DEF TakeMarks, Return, At
  <1>14. CASE ExitPicture
    BY <1>a, <1>14 DEF ExitPicture, GoTo
  <1>15. CASE CancelJoined
    BY <1>a, <1>15 DEF CancelJoined, Return, PictureAlive, At
  <1>16. CASE AutoFocus
    BY <1>a, <1>16 DEF AutoFocus, Return, SignalFocus, At
  <1>17. CASE ReleaseFlags
    BY <1>a, <1>17 DEF ReleaseFlags, At
  <1>18. CASE ReleaseSignals
    BY <1>a, <1>18 DEF ReleaseSignals, GoTo, SignalPreview, At
  <1>19. CASE ReleaseFocus
    BY <1>a, <1>19 DEF ReleaseFocus, GoTo, SignalFocus, At
  <1>20. CASE ReleasePicture
    BY <1>a, <1>20 DEF ReleasePicture, GoTo, At
  <1>21. CASE ReleaseCloses
    <2>1. dev' \in Devices /\ ~dev'.open
      BY <1>21, UnqueuedKeeps, DescriptorKeeps DEF ReleaseCloses
    <2> QED
      BY <1>a, <1>21, <2>1 DEF ReleaseCloses, Return, PictureAlive
  <1>22. CASE PreviewStarts
    BY <1>a, <1>22 DEF PreviewStarts
  <1>23. CASE PreviewLocks
    BY <1>a, <1>23 DEF PreviewLocks
  <1>24. CASE PreviewChecks
    BY <1>a, <1>24 DEF PreviewChecks
  <1>25. CASE PreviewStops
    BY <1>a, <1>25, DevStopEffect DEF PreviewStops
  <1>26. CASE PreviewSleeps
    BY <1>a, <1>26 DEF PreviewSleeps, Stopping
  <1>27. CASE PreviewTestsExit
    BY <1>a, <1>27 DEF PreviewTestsExit
  <1>28. CASE PreviewExits
    BY <1>a, <1>28, DevStopEffect DEF PreviewExits
  <1>29. CASE PreviewGetFails
    BY <1>a, <1>29, GetFailsEffect DEF PreviewGetFails
  <1>30. CASE PreviewGets
    BY <1>a, <1>30, GetFramesEffect, CameraAssumption DEF PreviewGets
  <1>31. CASE PreviewShows
    BY <1>a, <1>31 DEF PreviewShows
  <1>32. CASE PreviewShown
    BY <1>a, <1>32 DEF PreviewShown
  <1>33. CASE FocusStarts
    BY <1>a, <1>33 DEF FocusStarts
  <1>34. CASE FocusWakes
    BY <1>a, <1>34 DEF FocusWakes
  <1>35. CASE FocusDone
    BY <1>a, <1>35 DEF FocusDone
  <1>36. CASE PictureStarts
    BY <1>a, <1>36 DEF PictureStarts
  <1>37. CASE PictureSnaps
    BY <1>a, <1>37, DevSnapshotEffect DEF PictureSnaps
  <1>38. CASE PictureDelivers
    BY <1>a, <1>38 DEF PictureDelivers
  <1>39. CASE PictureClears
    BY <1>a, <1>39 DEF PictureClears
  <1>40. CASE PictureEnds
    BY <1>a, <1>40 DEF PictureEnds
  <1> QED
    BY <1>0, <1>1, <1>2, <1>3, <1>4, <1>5, <1>6, <1>7, <1>8, <1>9, <1>10,
       <1>11, <1>12, <1>13, <1>14, <1>15, <1>16, <1>17, <1>18, <1>19,
       <1>20, <1>21, <1>22, <1>23, <1>24, <1>25, <1>26, <1>27, <1>28,
       <1>29, <1>30, <1>31, <1>32, <1>33, <1>34, <1>35, <1>36, <1>37,
       <1>38, <1>39, <1>40
       DEF Next, ClientStep, PreviewStep, FocusStep, PictureStep

-----------------------------------------------------------------------------
(* The part that needs well behaved surroundings.                          *)

\* A stream can be switched off, and release is not called too early.
WellBehaved == ~EarlyRelease /\ "streamOff" \notin Faults

\* The other conjuncts of DeviceInv.
DeviceParts == Lifetime /\ StartedRuns /\ Apart /\ Shown

\* Every step keeps the threads apart.
LEMMA DeviceStep ==
    ASSUME WellBehaved, DeviceInv, [Next]_vars PROVE DeviceInv'
  <1> USE DEF SafeInv, TypeOK, Locks, Flag, Quiet, Ended, CaptureFlagExact,
              UnderWay, PastTest, CallNames, At, Stopping, Idle, Free,
              Lifetime, StartedRuns, Apart, Shown, WellBehaved, DeviceParts
  <1>a. SafeInv /\ DeviceParts /\ dev \in Devices
    BY DEF DeviceInv
  <1>0. ASSUME UNCHANGED vars PROVE DeviceParts'
    BY <1>a, <1>0 DEF vars
  <1>1. ASSUME Open PROVE DeviceParts'
    BY <1>a, <1>1, DescriptorKeeps DEF Open
  <1>2. ASSUME NEW call \in CallNames, Call(call) PROVE DeviceParts'
    BY <1>a, <1>2 DEF Call, FirstLabel, PreviewInLoop
  <1>3. ASSUME StartRefusedByCapture PROVE DeviceParts'
    BY <1>a, <1>3 DEF StartRefusedByCapture, Return, At
  <1>4. ASSUME StartLocksState PROVE DeviceParts'
    BY <1>a, <1>4 DEF StartLocksState, GoTo, At
  <1>5. ASSUME StartRefusedRunning PROVE DeviceParts'
    BY <1>a, <1>5 DEF StartRefusedRunning, Return, At
  <1>6. ASSUME StartLocksPreview PROVE DeviceParts'
    BY <1>a, <1>6, CameraAssumption DEF StartLocksPreview, GoTo, At
  <1>7. ASSUME StartDevice PROVE DeviceParts'
    BY <1>a, <1>7, DevStartEffect DEF StartDevice, Return, SignalPreview, At
  <1>8. ASSUME StopNotRunning PROVE DeviceParts'
    BY <1>a, <1>8 DEF StopNotRunning, AfterStop, Stopping, GoTo, Return
  <1>9. ASSUME StopAndWait PROVE DeviceParts'
    BY <1>a, <1>9 DEF StopAndWait, GoTo, SignalPreview, Stopping
  <1>10. ASSUME StopWoken PROVE DeviceParts'
    BY <1>a, <1>10 DEF StopWoken, AfterStop, Stopping, GoTo, Return
  <1>11. ASSUME TakeRefused PROVE DeviceParts'
    BY <1>a, <1>11 DEF TakeRefused, Return, PictureAlive, At, MayFail
  <1>12. ASSUME TakeRunsThread PROVE DeviceParts'
    BY <1>a, <1>12 DEF TakeRunsThread, GoTo, PictureAlive, At
  <1>13. ASSUME TakeMarks PROVE DeviceParts'
    BY <1>a, <1>13 DEF TakeMarks, Return, At
  <1>14. ASSUME ExitPicture PROVE DeviceParts'
    BY <1>a, <1>14 DEF ExitPicture, GoTo
  <1>15. ASSUME CancelJoined PROVE DeviceParts'
    BY <1>a, <1>15 DEF CancelJoined, Return, PictureAlive, At
  <1>16. ASSUME AutoFocus PROVE DeviceParts'
    BY <1>a, <1>16 DEF AutoFocus, Return, SignalFocus, At
  <1>17. ASSUME ReleaseFlags PROVE DeviceParts'
    BY <1>a, <1>17 DEF ReleaseFlags, At
  <1>18. ASSUME ReleaseSignals PROVE DeviceParts'
    BY <1>a, <1>18 DEF ReleaseSignals, GoTo, SignalPreview, At
  <1>19. ASSUME ReleaseFocus PROVE DeviceParts'
    BY <1>a, <1>19 DEF ReleaseFocus, GoTo, SignalFocus, At
  <1>20. ASSUME ReleasePicture PROVE DeviceParts'
    BY <1>a, <1>20 DEF ReleasePicture, GoTo, At
  <1>21. ASSUME ReleaseCloses PROVE DeviceParts'
    BY <1>a, <1>21, UnqueuedKeeps, DescriptorKeeps DEF ReleaseCloses, Return, PictureAlive
  <1>22. ASSUME PreviewStarts PROVE DeviceParts'
    BY <1>a, <1>22 DEF PreviewStarts
  <1>23. ASSUME PreviewLocks PROVE DeviceParts'
    BY <1>a, <1>23 DEF PreviewLocks
  <1>24. ASSUME PreviewChecks PROVE DeviceParts'
    BY <1>a, <1>24 DEF PreviewChecks
  <1>25. ASSUME PreviewStops PROVE DeviceParts'
    BY <1>a, <1>25, DevStopEffect DEF PreviewStops
  <1>26. ASSUME PreviewSleeps PROVE DeviceParts'
    BY <1>a, <1>26 DEF PreviewSleeps, Stopping
  <1>27. ASSUME PreviewTestsExit PROVE DeviceParts'
    BY <1>a, <1>27 DEF PreviewTestsExit
  <1>28. ASSUME PreviewExits PROVE DeviceParts'
    BY <1>a, <1>28, DevStopEffect DEF PreviewExits
  <1>29. ASSUME PreviewGetFails PROVE DeviceParts'
    BY <1>a, <1>29, GetFailsEffect DEF PreviewGetFails
  <1>30. ASSUME PreviewGets PROVE DeviceParts'
    BY <1>a, <1>30, GetFramesEffect, CameraAssumption DEF PreviewGets
  <1>31. ASSUME PreviewShows PROVE DeviceParts'
    BY <1>a, <1>31 DEF PreviewShows
  <1>32. ASSUME PreviewShown PROVE DeviceParts'
    BY <1>a, <1>32 DEF PreviewShown
  <1>33. ASSUME FocusStarts PROVE DeviceParts'
    BY <1>a, <1>33 DEF FocusStarts
  <1>34. ASSUME FocusWakes PROVE DeviceParts'
    BY <1>a, <1>34 DEF FocusWakes
  <1>35. ASSUME FocusDone PROVE DeviceParts'
    BY <1>a, <1>35 DEF FocusDone
  <1>36. ASSUME PictureStarts PROVE DeviceParts'
    BY <1>a, <1>36 DEF PictureStarts
  <1>37. ASSUME PictureSnaps PROVE DeviceParts'
    BY <1>a, <1>37, DevSnapshotEffect DEF PictureSnaps
  <1>38. ASSUME PictureDelivers PROVE DeviceParts'
    BY <1>a, <1>38 DEF PictureDelivers
  <1>39. ASSUME PictureClears PROVE DeviceParts'
    BY <1>a, <1>39 DEF PictureClears
  <1>40. ASSUME PictureEnds PROVE DeviceParts'
    BY <1>a, <1>40 DEF PictureEnds
  <1> QED
    <2>1. DeviceParts'
      BY <1>0, <1>1, <1>2, <1>3, <1>4, <1>5, <1>6, <1>7, <1>8, <1>9, <1>10,
         <1>11, <1>12, <1>13, <1>14, <1>15, <1>16, <1>17, <1>18, <1>19,
         <1>20, <1>21, <1>22, <1>23, <1>24, <1>25, <1>26, <1>27, <1>28,
         <1>29, <1>30, <1>31, <1>32, <1>33, <1>34, <1>35, <1>36, <1>37,
         <1>38, <1>39, <1>40
         DEF Next, ClientStep, PreviewStep, FocusStep, PictureStep
    <2> QED
      BY <1>a, <2>1, SafeStep DEF DeviceInv, DeviceParts

-----------------------------------------------------------------------------
(* Theorems.                                                               *)

\* A HAL nobody has opened yet satisfies SafeInv.
LEMMA SafeInit == Init => SafeInv
  <1>1. NoDevice \in Devices /\ NoDevice.open = FALSE
    BY CameraAssumption DEF NoDevice, Devices, Buffers
  <1>2. 0 \in 0 .. InitialSkip
    BY CameraAssumption
  <1>3. Init => FlagTypes
    BY Zenon DEF Init, FlagTypes
  <1> QED
    BY <1>1, <1>2, <1>3
       DEF Init, SafeInv, TypeOK, CallNames, Locks, Flag, Quiet, Ended,
           CaptureFlagExact, UnderWay, PastTest, At, Stopping, Idle, Free

\* SafeInv is an invariant.
LEMMA SafeAlways == Spec => []SafeInv
  <1>1. SafeInv /\ [Next]_vars => SafeInv'
    BY SafeStep
  <1> QED
    BY <1>1, SafeInit, PTL DEF Spec

\* Every variable of the camera HAL stays in its type; in particular
\* setSkipFrame never lets the frames to skip grow past INITIAL_SKIP_FRAME.
THEOREM TypeCorrect == Spec => []TypeOK
  <1>1. SafeInv => TypeOK
    BY DEF SafeInv
  <1> QED
    BY <1>1, SafeAlways, PTL

\* Between stopPreview and the next startPreview the preview thread fetches
\* and shows nothing, whatever the device does and however the calls mix.
THEOREM StoppedIsQuiet == Spec => []StoppedMeansQuiet
  <1>1. SafeInv => StoppedMeansQuiet
    BY DEF SafeInv, Quiet, PastTest, StoppedMeansQuiet
  <1> QED
    BY <1>1, SafeAlways, PTL

\* mCaptureInProgress is right whenever mStateLock is free, also when the
\* picture thread ends before takePicture has set the flag.
THEOREM CaptureFlagRight == Spec => []CaptureFlagExact
  <1>1. SafeInv => CaptureFlagExact
    BY DEF SafeInv, Flag
  <1> QED
    BY <1>1, SafeAlways, PTL

\* DeviceInv is an invariant of well behaved surroundings.
LEMMA DeviceAlways == ASSUME WellBehaved PROVE Spec => []DeviceInv
  <1>1. Init => SafeInv /\ DeviceParts
    BY SafeInit
       DEF Init, DeviceParts, Lifetime, StartedRuns, Apart, Shown, At, Idle, NoDevice
  <1>2. DeviceInv /\ [Next]_vars => DeviceInv'
    BY DeviceStep
  <1>3. SafeInv /\ DeviceParts => DeviceInv
    BY DEF DeviceInv, DeviceParts
  <1> QED
    BY <1>1, <1>2, <1>3, PTL DEF Spec

\* V4L2Camera needs no lock of its own: given that a stream can be switched
\* off and that the preview thread is in its loop before release is called, no
\* two threads are ever inside the device.
THEOREM DeviceExclusive == ASSUME WellBehaved PROVE Spec => []CaptureExclusive
  <1>1. DeviceInv => CaptureExclusive
    BY DEF DeviceInv, SafeInv, TypeOK, Locks, Flag, Quiet, PastTest, UnderWay,
           Lifetime, StartedRuns, Apart, CaptureExclusive, ClientInDevice,
           PreviewInDevice, PictureInDevice, At, Stopping
  <1> QED
    BY <1>1, DeviceAlways, PTL

\* Under the same conditions the frame the client looks at is not one the
\* driver may write into.
THEOREM ShownFrameStable == ASSUME WellBehaved PROVE Spec => []FrameStable
  <1>1. DeviceInv => FrameStable
    BY DEF DeviceInv, Shown, FrameStable
  <1> QED
    BY <1>1, DeviceAlways, PTL

=============================================================================
