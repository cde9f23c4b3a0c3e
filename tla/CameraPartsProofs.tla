-------------------------- MODULE CameraPartsProofs --------------------------
(***************************************************************************)
(* Why the three parts of the camera that work on their own, the capture   *)
(* node, the parameters and the JPEG encoder, keep what they promise,      *)
(* whatever the driver fails, the sensor refuses and the tags hold.        *)
(***************************************************************************)
EXTENDS PartsProofs

-----------------------------------------------------------------------------
(* The capture node: preview and recording never stream from it at once,   *)
(* as long as it can be stopped, and no buffer is freed under the driver,  *)
(* whatever fails.                                                         *)

NodeStarting == {"reqbufs", "queue", "on", "poll", "free", "started"}
NodeSteps ==
    NodeStarting \cup {"idle", "stopping", "exiting", "exit", "stop", "close",
                       "free stop", "free close"}
NodeThreads == {"none", "waits", "runs", "stopped",
                "poll off", "poll free", "stop off", "stop free"}
PreviewStopsOff == s11 \in {"poll off", "stop off"}
PreviewFrees == s11 \in {"poll free", "stop free"}

NodeFlags ==
    /\ s1 \in BOOLEAN /\ s7 \in BOOLEAN /\ s12 \in BOOLEAN
    /\ s5 \in BOOLEAN /\ s6 \in BOOLEAN

NodeTypes ==
    /\ s2 \in Node!Use \cup {"empty"} /\ s8 \in Node!Use \cup {"none"}
    /\ s3 \in SUBSET Node!Use /\ s4 \in SUBSET Node!Use
    /\ s9 \in Node!Use \cup {"none"} /\ s10 \in NodeSteps
    /\ s11 \in NodeThreads

(* What a call that starts a use finds in the driver.  The buffers it      *)
(* asked for may be gone: the thread of the preview frees without looking. *)

UseFinds ==
    \A use \in Node!Use :
        /\ s9 = use /\ s10 \in {"reqbufs", "queue", "on", "free"} => ~s7
        /\ Node!At(use, "queue") => s2 \in {use, "empty"}
        /\ Node!At(use, "on") => s8 \in {use, "none"}
        /\ Node!At(use, "poll") => s7 /\ s8 = use
        /\ Node!At(use, "started") => use \in s4
        /\ s9 = use /\ s10 \in NodeStarting => s1
        /\ s9 = use /\ s10 \in NodeStarting \ {"started"} => use \notin s4

(* The preview is started only while its thread is about to run, runs or   *)
(* stops it.                                                               *)

PreviewLives ==
    /\ "preview" \in s4 =>
           \/ s11 = "runs" \/ PreviewStopsOff \/ PreviewFrees
           \/ s11 = "waits" /\ Node!At("preview", "started")
    /\ PreviewStopsOff \/ PreviewFrees => "preview" \in s4
    /\ "preview" \in s4 /\ ~PreviewFrees => s7 /\ s8 = "preview"
    /\ s9 = "preview" /\ s10 \in NodeStarting => s11 = "waits"

(* A recording ends before the node is closed.                             *)

RecordLives ==
    /\ "record" \in s4 => s1
    /\ Node!At("record", "free stop") \/ Node!At("record", "free close") => ~s7
    /\ "record" \in s4 =>
           \/ s7 /\ s8 = "record"
           \/ Node!At("record", "free stop") \/ Node!At("record", "free close")
    /\ Node!At("record", "close") => "record" \notin s4
    /\ Node!At("preview", "exit") => s11 = "none"
    /\ s9 = "record" /\ s10 \in {"close", "free close"} => s11 = "none"

NodeInv ==
    /\ NodeFlags /\ NodeTypes /\ Node!QueuedIsHeld
    /\ ~s12 => UseFinds /\ PreviewLives /\ RecordLives

-----------------------------------------------------------------------------

LEMMA NodeStart == Node!Init => NodeInv
  BY DEF Node!Init, NodeInv, NodeFlags, NodeTypes, Node!QueuedIsHeld, UseFinds,
         PreviewLives, RecordLives, Node!At, Node!Use,
         NodeThreads, NodeSteps, NodeStarting, PreviewStopsOff, PreviewFrees

LEMMA NodeStep == NodeInv /\ [Node!Next]_(Node!nodeVars) => NodeInv'
  <1> SUFFICES ASSUME NodeInv, [Node!Next]_(Node!nodeVars) PROVE NodeInv'
    OBVIOUS
  <1> USE DEF NodeInv, NodeFlags, NodeTypes, Node!QueuedIsHeld, UseFinds, PreviewLives,
              RecordLives, Node!At, Node!GoTo, Node!Idle,
              Node!Return, Node!Use, NodeThreads, NodeSteps, NodeStarting, PreviewStopsOff,
              PreviewFrees,
              Node!api, Node!halVars, Node!driverVars
  <1>1. CASE Node!startPreview
    <2>1. NodeFlags'
      BY <1>1 DEF Node!startPreview, Node!SetFormat
    <2>2. NodeTypes'
      BY <1>1 DEF Node!startPreview, Node!SetFormat
    <2>3. Node!QueuedIsHeld'
      BY <1>1 DEF Node!startPreview, Node!SetFormat
    <2>4. ~s12' => UseFinds'
      BY <1>1 DEF Node!startPreview, Node!SetFormat
    <2>5. ~s12' => PreviewLives'
      BY <1>1 DEF Node!startPreview, Node!SetFormat
    <2>6. ~s12' => RecordLives'
      BY <1>1 DEF Node!startPreview, Node!SetFormat
    <2> QED
      BY <2>1, <2>2, <2>3, <2>4, <2>5, <2>6
  <1>2. CASE Node!startPreviewAgain
    <2>1. NodeFlags'
      BY <1>2 DEF Node!startPreviewAgain
    <2>2. NodeTypes'
      BY <1>2 DEF Node!startPreviewAgain
    <2>3. Node!QueuedIsHeld'
      BY <1>2 DEF Node!startPreviewAgain
    <2>4. ~s12' => UseFinds'
      BY <1>2 DEF Node!startPreviewAgain
    <2>5. ~s12' => PreviewLives'
      BY <1>2 DEF Node!startPreviewAgain
    <2>6. ~s12' => RecordLives'
      BY <1>2 DEF Node!startPreviewAgain
    <2> QED
      BY <2>1, <2>2, <2>3, <2>4, <2>5, <2>6
  <1>3. CASE Node!startRecording
    <2>1. NodeFlags'
      BY <1>3 DEF Node!startRecording, Node!SetFormat
    <2>2. NodeTypes'
      BY <1>3 DEF Node!startRecording, Node!SetFormat
    <2>3. Node!QueuedIsHeld'
      BY <1>3 DEF Node!startRecording, Node!SetFormat
    <2>4. ~s12' => UseFinds'
      BY <1>3 DEF Node!startRecording, Node!SetFormat
    <2>5. ~s12' => PreviewLives'
      BY <1>3 DEF Node!startRecording, Node!SetFormat
    <2>6. ~s12' => RecordLives'
      BY <1>3 DEF Node!startRecording, Node!SetFormat
    <2> QED
      BY <2>1, <2>2, <2>3, <2>4, <2>5, <2>6
  <1>4. CASE Node!startRecordingAgain
    <2>1. NodeFlags'
      BY <1>4 DEF Node!startRecordingAgain
    <2>2. NodeTypes'
      BY <1>4 DEF Node!startRecordingAgain
    <2>3. Node!QueuedIsHeld'
      BY <1>4 DEF Node!startRecordingAgain
    <2>4. ~s12' => UseFinds'
      BY <1>4 DEF Node!startRecordingAgain
    <2>5. ~s12' => PreviewLives'
      BY <1>4 DEF Node!startRecordingAgain
    <2>6. ~s12' => RecordLives'
      BY <1>4 DEF Node!startRecordingAgain
    <2> QED
      BY <2>1, <2>2, <2>3, <2>4, <2>5, <2>6
  <1>5. CASE Node!Started
    <2>1. NodeFlags'
      BY <1>5 DEF Node!Started
    <2>2. NodeTypes'
      BY <1>5 DEF Node!Started
    <2>3. Node!QueuedIsHeld'
      BY <1>5 DEF Node!Started
    <2>4. ~s12' => UseFinds'
      BY <1>5 DEF Node!Started
    <2>5. ~s12' => PreviewLives'
      BY <1>5 DEF Node!Started
    <2>6. ~s12' => RecordLives'
      BY <1>5 DEF Node!Started
    <2> QED
      BY <2>1, <2>2, <2>3, <2>4, <2>5, <2>6
  <1>6. CASE Node!stopPreview
    <2>1. NodeFlags'
      BY <1>6 DEF Node!stopPreview
    <2>2. NodeTypes'
      BY <1>6 DEF Node!stopPreview
    <2>3. Node!QueuedIsHeld'
      BY <1>6 DEF Node!stopPreview
    <2>4. ~s12' => UseFinds'
      BY <1>6 DEF Node!stopPreview
    <2>5. ~s12' => PreviewLives'
      BY <1>6 DEF Node!stopPreview
    <2>6. ~s12' => RecordLives'
      BY <1>6 DEF Node!stopPreview
    <2> QED
      BY <2>1, <2>2, <2>3, <2>4, <2>5, <2>6
  <1>7. CASE Node!stopRecording
    <2>1. NodeFlags'
      BY <1>7 DEF Node!stopRecording, Node!StopRecordOff, Node!StreamOff,
                  Node!StreamOffFails
    <2>2. NodeTypes'
      BY <1>7 DEF Node!stopRecording, Node!StopRecordOff, Node!StreamOff,
                  Node!StreamOffFails
    <2>3. Node!QueuedIsHeld'
      BY <1>7 DEF Node!stopRecording, Node!StopRecordOff, Node!StreamOff,
                  Node!StreamOffFails
    <2>4. ~s12' => UseFinds'
      BY <1>7 DEF Node!stopRecording, Node!StopRecordOff, Node!StreamOff,
                  Node!StreamOffFails
    <2>5. ~s12' => PreviewLives'
      BY <1>7 DEF Node!stopRecording, Node!StopRecordOff, Node!StreamOff,
                  Node!StreamOffFails
    <2>6. ~s12' => RecordLives'
      BY <1>7 DEF Node!stopRecording, Node!StopRecordOff, Node!StreamOff,
                  Node!StreamOffFails
    <2> QED
      BY <2>1, <2>2, <2>3, <2>4, <2>5, <2>6
  <1>8. CASE Node!StopRecordFree
    <2>1. NodeFlags'
      BY <1>8 DEF Node!StopRecordFree, Node!reqBufs, Node!reqBufsFails
    <2>2. NodeTypes'
      BY <1>8 DEF Node!StopRecordFree, Node!reqBufs, Node!reqBufsFails
    <2>3. Node!QueuedIsHeld'
      BY <1>8 DEF Node!StopRecordFree, Node!reqBufs, Node!reqBufsFails
    <2>4. ~s12' => UseFinds'
      BY <1>8 DEF Node!StopRecordFree, Node!reqBufs, Node!reqBufsFails
    <2>5. ~s12' => PreviewLives'
      BY <1>8 DEF Node!StopRecordFree, Node!reqBufs, Node!reqBufsFails
    <2>6. ~s12' => RecordLives'
      BY <1>8 DEF Node!StopRecordFree, Node!reqBufs, Node!reqBufsFails
    <2> QED
      BY <2>1, <2>2, <2>3, <2>4, <2>5, <2>6
  <1>9. CASE Node!StopRecordingEnd
    <2>1. NodeFlags'
      BY <1>9 DEF Node!StopRecordingEnd
    <2>2. NodeTypes'
      BY <1>9 DEF Node!StopRecordingEnd
    <2>3. Node!QueuedIsHeld'
      BY <1>9 DEF Node!StopRecordingEnd
    <2>4. ~s12' => UseFinds'
      BY <1>9 DEF Node!StopRecordingEnd
    <2>5. ~s12' => PreviewLives'
      BY <1>9 DEF Node!StopRecordingEnd
    <2>6. ~s12' => RecordLives'
      BY <1>9 DEF Node!StopRecordingEnd
    <2> QED
      BY <2>1, <2>2, <2>3, <2>4, <2>5, <2>6
  <1>10. ASSUME NEW use \in Node!Use, Node!ReqBufs(use) PROVE NodeInv'
    <2>1. NodeFlags'
      BY <1>10 DEF Node!ReqBufs, Node!reqBufs, Node!reqBufsFails
    <2>2. NodeTypes'
      BY <1>10 DEF Node!ReqBufs, Node!reqBufs, Node!reqBufsFails
    <2>3. Node!QueuedIsHeld'
      BY <1>10 DEF Node!ReqBufs, Node!reqBufs, Node!reqBufsFails
    <2>4. ~s12' => UseFinds'
      BY <1>10 DEF Node!ReqBufs, Node!reqBufs, Node!reqBufsFails
    <2>5. ~s12' => PreviewLives'
      BY <1>10 DEF Node!ReqBufs, Node!reqBufs, Node!reqBufsFails
    <2>6. ~s12' => RecordLives'
      BY <1>10 DEF Node!ReqBufs, Node!reqBufs, Node!reqBufsFails
    <2> QED
      BY <2>1, <2>2, <2>3, <2>4, <2>5, <2>6
  <1>11. ASSUME NEW use \in Node!Use, Node!Queue(use) PROVE NodeInv'
    <2>1. NodeFlags'
      BY <1>11 DEF Node!Queue
    <2>2. NodeTypes'
      BY <1>11 DEF Node!Queue
    <2>3. Node!QueuedIsHeld'
      BY <1>11 DEF Node!Queue
    <2>4. ~s12' => UseFinds'
      BY <1>11 DEF Node!Queue
    <2>5. ~s12' => PreviewLives'
      BY <1>11 DEF Node!Queue
    <2>6. ~s12' => RecordLives'
      BY <1>11 DEF Node!Queue
    <2> QED
      BY <2>1, <2>2, <2>3, <2>4, <2>5, <2>6
  <1>12. ASSUME NEW use \in Node!Use, Node!On(use) PROVE NodeInv'
    <2>1. NodeFlags'
      BY <1>12 DEF Node!On
    <2>2. NodeTypes'
      BY <1>12 DEF Node!On
    <2>3. Node!QueuedIsHeld'
      BY <1>12 DEF Node!On
    <2>4. ~s12' => UseFinds'
      BY <1>12 DEF Node!On
    <2>5. ~s12' => PreviewLives'
      BY <1>12 DEF Node!On
    <2>6. ~s12' => RecordLives'
      BY <1>12 DEF Node!On
    <2> QED
      BY <2>1, <2>2, <2>3, <2>4, <2>5, <2>6
  <1>13. ASSUME NEW use \in Node!Use, Node!Poll(use) PROVE NodeInv'
    <2>1. NodeFlags'
      BY <1>13 DEF Node!Poll, Node!StreamOff, Node!StreamOffFails
    <2>2. NodeTypes'
      BY <1>13 DEF Node!Poll, Node!StreamOff, Node!StreamOffFails
    <2>3. Node!QueuedIsHeld'
      BY <1>13 DEF Node!Poll, Node!StreamOff, Node!StreamOffFails
    <2>4. ~s12' => UseFinds'
      BY <1>13 DEF Node!Poll, Node!StreamOff, Node!StreamOffFails
    <2>5. ~s12' => PreviewLives'
      BY <1>13, ZenonT(60) DEF Node!Poll, Node!StreamOff, Node!StreamOffFails
    <2>6. ~s12' => RecordLives'
      <3>1. CASE /\ s4' = s4 \cup {use} /\ Node!GoTo(use, "started")
               /\ UNCHANGED <<Node!driverVars, s12>>
        BY <1>13, <3>1 DEF Node!Poll, Node!StreamOff, Node!StreamOffFails
      <3>2. CASE Node!GoTo(use, "free") /\ Node!StreamOff /\ UNCHANGED s4
        BY <1>13, <3>2 DEF Node!Poll, Node!StreamOff, Node!StreamOffFails
      <3>3. CASE Node!StreamOffFails
        BY <1>13, <3>3 DEF Node!Poll, Node!StreamOff, Node!StreamOffFails
      <3> QED
        BY <1>13, <3>1, <3>2, <3>3 DEF Node!Poll, Node!StreamOff, Node!StreamOffFails
    <2> QED
      BY <2>1, <2>2, <2>3, <2>4, <2>5, <2>6
  <1>14. ASSUME NEW use \in Node!Use, Node!Free(use) PROVE NodeInv'
    <2>1. NodeFlags'
      BY <1>14 DEF Node!Free, Node!reqBufs, Node!reqBufsFails
    <2>2. NodeTypes'
      BY <1>14 DEF Node!Free, Node!reqBufs, Node!reqBufsFails
    <2>3. Node!QueuedIsHeld'
      BY <1>14 DEF Node!Free, Node!reqBufs, Node!reqBufsFails
    <2>4. ~s12' => UseFinds'
      BY <1>14 DEF Node!Free, Node!reqBufs, Node!reqBufsFails
    <2>5. ~s12' => PreviewLives'
      BY <1>14 DEF Node!Free, Node!reqBufs, Node!reqBufsFails
    <2>6. ~s12' => RecordLives'
      BY <1>14 DEF Node!Free, Node!reqBufs, Node!reqBufsFails
    <2> QED
      BY <2>1, <2>2, <2>3, <2>4, <2>5, <2>6
  <1>15. CASE Node!getPreview
    <2>1. NodeFlags'
      BY <1>15 DEF Node!getPreview
    <2>2. NodeTypes'
      BY <1>15 DEF Node!getPreview
    <2>3. Node!QueuedIsHeld'
      BY <1>15 DEF Node!getPreview
    <2>4. ~s12' => UseFinds'
      BY <1>15 DEF Node!getPreview
    <2>5. ~s12' => PreviewLives'
      BY <1>15 DEF Node!getPreview
    <2>6. ~s12' => RecordLives'
      BY <1>15 DEF Node!getPreview
    <2> QED
      BY <2>1, <2>2, <2>3, <2>4, <2>5, <2>6
  <1>16. CASE Node!getPreviewFails
    <2>1. NodeFlags'
      BY <1>16 DEF Node!getPreviewFails
    <2>2. NodeTypes'
      BY <1>16 DEF Node!getPreviewFails
    <2>3. Node!QueuedIsHeld'
      BY <1>16 DEF Node!getPreviewFails
    <2>4. ~s12' => UseFinds'
      BY <1>16 DEF Node!getPreviewFails
    <2>5. ~s12' => PreviewLives'
      BY <1>16 DEF Node!getPreviewFails
    <2>6. ~s12' => RecordLives'
      BY <1>16 DEF Node!getPreviewFails
    <2> QED
      BY <2>1, <2>2, <2>3, <2>4, <2>5, <2>6
  <1>17. CASE Node!Stopping
    <2>1. NodeFlags'
      BY <1>17 DEF Node!Stopping
    <2>2. NodeTypes'
      BY <1>17 DEF Node!Stopping
    <2>3. Node!QueuedIsHeld'
      BY <1>17 DEF Node!Stopping
    <2>4. ~s12' => UseFinds'
      BY <1>17 DEF Node!Stopping
    <2>5. ~s12' => PreviewLives'
      BY <1>17 DEF Node!Stopping
    <2>6. ~s12' => RecordLives'
      BY <1>17 DEF Node!Stopping
    <2> QED
      BY <2>1, <2>2, <2>3, <2>4, <2>5, <2>6
  <1>18. CASE Node!StopPreviewOff
    <2>1. NodeFlags'
      BY <1>18 DEF Node!StopPreviewOff, Node!StreamOff, Node!StreamOffFails, Node!AfterStop
    <2>2. NodeTypes'
      BY <1>18 DEF Node!StopPreviewOff, Node!StreamOff, Node!StreamOffFails, Node!AfterStop
    <2>3. Node!QueuedIsHeld'
      BY <1>18 DEF Node!StopPreviewOff, Node!StreamOff, Node!StreamOffFails, Node!AfterStop
    <2>4. ~s12' => UseFinds'
      <3>1. CASE Node!StreamOff /\ s11' = IF s11 = "poll off" THEN "poll free" ELSE "stop free"
        BY <1>18, <3>1 DEF Node!StopPreviewOff, Node!StreamOff, Node!StreamOffFails,
                           Node!AfterStop
      <3>2. CASE Node!StreamOffFails
        BY <1>18, <3>2 DEF Node!StopPreviewOff, Node!StreamOff, Node!StreamOffFails,
                           Node!AfterStop
      <3> QED
        BY <1>18, <3>1, <3>2 DEF Node!StopPreviewOff, Node!StreamOff, Node!StreamOffFails,
                                 Node!AfterStop
    <2>5. ~s12' => PreviewLives'
      <3>1. CASE Node!StreamOff /\ s11' = IF s11 = "poll off" THEN "poll free" ELSE "stop free"
        BY <1>18, <3>1 DEF Node!StopPreviewOff, Node!StreamOff, Node!StreamOffFails,
                           Node!AfterStop
      <3>2. CASE Node!StreamOffFails
        BY <1>18, <3>2 DEF Node!StopPreviewOff, Node!StreamOff, Node!StreamOffFails,
                           Node!AfterStop
      <3> QED
        BY <1>18, <3>1, <3>2 DEF Node!StopPreviewOff, Node!StreamOff, Node!StreamOffFails,
                                 Node!AfterStop
    <2>6. ~s12' => RecordLives'
      <3>1. CASE Node!StreamOff /\ s11' = IF s11 = "poll off" THEN "poll free" ELSE "stop free"
        BY <1>18, <3>1 DEF Node!StopPreviewOff, Node!StreamOff, Node!StreamOffFails,
                           Node!AfterStop
      <3>2. CASE Node!StreamOffFails
        BY <1>18, <3>2 DEF Node!StopPreviewOff, Node!StreamOff, Node!StreamOffFails,
                           Node!AfterStop
      <3> QED
        BY <1>18, <3>1, <3>2 DEF Node!StopPreviewOff, Node!StreamOff, Node!StreamOffFails,
                                 Node!AfterStop
    <2> QED
      BY <2>1, <2>2, <2>3, <2>4, <2>5, <2>6
  <1>19. CASE Node!StopPreviewFree
    <2>1. NodeFlags'
      BY <1>19 DEF Node!StopPreviewFree, Node!reqBufs, Node!reqBufsFails, Node!AfterStop
    <2>2. NodeTypes'
      BY <1>19 DEF Node!StopPreviewFree, Node!reqBufs, Node!reqBufsFails, Node!AfterStop
    <2>3. Node!QueuedIsHeld'
      BY <1>19 DEF Node!StopPreviewFree, Node!reqBufs, Node!reqBufsFails, Node!AfterStop
    <2>4. ~s12' => UseFinds'
      <3>1. CASE Node!reqBufs("empty")
        BY <1>19, <3>1 DEF Node!StopPreviewFree, Node!reqBufs, Node!reqBufsFails,
                           Node!AfterStop
      <3>2. CASE Node!reqBufsFails
        BY <1>19, <3>2 DEF Node!StopPreviewFree, Node!reqBufs, Node!reqBufsFails,
                           Node!AfterStop
      <3> QED
        BY <1>19, <3>1, <3>2 DEF Node!StopPreviewFree, Node!reqBufs, Node!reqBufsFails,
                                 Node!AfterStop
    <2>5. ~s12' => PreviewLives'
      BY <1>19 DEF Node!StopPreviewFree, Node!reqBufs, Node!reqBufsFails, Node!AfterStop
    <2>6. ~s12' => RecordLives'
      <3>1. CASE Node!reqBufs("empty")
        BY <1>19, <3>1 DEF Node!StopPreviewFree, Node!reqBufs, Node!reqBufsFails,
                           Node!AfterStop
      <3>2. CASE Node!reqBufsFails
        BY <1>19, <3>2 DEF Node!StopPreviewFree, Node!reqBufs, Node!reqBufsFails,
                           Node!AfterStop
      <3> QED
        BY <1>19, <3>1, <3>2 DEF Node!StopPreviewFree, Node!reqBufs, Node!reqBufsFails,
                                 Node!AfterStop
    <2> QED
      BY <2>1, <2>2, <2>3, <2>4, <2>5, <2>6
  <1>20. CASE Node!Stopped
    <2>1. NodeFlags'
      BY <1>20 DEF Node!Stopped
    <2>2. NodeTypes'
      BY <1>20 DEF Node!Stopped
    <2>3. Node!QueuedIsHeld'
      BY <1>20 DEF Node!Stopped
    <2>4. ~s12' => UseFinds'
      BY <1>20 DEF Node!Stopped
    <2>5. ~s12' => PreviewLives'
      BY <1>20 DEF Node!Stopped
    <2>6. ~s12' => RecordLives'
      BY <1>20 DEF Node!Stopped
    <2> QED
      BY <2>1, <2>2, <2>3, <2>4, <2>5, <2>6
  <1>21. CASE Node!openCamera
    <2>1. NodeFlags'
      BY <1>21 DEF Node!openCamera
    <2>2. NodeTypes'
      BY <1>21 DEF Node!openCamera
    <2>3. Node!QueuedIsHeld'
      BY <1>21 DEF Node!openCamera
    <2>4. ~s12' => UseFinds'
      BY <1>21 DEF Node!openCamera
    <2>5. ~s12' => PreviewLives'
      <3>1. CASE UNCHANGED <<s3, s4, s12>> /\ s11' = "waits"
        BY <1>21, <3>1 DEF Node!openCamera
      <3>2. CASE s4' = {} /\ UNCHANGED s11
        BY <1>21, <3>2 DEF Node!openCamera
      <3> QED
        BY <1>21, <3>1, <3>2 DEF Node!openCamera
    <2>6. ~s12' => RecordLives'
      BY <1>21 DEF Node!openCamera
    <2> QED
      BY <2>1, <2>2, <2>3, <2>4, <2>5, <2>6
  <1>22. CASE Node!release
    <2>1. NodeFlags'
      BY <1>22 DEF Node!release
    <2>2. NodeTypes'
      BY <1>22 DEF Node!release
    <2>3. Node!QueuedIsHeld'
      BY <1>22 DEF Node!release
    <2>4. ~s12' => UseFinds'
      BY <1>22 DEF Node!release
    <2>5. ~s12' => PreviewLives'
      BY <1>22 DEF Node!release
    <2>6. ~s12' => RecordLives'
      BY <1>22 DEF Node!release
    <2> QED
      BY <2>1, <2>2, <2>3, <2>4, <2>5, <2>6
  <1>23. CASE Node!closeCamera
    <2>1. NodeFlags'
      BY <1>23 DEF Node!closeCamera, Node!StopRecordOff, Node!StreamOff, Node!StreamOffFails
    <2>2. NodeTypes'
      BY <1>23 DEF Node!closeCamera, Node!StopRecordOff, Node!StreamOff, Node!StreamOffFails
    <2>3. Node!QueuedIsHeld'
      BY <1>23 DEF Node!closeCamera, Node!StopRecordOff, Node!StreamOff, Node!StreamOffFails
    <2>4. ~s12' => UseFinds'
      BY <1>23 DEF Node!closeCamera, Node!StopRecordOff, Node!StreamOff, Node!StreamOffFails
    <2>5. ~s12' => PreviewLives'
      BY <1>23 DEF Node!closeCamera, Node!StopRecordOff, Node!StreamOff, Node!StreamOffFails
    <2>6. ~s12' => RecordLives'
      BY <1>23 DEF Node!closeCamera, Node!StopRecordOff, Node!StreamOff, Node!StreamOffFails
    <2> QED
      BY <2>1, <2>2, <2>3, <2>4, <2>5, <2>6
  <1>24. CASE Node!Close
    <2>1. NodeFlags'
      BY <1>24 DEF Node!Close
    <2>2. NodeTypes'
      BY <1>24 DEF Node!Close
    <2>3. Node!QueuedIsHeld'
      BY <1>24 DEF Node!Close
    <2>4. ~s12' => UseFinds'
      BY <1>24 DEF Node!Close
    <2>5. ~s12' => PreviewLives'
      BY <1>24 DEF Node!Close
    <2>6. ~s12' => RecordLives'
      BY <1>24 DEF Node!Close
    <2> QED
      BY <2>1, <2>2, <2>3, <2>4, <2>5, <2>6
  <1>25. CASE UNCHANGED Node!nodeVars
    <2>1. NodeFlags'
      BY <1>25 DEF Node!nodeVars
    <2>2. NodeTypes'
      BY <1>25, ZenonT(60) DEF Node!nodeVars
    <2>3. Node!QueuedIsHeld'
      BY <1>25 DEF Node!nodeVars
    <2>4. ~s12' => UseFinds'
      BY <1>25 DEF Node!nodeVars
    <2>5. ~s12' => PreviewLives'
      BY <1>25 DEF Node!nodeVars
    <2>6. ~s12' => RecordLives'
      BY <1>25 DEF Node!nodeVars
    <2> QED
      BY <2>1, <2>2, <2>3, <2>4, <2>5, <2>6
  <1> QED
    BY <1>1, <1>2, <1>3, <1>4, <1>5, <1>6, <1>7, <1>8, <1>9, <1>10, <1>11, <1>12, <1>13,
       <1>14, <1>15, <1>16, <1>17, <1>18, <1>19, <1>20, <1>21, <1>22, <1>23, <1>24,
                                        <1>25 DEF Node!Next

LEMMA NodeSafe == NodeInv => Node!QueuedIsHeld /\ Node!OneStream
  BY DEF NodeInv, NodeFlags, NodeTypes, UseFinds, PreviewLives, RecordLives,
         Node!OneStream, PreviewStopsOff,
         PreviewFrees, Node!Use, Node!At


-----------------------------------------------------------------------------
(* The parameters: what each section of setParameters makes of the ones    *)
(* before it.                                                              *)

KeyNames ==
    {"previewSize", "previewFormat", "pictureSize", "pictureFormat", "quality", "thumbnail",
     "rotation", "exposure", "whitebalance", "scene", "focus", "fps", "effect"}
ControlNames == Settings!Control \cup Settings!Internal

LEMMA DefaultKeys == Settings!Keys = KeyNames
  BY DEF Settings!Keys, Settings!Defaults, KeyNames

\* What a section is given and what it makes.
Form(s) ==
    /\ DOMAIN s = {"p", "cam", "values", "skip", "ok"}
    /\ DOMAIN s.p = KeyNames /\ DOMAIN s.cam = Settings!Fields /\ DOMAIN s.values = ControlNames
    /\ s.ok \in BOOLEAN

\* Only these keys, fields of the camera and controls have changed.
Changed(s, t, keys, fields, controls) ==
    /\ Form(t)
    /\ t.ok = TRUE => s.ok = TRUE
    /\ \A k \in KeyNames \ keys : t.p[k] = s.p[k]
    /\ \A f \in Settings!Fields \ fields : t.cam[f] = s.cam[f]
    /\ \A c \in ControlNames \ controls : t.values[c] = s.values[c]

\* A section of one parameter and its control.
Sectioned(s, t, key, value, c, v, no) ==
    /\ Changed(s, t, {key}, {}, {c})
    /\ t.ok = TRUE => c \notin no
    /\ IF c \in no THEN t.p[key] = s.p[key] /\ t.values[c] = s.values[c]
       ELSE t.p[key] = value /\ t.values[c] = v

LEMMA SectionIs ==
    ASSUME NEW s, Form(s), NEW key \in KeyNames, NEW value, NEW c \in ControlNames, NEW v, NEW no
    PROVE  Sectioned(s, Settings!Section(s, key, value, c, v, no), key, value, c, v, no)
  <1> DEFINE t == Settings!Section(s, key, value, c, v, no)
             a == Settings!setControl(s.values, c, v, no)
             b == [s.p EXCEPT ![key] = IF c \in no THEN @ ELSE value]
             o == s.ok /\ c \notin no
  <1>1. t = [s EXCEPT !.values = a, !.p = b, !.ok = o]
    BY DEF Settings!Section, Form
  <1>2. DOMAIN s = {"p", "cam", "values", "skip", "ok"}
    BY DEF Form
  <1>3. o \in BOOLEAN /\ (o = TRUE => s.ok = TRUE /\ c \notin no)
    BY DEF Form
  <1>4. DOMAIN a = ControlNames /\ a[c] = (IF c \in no THEN s.values[c] ELSE v)
        /\ \A x \in ControlNames \ {c} : a[x] = s.values[x]
    BY DEF Form, Settings!setControl
  <1>5. DOMAIN b = KeyNames /\ b[key] = (IF c \in no THEN s.p[key] ELSE value)
        /\ \A x \in KeyNames \ {key} : b[x] = s.p[x]
    BY DEF Form
  <1> HIDE DEF t, a, b, o
  <1>6. /\ DOMAIN t = {"p", "cam", "values", "skip", "ok"}
        /\ t.p = b /\ t.cam = s.cam /\ t.values = a /\ t.ok = o
    BY ONLY <1>1, <1>2
  <1>7. Changed(s, t, {key}, {}, {c})
    BY <1>3, <1>4, <1>5, <1>6 DEF Changed, Form
  <1>8. Sectioned(s, t, key, value, c, v, no)
    BY <1>3, <1>4, <1>5, <1>6, <1>7 DEF Sectioned
  <1> QED
    BY <1>8 DEF t

\* The sections that only store what was asked for.
Previewed(s, t, q) ==
    /\ Changed(s, t, {"previewSize", "previewFormat"}, Settings!Fields \ {"snapshotSize", "thumbnail"}, {})
    /\ s.cam.previewSize = s.p.previewSize => t.cam.previewSize = t.p.previewSize
    /\ t.ok = TRUE => t.p.previewSize = q.previewSize /\ t.p.previewFormat = q.previewFormat

LEMMA PreviewIs ==
    ASSUME NEW s, Form(s), NEW q
    PROVE  Previewed(s, Settings!Preview(s, q), q)
  <1> DEFINE t == Settings!Preview(s, q)
  <1>1. CASE q.previewSize \in Settings!SupportedPreviewSizes
    <2> DEFINE a == Settings!setSnapshotPixelFormat(s.cam, "RGB565")
               b == Settings!setPreviewSize(a, q.previewSize, "RGB565")
               d == [s.p EXCEPT !.previewSize = q.previewSize, !.previewFormat = q.previewFormat]
    <2>1. t = [s EXCEPT !.cam = b, !.p = d]
      BY <1>1 DEF Settings!Preview, Settings!setPreviewFormat, Form
    <2>2. /\ DOMAIN a = Settings!Fields
          /\ a.snapshotSize = s.cam.snapshotSize /\ a.thumbnail = s.cam.thumbnail
      BY DEF Form, Settings!setSnapshotPixelFormat, Settings!Fields
    <2> HIDE DEF a
    <2>3. /\ DOMAIN b = Settings!Fields
          /\ b.snapshotSize = s.cam.snapshotSize /\ b.thumbnail = s.cam.thumbnail
          /\ b.previewSize = q.previewSize
      BY <2>2 DEF Settings!setPreviewSize, Settings!Fields
    <2>4. /\ DOMAIN d = KeyNames
          /\ d.previewSize = q.previewSize /\ d.previewFormat = q.previewFormat
          /\ \A k \in KeyNames \ {"previewSize", "previewFormat"} : d[k] = s.p[k]
      BY DEF Form, KeyNames
    <2>5. DOMAIN s = {"p", "cam", "values", "skip", "ok"}
      BY DEF Form
    <2> HIDE DEF b, d, t
    <2>6. /\ DOMAIN t = {"p", "cam", "values", "skip", "ok"}
          /\ t.p = d /\ t.cam = b /\ t.values = s.values /\ t.ok = s.ok
      BY ONLY <2>1, <2>5
    <2>7. \A f \in Settings!Fields \ (Settings!Fields \ {"snapshotSize", "thumbnail"}) : b[f] = s.cam[f]
      BY ONLY <2>3
    <2>8. Changed(s, t, {"previewSize", "previewFormat"}, Settings!Fields \ {"snapshotSize", "thumbnail"}, {})
      BY <2>3, <2>4, <2>6, <2>7 DEF Changed, Form
    <2>9. Previewed(s, t, q)
      BY <2>3, <2>4, <2>6, <2>8 DEF Previewed
    <2> QED
      BY <2>9 DEF t
  <1>2. CASE q.previewSize \notin Settings!SupportedPreviewSizes
    <2>1. t = [s EXCEPT !.ok = FALSE]
      BY <1>2 DEF Settings!Preview, Settings!Failed
    <2>2. DOMAIN s = {"p", "cam", "values", "skip", "ok"}
      BY DEF Form
    <2> HIDE DEF t
    <2>3. /\ DOMAIN t = {"p", "cam", "values", "skip", "ok"}
          /\ t.p = s.p /\ t.cam = s.cam /\ t.values = s.values /\ t.ok = FALSE
      BY ONLY <2>1, <2>2
    <2>4. Previewed(s, t, q)
      BY <2>3 DEF Previewed, Changed, Form
    <2> QED
      BY <2>4 DEF t
  <1> QED
    BY <1>1, <1>2

SizeOfPicture(s, t, q) ==
    /\ Changed(s, t, {"pictureSize"}, {"snapshotSize"}, {})
    /\ s.cam.snapshotSize = s.p.pictureSize => t.cam.snapshotSize = t.p.pictureSize
    /\ q.pictureSize # "invalid" => t.p.pictureSize = q.pictureSize

LEMMA PictureSizeIs ==
    ASSUME NEW s, Form(s), NEW q
    PROVE  SizeOfPicture(s, Settings!PictureSize(s, q), q)
  <1> DEFINE t == Settings!PictureSize(s, q)
  <1>1. CASE q.pictureSize = "invalid"
    BY <1>1 DEF Settings!PictureSize, SizeOfPicture, Changed
  <1>2. CASE q.pictureSize # "invalid"
    <2> DEFINE b == Settings!setSnapshotSize(s.cam, q.pictureSize)
               d == [s.p EXCEPT !.pictureSize = q.pictureSize]
    <2>1. t = [s EXCEPT !.cam = b, !.p = d]
      BY <1>2 DEF Settings!PictureSize, Form
    <2>2. /\ DOMAIN b = Settings!Fields /\ b.snapshotSize = q.pictureSize
          /\ \A f \in Settings!Fields \ {"snapshotSize"} : b[f] = s.cam[f]
      BY DEF Form, Settings!setSnapshotSize, Settings!Fields
    <2>3. /\ DOMAIN d = KeyNames /\ d.pictureSize = q.pictureSize
          /\ \A k \in KeyNames \ {"pictureSize"} : d[k] = s.p[k]
      BY DEF Form, KeyNames
    <2>4. DOMAIN s = {"p", "cam", "values", "skip", "ok"}
      BY DEF Form
    <2> HIDE DEF b, d, t
    <2>5. /\ DOMAIN t = {"p", "cam", "values", "skip", "ok"}
          /\ t.p = d /\ t.cam = b /\ t.values = s.values /\ t.ok = s.ok
      BY ONLY <2>1, <2>4
    <2>6. SizeOfPicture(s, t, q)
      BY <2>2, <2>3, <2>5 DEF SizeOfPicture, Changed, Form
    <2> QED
      BY <2>6 DEF t
  <1> QED
    BY <1>1, <1>2

FormatOf(p) ==
    IF p.pictureFormat \in DOMAIN Settings!V4L2Format
    THEN Settings!V4L2Format[p.pictureFormat] ELSE "RGB565"

FormatOfPicture(s, t, q) ==
    /\ Changed(s, t, {"pictureFormat"}, {"snapshotFormat", "snapshotTargetFormat"}, {})
    /\ t.p.pictureFormat = q.pictureFormat
    /\ t.cam.snapshotTargetFormat = FormatOf(q)

LEMMA PictureFormatIs ==
    ASSUME NEW s, Form(s), NEW q
    PROVE  FormatOfPicture(s, Settings!PictureFormat(s, q), q)
  <1> DEFINE t == Settings!PictureFormat(s, q)
             b == Settings!setSnapshotPixelFormat(s.cam, FormatOf(q))
             d == [s.p EXCEPT !.pictureFormat = q.pictureFormat]
  <1>1. t = [s EXCEPT !.cam = b, !.p = d]
    BY DEF Settings!PictureFormat, Form, FormatOf
  <1>2. /\ DOMAIN b = Settings!Fields /\ b.snapshotTargetFormat = FormatOf(q)
        /\ \A f \in Settings!Fields \ {"snapshotFormat", "snapshotTargetFormat"} : b[f] = s.cam[f]
    BY DEF Form, Settings!setSnapshotPixelFormat, Settings!Fields
  <1>3. /\ DOMAIN d = KeyNames /\ d.pictureFormat = q.pictureFormat
        /\ \A k \in KeyNames \ {"pictureFormat"} : d[k] = s.p[k]
    BY DEF Form, KeyNames
  <1>4. DOMAIN s = {"p", "cam", "values", "skip", "ok"}
    BY DEF Form
  <1> HIDE DEF b, d, t
  <1>5. /\ DOMAIN t = {"p", "cam", "values", "skip", "ok"}
        /\ t.p = d /\ t.cam = b /\ t.values = s.values /\ t.ok = s.ok
    BY ONLY <1>1, <1>4
  <1>6. FormatOfPicture(s, t, q)
    BY <1>2, <1>3, <1>5 DEF FormatOfPicture, Changed, Form
  <1> QED
    BY <1>6 DEF t

\* What is out of range is ignored.  The quality and the thumbnail are two
\* sections in one.
QualityAndThumbnail(s, t, q) ==
    /\ Changed(s, t, {"quality", "thumbnail"}, {"thumbnail"}, {"JPEG_QUALITY"})
    /\ s.cam.thumbnail = s.p.thumbnail => t.cam.thumbnail = t.p.thumbnail
    /\ \/ q.quality \in 1..100 /\ t.p.quality = q.quality /\ t.values["JPEG_QUALITY"] = q.quality
       \/ /\ q.quality \notin 1..100 /\ t.p.quality = s.p.quality
          /\ t.values["JPEG_QUALITY"] = s.values["JPEG_QUALITY"]
    /\ q.thumbnail # "invalid" => t.p.thumbnail = q.thumbnail

Quality(s, t, q) ==
    /\ Changed(s, t, {"quality"}, {}, {"JPEG_QUALITY"})
    /\ \/ q.quality \in 1..100 /\ t.p.quality = q.quality /\ t.values["JPEG_QUALITY"] = q.quality
       \/ /\ q.quality \notin 1..100 /\ t.p.quality = s.p.quality
          /\ t.values["JPEG_QUALITY"] = s.values["JPEG_QUALITY"]

LEMMA JpegIs ==
    ASSUME NEW s, Form(s), NEW q
    PROVE  QualityAndThumbnail(s, Settings!Jpeg(s, q), q)
  <1> DEFINE t == Settings!Jpeg(s, q)
             r == IF q.quality \in 1..100
                  THEN Settings!Section(s, "quality", q.quality, "JPEG_QUALITY", q.quality, {})
                  ELSE s
  <1>1. Quality(s, r, q)
    <2>1. CASE q.quality \in 1..100
      <3>1. "quality" \in KeyNames /\ "JPEG_QUALITY" \in ControlNames
        BY DEF KeyNames, ControlNames, Settings!Internal
      <3>2. Sectioned(s, r, "quality", q.quality, "JPEG_QUALITY", q.quality, {})
        BY <2>1, <3>1, SectionIs
      <3> HIDE DEF r
      <3> QED
        BY <2>1, <3>2 DEF Sectioned, Quality
    <2>2. CASE q.quality \notin 1..100
      BY <2>2 DEF Quality, Changed
    <2> QED
      BY <2>1, <2>2
  <1>2. Form(r)
    BY <1>1 DEF Quality, Changed
  <1>3. t = IF q.thumbnail = "invalid" THEN r
            ELSE [r EXCEPT !.cam = Settings!setJpegThumbnailSize(@, q.thumbnail),
                           !.p.thumbnail = q.thumbnail]
    BY DEF Settings!Jpeg
  <1> HIDE DEF t, r
  <1>4. CASE q.thumbnail = "invalid"
    <2>1. t = r
      BY <1>3, <1>4
    <2>2. QualityAndThumbnail(s, r, q)
      BY <1>1, <1>4 DEF Quality, QualityAndThumbnail, Changed, KeyNames, Settings!Fields
    <2> QED
      BY <2>1, <2>2 DEF t
  <1>5. CASE q.thumbnail # "invalid"
    <2> DEFINE b == Settings!setJpegThumbnailSize(r.cam, q.thumbnail)
               d == [r.p EXCEPT !.thumbnail = q.thumbnail]
    <2>1. t = [r EXCEPT !.cam = b, !.p = d]
      BY <1>3, <1>2, <1>5 DEF Form
    <2>2. /\ DOMAIN b = Settings!Fields /\ b.thumbnail = q.thumbnail
          /\ \A f \in Settings!Fields \ {"thumbnail"} : b[f] = r.cam[f]
      BY <1>2 DEF Form, Settings!setJpegThumbnailSize, Settings!Fields
    <2>3. /\ DOMAIN d = KeyNames /\ d.thumbnail = q.thumbnail
          /\ \A k \in KeyNames \ {"thumbnail"} : d[k] = r.p[k]
      BY <1>2 DEF Form, KeyNames
    <2>4. DOMAIN r = {"p", "cam", "values", "skip", "ok"}
      BY <1>2 DEF Form
    <2> HIDE DEF b, d
    <2>5. /\ DOMAIN t = {"p", "cam", "values", "skip", "ok"}
          /\ t.p = d /\ t.cam = b /\ t.values = r.values /\ t.ok = r.ok
      BY ONLY <2>1, <2>4
    <2>6. Changed(r, t, {"thumbnail"}, {"thumbnail"}, {})
      BY <1>2, <2>2, <2>3, <2>5 DEF Changed, Form
    <2>7. t.p.quality = r.p.quality
      BY <2>3, <2>5 DEF KeyNames
    <2>8. Changed(s, t, {"quality", "thumbnail"}, {"thumbnail"}, {"JPEG_QUALITY"})
      BY <1>1, <2>6 DEF Quality, Changed
    <2>9. QualityAndThumbnail(s, t, q)
      BY <1>1, <2>2, <2>3, <2>5, <2>7, <2>8 DEF QualityAndThumbnail, Quality
    <2> QED
      BY <2>9 DEF t
  <1> QED
    BY <1>4, <1>5

Rotated(s, t, q) ==
    /\ Changed(s, t, {"rotation"}, {}, {"EXIF_ORIENTATION"})
    /\ IF q.rotation < 0
       THEN /\ t.p.rotation = s.p.rotation
            /\ t.values["EXIF_ORIENTATION"] = s.values["EXIF_ORIENTATION"]
       ELSE t.p.rotation = q.rotation /\ t.values["EXIF_ORIENTATION"] = q.rotation

LEMMA RotationIs ==
    ASSUME NEW s, Form(s), NEW q
    PROVE  Rotated(s, Settings!Rotation(s, q), q)
  <1> DEFINE t == Settings!Rotation(s, q)
  <1>1. CASE q.rotation < 0
    BY <1>1 DEF Settings!Rotation, Rotated, Changed
  <1>2. CASE ~(q.rotation < 0)
    <2>1. "rotation" \in KeyNames /\ "EXIF_ORIENTATION" \in ControlNames
      BY DEF KeyNames, ControlNames, Settings!Internal
    <2>2. t = Settings!Section(s, "rotation", q.rotation, "EXIF_ORIENTATION", q.rotation, {})
      BY <1>2 DEF Settings!Rotation
    <2>3. Sectioned(s, t, "rotation", q.rotation, "EXIF_ORIENTATION", q.rotation, {})
      BY <2>1, <2>2, SectionIs
    <2> HIDE DEF t
    <2>4. Rotated(s, t, q)
      BY <1>2, <2>3 DEF Sectioned, Rotated
    <2> QED
      BY <2>4 DEF t
  <1> QED
    BY <1>1, <1>2

Exposed(s, t, q) ==
    /\ Changed(s, t, {"exposure"}, {}, {"BRIGHTNESS"})
    /\ t.ok = TRUE /\ q.exposure \in -4..4 => t.p.exposure = q.exposure

LEMMA BrightnessIs ==
    ASSUME NEW s, Form(s), NEW q, NEW no
    PROVE  Exposed(s, Settings!Brightness(s, q, no), q)
  <1> DEFINE t == Settings!Brightness(s, q, no)
  <1>1. CASE q.exposure \notin -4..4
    BY <1>1 DEF Settings!Brightness, Exposed, Changed
  <1>2. CASE q.exposure \in -4..4
    <2>1. "exposure" \in KeyNames /\ "BRIGHTNESS" \in ControlNames
      BY DEF KeyNames, ControlNames, Settings!Control
    <2>2. t = Settings!Section(s, "exposure", q.exposure, "BRIGHTNESS", q.exposure, no)
      BY <1>2 DEF Settings!Brightness
    <2>3. Sectioned(s, t, "exposure", q.exposure, "BRIGHTNESS", q.exposure, no)
      BY <2>1, <2>2, SectionIs
    <2> HIDE DEF t
    <2>4. Exposed(s, t, q)
      BY <2>3 DEF Sectioned, Exposed
    <2> QED
      BY <2>4 DEF t
  <1> QED
    BY <1>1, <1>2

Balanced(s, t, q) ==
    /\ Changed(s, t, {"whitebalance"}, {}, {"AUTO_WB", "WB_PRESET"})
    /\ t.ok = TRUE /\ q.whitebalance # "auto" => t.p.whitebalance = q.whitebalance

\* AUTO_WB alone.
AutoSet(s, r) == Changed(s, r, {}, {}, {"AUTO_WB"})

LEMMA WhiteBalanceIs ==
    ASSUME NEW s, Form(s), NEW q, NEW no
    PROVE  Balanced(s, Settings!WhiteBalance(s, q, no), q)
  <1> DEFINE t == Settings!WhiteBalance(s, q, no)
             a == Settings!setControl(s.values, "AUTO_WB", IF q.whitebalance = "auto" THEN 1 ELSE 0, no)
             o == s.ok /\ "AUTO_WB" \notin no
             r == [s EXCEPT !.values = a, !.ok = o]
  <1>1. AutoSet(s, r)
    <2>1. DOMAIN a = ControlNames /\ \A x \in ControlNames \ {"AUTO_WB"} : a[x] = s.values[x]
      BY DEF Form, Settings!setControl
    <2>2. o \in BOOLEAN /\ (o = TRUE => s.ok = TRUE)
      BY DEF Form
    <2>3. DOMAIN s = {"p", "cam", "values", "skip", "ok"}
      BY DEF Form
    <2> DEFINE u == [s EXCEPT !.values = a, !.ok = o]
    <2> HIDE DEF a, o
    <2>4. /\ DOMAIN u = {"p", "cam", "values", "skip", "ok"}
          /\ u.p = s.p /\ u.cam = s.cam /\ u.values = a /\ u.ok = o
      BY ONLY <2>3
    <2> HIDE DEF u
    <2>5. AutoSet(s, u)
      BY <2>1, <2>2, <2>4 DEF AutoSet, Changed, Form
    <2> QED
      BY <2>5 DEF u
  <1>2. Form(r)
    BY <1>1 DEF AutoSet, Changed
  <1>3. t = IF q.whitebalance = "auto" THEN r
            ELSE IF q.whitebalance \notin DOMAIN Settings!V4L2WhiteBalance THEN Settings!Failed(r)
            ELSE Settings!Section(r, "whitebalance", q.whitebalance, "WB_PRESET",
                                  Settings!V4L2WhiteBalance[q.whitebalance], no)
    BY DEF Settings!WhiteBalance
  <1> HIDE DEF t, r
  <1>4. CASE q.whitebalance = "auto"
    <2>1. t = r
      BY <1>3, <1>4
    <2> QED
      BY <1>1, <1>4, <2>1 DEF t, AutoSet, Changed, Balanced
  <1>5. CASE q.whitebalance # "auto" /\ q.whitebalance \notin DOMAIN Settings!V4L2WhiteBalance
    <2>1. t = [r EXCEPT !.ok = FALSE]
      BY <1>3, <1>5 DEF Settings!Failed
    <2>2. DOMAIN r = {"p", "cam", "values", "skip", "ok"}
      BY <1>2 DEF Form
    <2>3. /\ DOMAIN t = {"p", "cam", "values", "skip", "ok"}
          /\ t.p = r.p /\ t.cam = r.cam /\ t.values = r.values /\ t.ok = FALSE
      BY ONLY <2>1, <2>2
    <2>4. Balanced(s, t, q)
      BY <1>1, <2>3 DEF AutoSet, Changed, Balanced, Form
    <2> QED
      BY <2>4 DEF t
  <1>6. CASE q.whitebalance # "auto" /\ q.whitebalance \in DOMAIN Settings!V4L2WhiteBalance
    <2> DEFINE v == Settings!V4L2WhiteBalance[q.whitebalance]
    <2> HIDE DEF v
    <2>1. "whitebalance" \in KeyNames /\ "WB_PRESET" \in ControlNames
      BY DEF KeyNames, ControlNames, Settings!Control
    <2>2. t = Settings!Section(r, "whitebalance", q.whitebalance, "WB_PRESET", v, no)
      BY <1>3, <1>6 DEF v
    <2>3. Sectioned(r, t, "whitebalance", q.whitebalance, "WB_PRESET", v, no)
      BY <1>2, <2>1, <2>2, SectionIs
    <2>4. Balanced(s, t, q)
      BY <1>1, <2>3 DEF AutoSet, Sectioned, Changed, Balanced
    <2> QED
      BY <2>4 DEF t
  <1> QED
    BY <1>4, <1>5, <1>6

Ranged(s, t) == Changed(s, t, {}, {}, {})

LEMMA FpsRangeIs ==
    ASSUME NEW s, Form(s), NEW q
    PROVE  Ranged(s, Settings!FpsRange(s, q))
  <1> DEFINE t == Settings!FpsRange(s, q)
  <1>1. CASE t = s
    BY <1>1 DEF Ranged, Changed
  <1>2. CASE t = [s EXCEPT !.ok = FALSE]
    <2>1. DOMAIN s = {"p", "cam", "values", "skip", "ok"}
      BY DEF Form
    <2> HIDE DEF t
    <2>2. /\ DOMAIN t = {"p", "cam", "values", "skip", "ok"}
          /\ t.p = s.p /\ t.cam = s.cam /\ t.values = s.values /\ t.ok = FALSE
      BY ONLY <1>2, <2>1
    <2>3. Ranged(s, t)
      BY <2>2 DEF Ranged, Changed, Form
    <2> QED
      BY <2>3 DEF t
  <1> QED
    BY <1>1, <1>2 DEF Settings!FpsRange, Settings!Failed

\* A scene sets neither the effect nor what stays in V4L2Camera.
ListOf(scene) == Settings!sceneTable[Settings!V4L2SceneMode[scene]]
Scenic == Settings!Control \ {"COLORFX"}

LEMMA ListControls ==
    ASSUME NEW scene \in DOMAIN Settings!V4L2SceneMode
    PROVE  DOMAIN ListOf(scene) \subseteq Scenic
  <1> DEFINE seven == {"ISO", "BRIGHTNESS", "SATURATION", "SHARPNESS", "GLAMOUR", "AUTO_WB", "METERING"}
             all == {"NONE", "PORTRAIT", "LANDSCAPE", "SPORTS", "PARTY_INDOOR", "BEACH_SNOW",
                     "SUNSET_CANDLE", "NIGHTSHOT", "FIREWORKS"}
  <1>1. \A a, b, c, d, e, f, g : DOMAIN Settings!Preset(a, b, c, d, e, f, g) = seven
    BY DEF Settings!Preset
  <1>2. \A preset, c, v : DOMAIN Settings!And(preset, c, v) = DOMAIN preset \cup {c}
    BY DEF Settings!And
  <1>3. seven \cup {"NIGHTSHOT", "WB_PRESET"} \subseteq Scenic
    BY DEF Scenic, Settings!Control
  <1>4. Settings!V4L2SceneMode[scene] \in all
    BY DEF Settings!V4L2SceneMode
  <1> HIDE DEF seven
  <1>5. \A x \in all : DOMAIN Settings!sceneTable[x] \subseteq seven \cup {"NIGHTSHOT", "WB_PRESET"}
    <2> SUFFICES ASSUME NEW x \in all
                 PROVE  DOMAIN Settings!sceneTable[x] \subseteq seven \cup {"NIGHTSHOT", "WB_PRESET"}
      OBVIOUS
    <2>1. CASE x = "NONE"
      <3> DEFINE p == Settings!Preset(0, 0, 0, 0, 0, 1, 0)
      <3>1. DOMAIN p = seven
        BY <1>1
      <3>2. Settings!sceneTable["NONE"] = Settings!And(p, "NIGHTSHOT", 0)
        BY DEF Settings!sceneTable
      <3> HIDE DEF p
      <3>3. DOMAIN Settings!And(p, "NIGHTSHOT", 0) = seven \cup {"NIGHTSHOT"}
        BY ONLY <1>2, <3>1
      <3> QED
        BY ONLY <2>1, <3>2, <3>3
    <2>2. CASE x = "SUNSET_CANDLE"
      <3> DEFINE p == Settings!Preset(1, 0, 0, 0, 0, 0, 0)
      <3>1. DOMAIN p = seven
        BY <1>1
      <3>2. Settings!sceneTable["SUNSET_CANDLE"] = Settings!And(p, "WB_PRESET", 0)
        BY DEF Settings!sceneTable
      <3> HIDE DEF p
      <3>3. DOMAIN Settings!And(p, "WB_PRESET", 0) = seven \cup {"WB_PRESET"}
        BY ONLY <1>2, <3>1
      <3> QED
        BY ONLY <2>2, <3>2, <3>3
    <2>3. CASE x = "NIGHTSHOT"
      <3> DEFINE p == Settings!Preset(5, 0, 4, 0, 0, 1, 0)
      <3>1. DOMAIN p = seven
        BY <1>1
      <3>2. Settings!sceneTable["NIGHTSHOT"] = Settings!And(p, "NIGHTSHOT", 1)
        BY DEF Settings!sceneTable
      <3> HIDE DEF p
      <3>3. DOMAIN Settings!And(p, "NIGHTSHOT", 1) = seven \cup {"NIGHTSHOT"}
        BY ONLY <1>2, <3>1
      <3> QED
        BY ONLY <2>3, <3>2, <3>3
    <2>4. CASE x \in all \ {"NONE", "SUNSET_CANDLE", "NIGHTSHOT"}
      BY <1>1, <2>4 DEF Settings!sceneTable
    <2> QED
      BY <2>1, <2>2, <2>3, <2>4
  <1> QED
    BY <1>3, <1>4, <1>5 DEF ListOf

SceneSet(s, t, q, no) ==
    /\ Changed(s, t, {"scene", "focus", "fps"}, {}, Scenic \cup {"SCENE_MODE"})
    /\ t.ok = TRUE => t.p.scene = q.scene
    /\ q.scene \in DOMAIN Settings!V4L2SceneMode =>
           \A c \in DOMAIN ListOf(q.scene) \ no : t.values[c] = ListOf(q.scene)[c]

\* Before the list of the scene is set.
Focused(s, r, q) ==
    /\ Changed(s, r, {"focus", "fps"}, {}, {"FOCUS_MODE"})
    /\ r.ok = TRUE => q.scene \in DOMAIN Settings!V4L2SceneMode

LEMMA SceneIs ==
    ASSUME NEW s, Form(s), NEW q, NEW no
    PROVE  SceneSet(s, Settings!Scene(s, q, no), q, no)
  <1> DEFINE known == q.scene \in DOMAIN Settings!V4L2SceneMode
             scene == IF known THEN Settings!V4L2SceneMode[q.scene] ELSE "unknown"
             fps == IF scene = "NIGHTSHOT" THEN "4000,30000" ELSE "15000,30000"
             d == [s.p EXCEPT !.fps = fps]
             o == s.ok /\ known
             r == [s EXCEPT !.p = d, !.ok = o]
             g == IF scene = "NONE" THEN r
                  ELSE Settings!Section(r, "focus", "auto", "FOCUS_MODE", 0, no)
             t == Settings!Scene(s, q, no)
  <1>1. t = IF known
            THEN [g EXCEPT !.values = Settings!setSceneMode(@, scene, no), !.p.scene = q.scene]
            ELSE g
    BY DEF Settings!Scene, Form
  <1>2. Focused(s, r, q)
    <2>1. DOMAIN d = KeyNames /\ \A k \in KeyNames \ {"focus", "fps"} : d[k] = s.p[k]
      BY DEF Form, KeyNames
    <2>2. o \in BOOLEAN /\ (o = TRUE => s.ok = TRUE /\ known)
      BY DEF Form
    <2>3. DOMAIN s = {"p", "cam", "values", "skip", "ok"}
      BY DEF Form
    <2> DEFINE u == [s EXCEPT !.p = d, !.ok = o]
    <2> HIDE DEF d, o
    <2>4. /\ DOMAIN u = {"p", "cam", "values", "skip", "ok"}
          /\ u.p = d /\ u.cam = s.cam /\ u.values = s.values /\ u.ok = o
      BY ONLY <2>3
    <2> HIDE DEF u
    <2>5. Focused(s, u, q)
      BY <2>1, <2>2, <2>4 DEF Focused, Changed, Form
    <2> QED
      BY <2>5 DEF u
  <1> HIDE DEF r
  <1>3. Form(r)
    BY <1>2 DEF Focused, Changed
  <1>4. Focused(s, g, q)
    <2>1. CASE scene = "NONE"
      <3>1. g = r
        BY <2>1
      <3> QED
        BY <1>2, <3>1
    <2>2. CASE scene # "NONE"
      <3>1. "focus" \in KeyNames /\ "FOCUS_MODE" \in ControlNames
        BY DEF KeyNames, ControlNames, Settings!Control
      <3>2. g = Settings!Section(r, "focus", "auto", "FOCUS_MODE", 0, no)
        BY <2>2
      <3> HIDE DEF g
      <3>3. Sectioned(r, g, "focus", "auto", "FOCUS_MODE", 0, no)
        BY <1>3, <3>1, <3>2, SectionIs
      <3> QED
        BY <1>2, <3>3 DEF Sectioned, Focused, Changed
    <2> QED
      BY <2>1, <2>2
  <1> HIDE DEF g, t
  <1>5. Form(g)
    BY <1>4 DEF Focused, Changed
  <1>6. "FOCUS_MODE" \in Scenic
    BY DEF Scenic, Settings!Control
  <1>7. CASE ~known
    <2>1. t = g
      BY <1>1, <1>7
    <2>2. Changed(s, g, {"scene", "focus", "fps"}, {}, Scenic \cup {"SCENE_MODE"})
      BY <1>4, <1>6 DEF Focused, Changed
    <2>3. g.ok = FALSE
      BY <1>4, <1>5, <1>7 DEF Focused, Form
    <2> QED
      BY <1>7, <2>1, <2>2, <2>3 DEF SceneSet, t
  <1>8. CASE known
    <2> DEFINE a == Settings!setSceneMode(g.values, scene, no)
               b == [g.p EXCEPT !.scene = q.scene]
    <2>1. t = [g EXCEPT !.values = a, !.p = b]
      BY <1>1, <1>5, <1>8 DEF Form
    <2>2. DOMAIN ListOf(q.scene) \subseteq Scenic
      BY <1>8, ListControls
    <2>3. Scenic \subseteq ControlNames /\ "SCENE_MODE" \notin Scenic
      BY DEF Scenic, ControlNames, Settings!Control
    <2>4. Settings!sceneTable[scene] = ListOf(q.scene)
      BY <1>8 DEF ListOf
    <2>5. a = [c \in ControlNames |->
                  IF c = "SCENE_MODE" THEN scene
                  ELSE IF c \in DOMAIN ListOf(q.scene) \ no THEN ListOf(q.scene)[c] ELSE g.values[c]]
      BY <1>5, <2>4 DEF Form, Settings!setSceneMode
    <2>6. /\ DOMAIN a = ControlNames
          /\ \A c \in DOMAIN ListOf(q.scene) \ no : a[c] = ListOf(q.scene)[c]
          /\ \A c \in ControlNames \ (Scenic \cup {"SCENE_MODE"}) : a[c] = g.values[c]
      <3> HIDE DEF a, scene
      <3> QED
        BY <2>2, <2>3, <2>5
    <2>7. /\ DOMAIN b = KeyNames /\ b.scene = q.scene
          /\ \A k \in KeyNames \ {"scene"} : b[k] = g.p[k]
      BY <1>5 DEF Form, KeyNames
    <2>8. DOMAIN g = {"p", "cam", "values", "skip", "ok"}
      BY <1>5 DEF Form
    <2> HIDE DEF a, b
    <2>9. /\ DOMAIN t = {"p", "cam", "values", "skip", "ok"}
          /\ t.p = b /\ t.cam = g.cam /\ t.values = a /\ t.ok = g.ok
      BY ONLY <2>1, <2>8
    <2>10. Changed(g, t, {"scene"}, {}, Scenic \cup {"SCENE_MODE"})
      BY <1>5, <2>6, <2>7, <2>9 DEF Changed, Form
    <2>11. Changed(s, t, {"scene", "focus", "fps"}, {}, Scenic \cup {"SCENE_MODE"})
      BY <1>4, <1>6, <2>10 DEF Focused, Changed
    <2> QED
      BY <2>6, <2>7, <2>9, <2>11 DEF SceneSet, t
  <1> QED
    BY <1>7, <1>8

Affected(s, t, q) ==
    /\ Changed(s, t, {"effect"}, {}, {"COLORFX"})
    /\ t.ok = TRUE => t.p.effect = q.effect
    /\ \/ t.p.effect = s.p.effect /\ t.values["COLORFX"] = s.values["COLORFX"]
       \/ /\ t.p.effect \in DOMAIN Settings!V4L2Effect
          /\ t.values["COLORFX"] = Settings!V4L2Effect[t.p.effect]

LEMMA EffectIs ==
    ASSUME NEW s, Form(s), NEW q, NEW no
    PROVE  Affected(s, Settings!Effect(s, q, no), q)
  <1> DEFINE t == Settings!Effect(s, q, no)
  <1>1. CASE q.effect \notin DOMAIN Settings!V4L2Effect
    <2>1. t = [s EXCEPT !.ok = FALSE]
      BY <1>1 DEF Settings!Effect, Settings!Failed
    <2>2. DOMAIN s = {"p", "cam", "values", "skip", "ok"}
      BY DEF Form
    <2> HIDE DEF t
    <2>3. /\ DOMAIN t = {"p", "cam", "values", "skip", "ok"}
          /\ t.p = s.p /\ t.cam = s.cam /\ t.values = s.values /\ t.ok = FALSE
      BY ONLY <2>1, <2>2
    <2>4. Affected(s, t, q)
      BY <2>3 DEF Affected, Changed, Form
    <2> QED
      BY <2>4 DEF t
  <1>2. CASE q.effect \in DOMAIN Settings!V4L2Effect
    <2> DEFINE r == IF "COLORFX" \notin no /\ q.effect # s.p.effect
                    THEN Settings!setSkipFrame(s, Settings!EFFECT_SKIP_FRAME) ELSE s
               v == Settings!V4L2Effect[q.effect]
    <2>1. t = Settings!Section(r, "effect", q.effect, "COLORFX", v, no)
      BY <1>2 DEF Settings!Effect
    <2>2. /\ Form(r) /\ r.p = s.p /\ r.cam = s.cam /\ r.values = s.values /\ r.ok = s.ok
      <3>1. CASE r = s
        BY <3>1
      <3>2. CASE r = Settings!setSkipFrame(s, Settings!EFFECT_SKIP_FRAME)
        <4> DEFINE k == IF Settings!EFFECT_SKIP_FRAME < s.skip THEN s.skip ELSE Settings!EFFECT_SKIP_FRAME
        <4>1. r = [s EXCEPT !.skip = k]
          BY <3>2 DEF Settings!setSkipFrame
        <4>2. DOMAIN s = {"p", "cam", "values", "skip", "ok"}
          BY DEF Form
        <4> HIDE DEF r, k
        <4>3. /\ DOMAIN r = {"p", "cam", "values", "skip", "ok"}
              /\ r.p = s.p /\ r.cam = s.cam /\ r.values = s.values /\ r.ok = s.ok
          BY ONLY <4>1, <4>2
        <4> QED
          BY <4>3 DEF Form
      <3> QED
        BY <3>1, <3>2
    <2>3. "effect" \in KeyNames /\ "COLORFX" \in ControlNames
      BY DEF KeyNames, ControlNames, Settings!Control
    <2> HIDE DEF r, v, t
    <2>4. Sectioned(r, t, "effect", q.effect, "COLORFX", v, no)
      BY <2>1, <2>2, <2>3, SectionIs
    <2>5. Changed(s, t, {"effect"}, {}, {"COLORFX"})
      BY <2>2, <2>4 DEF Sectioned, Changed
    <2>6. CASE "COLORFX" \in no
      BY <2>2, <2>4, <2>5, <2>6 DEF Sectioned, Affected, t
    <2>7. CASE "COLORFX" \notin no
      BY <1>2, <2>4, <2>5, <2>7 DEF Sectioned, Affected, t, v
    <2> QED
      BY <2>6, <2>7
  <1> QED
    BY <1>1, <1>2

\* The effect is one that the sensor has.
ColourRight(s) ==
    /\ s.p.effect \in DOMAIN Settings!V4L2Effect
    /\ s.values["COLORFX"] = Settings!V4L2Effect[s.p.effect]

\* What all sections make of s.
Made(s, t, q, no) ==
    /\ Form(t)
    /\ s.cam.previewSize = s.p.previewSize => t.cam.previewSize = t.p.previewSize
    /\ s.cam.snapshotSize = s.p.pictureSize => t.cam.snapshotSize = t.p.pictureSize
    /\ s.cam.thumbnail = s.p.thumbnail => t.cam.thumbnail = t.p.thumbnail
    /\ t.cam.snapshotTargetFormat = FormatOf(t.p)
    /\ s.values["JPEG_QUALITY"] = s.p.quality \/ q.quality \in 1..100 =>
           t.values["JPEG_QUALITY"] = t.p.quality
    /\ s.values["EXIF_ORIENTATION"] = s.p.rotation \/ ~(q.rotation < 0) =>
           t.values["EXIF_ORIENTATION"] = t.p.rotation
    /\ ColourRight(s) => ColourRight(t)
    /\ q.scene \in DOMAIN Settings!V4L2SceneMode =>
           \A c \in DOMAIN ListOf(q.scene) \ no : t.values[c] = ListOf(q.scene)[c]
    /\ t.ok = TRUE =>
           \A key \in KeyNames : ~Settings!Ignored(key, q[key]) => t.p[key] = q[key]

\* Each section changes its own keys, fields and controls, so what one of them
\* sets is still there at the end; the scene comes after the controls it sets.
LEMMA SectionsMake ==
    ASSUME NEW s, Form(s), NEW q, NEW no
    PROVE  Made(s, Settings!Sections(s, q, no), q, no)
  <1> DEFINE a == Settings!Preview(s, q)
             b == Settings!PictureSize(a, q)
             c == Settings!PictureFormat(b, q)
             d == Settings!Jpeg(c, q)
             e == Settings!Rotation(d, q)
             f == Settings!Brightness(e, q, no)
             g == Settings!WhiteBalance(f, q, no)
             h == Settings!FpsRange(g, q)
             i == Settings!Scene(h, q, no)
             t == Settings!Effect(i, q, no)
  <1>0. t = Settings!Sections(s, q, no)
    BY DEF Settings!Sections
  <1>1. Previewed(s, a, q)
    BY PreviewIs
  <1> HIDE DEF a
  <1>2. SizeOfPicture(a, b, q)
    BY <1>1, PictureSizeIs DEF Previewed, Changed
  <1> HIDE DEF b
  <1>3. FormatOfPicture(b, c, q)
    BY <1>2, PictureFormatIs DEF SizeOfPicture, Changed
  <1> HIDE DEF c
  <1>4. QualityAndThumbnail(c, d, q)
    BY <1>3, JpegIs DEF FormatOfPicture, Changed
  <1> HIDE DEF d
  <1>5. Rotated(d, e, q)
    BY <1>4, RotationIs DEF QualityAndThumbnail, Changed
  <1> HIDE DEF e
  <1>6. Exposed(e, f, q)
    BY <1>5, BrightnessIs DEF Rotated, Changed
  <1> HIDE DEF f
  <1>7. Balanced(f, g, q)
    BY <1>6, WhiteBalanceIs DEF Exposed, Changed
  <1> HIDE DEF g
  <1>8. Ranged(g, h)
    BY <1>7, FpsRangeIs DEF Balanced, Changed
  <1> HIDE DEF h
  <1>9. SceneSet(h, i, q, no)
    BY <1>8, SceneIs DEF Ranged, Changed
  <1> HIDE DEF i
  <1>10. Affected(i, t, q)
    BY <1>9, EffectIs DEF SceneSet, Changed
  <1> HIDE DEF t
  <1>11. /\ Changed(s, a, {"previewSize", "previewFormat"}, Settings!Fields \ {"snapshotSize", "thumbnail"}, {})
         /\ Changed(a, b, {"pictureSize"}, {"snapshotSize"}, {})
         /\ Changed(b, c, {"pictureFormat"}, {"snapshotFormat", "snapshotTargetFormat"}, {})
    BY <1>1, <1>2, <1>3 DEF Previewed, SizeOfPicture, FormatOfPicture
  <1>12. /\ Changed(c, d, {"quality", "thumbnail"}, {"thumbnail"}, {"JPEG_QUALITY"})
         /\ Changed(d, e, {"rotation"}, {}, {"EXIF_ORIENTATION"})
    BY <1>4, <1>5 DEF QualityAndThumbnail, Rotated
  <1>13. /\ Changed(e, f, {"exposure"}, {}, {"BRIGHTNESS"})
         /\ Changed(f, g, {"whitebalance"}, {}, {"AUTO_WB", "WB_PRESET"})
         /\ Changed(g, h, {}, {}, {})
    BY <1>6, <1>7, <1>8 DEF Exposed, Balanced, Ranged
  <1>14. Changed(h, i, {"scene", "focus", "fps"}, {}, Scenic \cup {"SCENE_MODE"})
    BY <1>9 DEF SceneSet
  <1>15. Changed(i, t, {"effect"}, {}, {"COLORFX"})
    BY <1>10 DEF Affected
  <1>16. t.ok = TRUE =>
             /\ i.ok = TRUE /\ h.ok = TRUE /\ g.ok = TRUE /\ f.ok = TRUE /\ e.ok = TRUE
             /\ d.ok = TRUE /\ c.ok = TRUE /\ b.ok = TRUE /\ a.ok = TRUE
    BY <1>11, <1>12, <1>13, <1>14, <1>15 DEF Changed
  <1>17. /\ {"JPEG_QUALITY", "EXIF_ORIENTATION", "COLORFX"} \subseteq ControlNames \ (Scenic \cup {"SCENE_MODE"})
         /\ Scenic \subseteq ControlNames \ {"COLORFX"}
    BY DEF Scenic, ControlNames, Settings!Control, Settings!Internal
  <1>18. \A k \in KeyNames \ {"effect", "scene", "focus", "fps", "whitebalance", "exposure"} : t.p[k] = e.p[k]
    BY <1>13, <1>14, <1>15 DEF Changed
  <1>19. \A x \in Settings!Fields : t.cam[x] = d.cam[x]
    BY <1>12, <1>13, <1>14, <1>15 DEF Changed
  <1>20. \A k \in {"previewSize", "previewFormat", "pictureSize", "pictureFormat"} : t.p[k] = c.p[k]
    BY <1>12, <1>18 DEF Changed, KeyNames
  <1>21. Form(t)
    BY <1>15 DEF Changed
  <1>22. /\ s.cam.previewSize = s.p.previewSize => t.cam.previewSize = t.p.previewSize
         /\ t.ok = TRUE => t.p.previewSize = q.previewSize /\ t.p.previewFormat = q.previewFormat
    <2>1. c.p.previewSize = a.p.previewSize /\ c.p.previewFormat = a.p.previewFormat
      BY <1>11 DEF Changed, KeyNames
    <2>2. t.cam.previewSize = a.cam.previewSize
      BY <1>11, <1>12, <1>19 DEF Changed, Settings!Fields
    <2> QED
      BY <1>1, <1>16, <1>20, <2>1, <2>2 DEF Previewed
  <1>23. /\ s.cam.snapshotSize = s.p.pictureSize => t.cam.snapshotSize = t.p.pictureSize
         /\ q.pictureSize # "invalid" => t.p.pictureSize = q.pictureSize
    <2>1. a.p.pictureSize = s.p.pictureSize /\ c.p.pictureSize = b.p.pictureSize
      BY <1>11 DEF Changed, KeyNames
    <2>2. a.cam.snapshotSize = s.cam.snapshotSize /\ t.cam.snapshotSize = b.cam.snapshotSize
      BY <1>11, <1>12, <1>19 DEF Changed, Settings!Fields
    <2> QED
      BY <1>2, <1>20, <2>1, <2>2 DEF SizeOfPicture
  <1>24. t.cam.snapshotTargetFormat = FormatOf(t.p) /\ t.p.pictureFormat = q.pictureFormat
    <2>1. t.cam.snapshotTargetFormat = c.cam.snapshotTargetFormat
      BY <1>12, <1>19 DEF Changed, Settings!Fields
    <2> QED
      BY <1>3, <1>20, <2>1 DEF FormatOfPicture, FormatOf
  <1>25. /\ s.values["JPEG_QUALITY"] = s.p.quality \/ q.quality \in 1..100 =>
                t.values["JPEG_QUALITY"] = t.p.quality
         /\ q.quality \in 1..100 => t.p.quality = q.quality
    <2>1. c.p.quality = s.p.quality /\ t.p.quality = d.p.quality
      BY <1>11, <1>12, <1>18 DEF Changed, KeyNames
    <2>2. c.values["JPEG_QUALITY"] = s.values["JPEG_QUALITY"]
      BY <1>11, <1>17 DEF Changed
    <2>3. t.values["JPEG_QUALITY"] = d.values["JPEG_QUALITY"]
      BY <1>12, <1>13, <1>14, <1>15, <1>17 DEF Changed
    <2> QED
      BY <1>4, <2>1, <2>2, <2>3 DEF QualityAndThumbnail
  <1>26. /\ s.cam.thumbnail = s.p.thumbnail => t.cam.thumbnail = t.p.thumbnail
         /\ q.thumbnail # "invalid" => t.p.thumbnail = q.thumbnail
    <2>1. c.p.thumbnail = s.p.thumbnail /\ t.p.thumbnail = d.p.thumbnail
      BY <1>11, <1>12, <1>18 DEF Changed, KeyNames
    <2>2. c.cam.thumbnail = s.cam.thumbnail /\ t.cam.thumbnail = d.cam.thumbnail
      BY <1>11, <1>19 DEF Changed, Settings!Fields
    <2> QED
      BY <1>4, <2>1, <2>2 DEF QualityAndThumbnail
  <1>27. /\ s.values["EXIF_ORIENTATION"] = s.p.rotation \/ ~(q.rotation < 0) =>
                t.values["EXIF_ORIENTATION"] = t.p.rotation
         /\ ~(q.rotation < 0) => t.p.rotation = q.rotation
    <2>1. d.p.rotation = s.p.rotation /\ t.p.rotation = e.p.rotation
      BY <1>11, <1>12, <1>18 DEF Changed, KeyNames
    <2>2. d.values["EXIF_ORIENTATION"] = s.values["EXIF_ORIENTATION"]
      BY <1>11, <1>12, <1>17 DEF Changed
    <2>3. t.values["EXIF_ORIENTATION"] = e.values["EXIF_ORIENTATION"]
      BY <1>13, <1>14, <1>15, <1>17 DEF Changed
    <2> QED
      BY <1>5, <2>1, <2>2, <2>3 DEF Rotated
  <1>28. t.ok = TRUE /\ q.exposure \in -4..4 => t.p.exposure = q.exposure
    <2>1. t.p.exposure = f.p.exposure
      BY <1>13, <1>14, <1>15 DEF Changed, KeyNames
    <2> QED
      BY <1>6, <1>16, <2>1 DEF Exposed
  <1>29. t.ok = TRUE /\ q.whitebalance # "auto" => t.p.whitebalance = q.whitebalance
    <2>1. t.p.whitebalance = g.p.whitebalance
      BY <1>13, <1>14, <1>15 DEF Changed, KeyNames
    <2> QED
      BY <1>7, <1>16, <2>1 DEF Balanced
  <1>30. t.ok = TRUE => t.p.scene = q.scene
    <2>1. t.p.scene = i.p.scene
      BY <1>15 DEF Changed, KeyNames
    <2> QED
      BY <1>9, <1>16, <2>1 DEF SceneSet
  <1>31. q.scene \in DOMAIN Settings!V4L2SceneMode =>
             \A x \in DOMAIN ListOf(q.scene) \ no : t.values[x] = ListOf(q.scene)[x]
    <2> SUFFICES ASSUME q.scene \in DOMAIN Settings!V4L2SceneMode,
                        NEW x \in DOMAIN ListOf(q.scene) \ no
                 PROVE  t.values[x] = ListOf(q.scene)[x]
      OBVIOUS
    <2>1. x \in ControlNames \ {"COLORFX"}
      BY <1>17, ListControls
    <2>2. t.values[x] = i.values[x]
      BY <1>15, <2>1 DEF Changed
    <2> QED
      BY <1>9, <2>2 DEF SceneSet
  <1>32. ColourRight(s) => ColourRight(t)
    <2>1. i.p.effect = s.p.effect
      BY <1>11, <1>12, <1>13, <1>14 DEF Changed, KeyNames
    <2>2. i.values["COLORFX"] = s.values["COLORFX"]
      BY <1>11, <1>12, <1>13, <1>14, <1>17 DEF Changed
    <2> QED
      BY <1>10, <2>1, <2>2 DEF Affected, ColourRight
  <1>33. ASSUME t.ok = TRUE
         PROVE  \A key \in KeyNames : ~Settings!Ignored(key, q[key]) => t.p[key] = q[key]
    <2>1. t.p.effect = q.effect
      BY <1>10, <1>33 DEF Affected
    <2> SUFFICES ASSUME NEW key \in KeyNames, ~Settings!Ignored(key, q[key])
                 PROVE  t.p[key] = q[key]
      OBVIOUS
    <2>2. CASE key \in {"previewSize", "previewFormat", "pictureFormat", "scene", "effect"}
      BY <1>22, <1>24, <1>30, <1>33, <2>1, <2>2
    <2>3. CASE key \in {"pictureSize", "thumbnail", "whitebalance"}
      BY <1>23, <1>26, <1>29, <1>33, <2>3 DEF Settings!Ignored
    <2>4. CASE key = "quality"
      BY <1>25, <2>4 DEF Settings!Ignored
    <2>5. CASE key = "rotation"
      BY <1>27, <2>5 DEF Settings!Ignored
    <2>6. CASE key = "exposure"
      BY <1>28, <1>33, <2>6 DEF Settings!Ignored
    <2>7. key \notin {"focus", "fps"}
      BY DEF Settings!Ignored
    <2> QED
      BY <2>2, <2>3, <2>4, <2>5, <2>6, <2>7 DEF KeyNames
  <1>34. Made(s, t, q, no)
    BY <1>21, <1>22, <1>23, <1>24, <1>25, <1>26, <1>27, <1>31, <1>32, <1>33 DEF Made
  <1> QED
    BY <1>0, <1>34

\* The parameters of the HAL as the sections see them.
Before == [p |-> s1, cam |-> s2, values |-> s3, skip |-> s4, ok |-> TRUE]

LEMMA SetStep ==
    ASSUME Settings!IInv, NEW q, NEW no, Settings!setParameters(q, no),
           s9 = "none" => q = s1, s5' = s5
    PROVE  Settings!IInv'
  <1>1. CASE s5 = TRUE
    <2>1. s9 # "none" /\ s9' = "error" /\ UNCHANGED <<s1, s2, s3, s4, s7, s8>>
      BY <1>1 DEF Settings!IInv, Settings!setParameters
    <2> QED
      BY <2>1 DEF Settings!IInv, Settings!Agrees, Settings!DeviceAgrees, Settings!SceneInSensor,
         Settings!AcceptedIsKept
  <1>2. CASE s5 # TRUE
    <2> DEFINE t == Settings!Sections(Before, q, no)
    <2>1. /\ s1' = t.p /\ s2' = t.cam /\ s3' = t.values /\ s7' = q /\ s8' = no
          /\ s9' = IF t.ok THEN "ok" ELSE "error"
      BY <1>2 DEF Settings!setParameters, Before
    <2>2. /\ Before.p = s1 /\ Before.cam = s2 /\ Before.values = s3 /\ Before.ok = TRUE
          /\ DOMAIN Before = {"p", "cam", "values", "skip", "ok"}
      BY DEF Before
    <2>3. Form(Before)
      BY <2>2, DefaultKeys DEF Settings!IInv, Form, ControlNames
    <2>4. Made(Before, t, q, no)
      BY <2>3, SectionsMake
    <2> HIDE DEF t
    <2>5. Form(t)
      BY <2>4 DEF Made
    <2>6. s9' # "none" /\ (s9' = "ok" => t.ok = TRUE)
      BY <2>1, <2>5 DEF Form
    <2>7. /\ DOMAIN s1' = Settings!Keys /\ DOMAIN s2' = Settings!Fields
          /\ DOMAIN s3' = Settings!Control \cup Settings!Internal
      BY <2>1, <2>5, DefaultKeys DEF Form, ControlNames
    <2>8. /\ s2.previewSize = s1.previewSize /\ s2.snapshotSize = s1.pictureSize
          /\ s2.thumbnail = s1.thumbnail /\ ColourRight(Before)
      BY <2>2 DEF Settings!IInv, Settings!Agrees, ColourRight
    <2>9. s3["JPEG_QUALITY"] = s1.quality \/ q.quality \in 1..100
      <3>1. CASE s9 = "none"
        <4>1. q = Settings!Defaults
          BY <3>1 DEF Settings!IInv
        <4>2. Settings!Defaults.quality = 100
          BY DEF Settings!Defaults
        <4> QED
          BY ONLY <4>1, <4>2
      <3>2. CASE s9 # "none"
        BY <3>2 DEF Settings!IInv, Settings!DeviceAgrees
      <3> QED
        BY <3>1, <3>2
    <2>10. s3["EXIF_ORIENTATION"] = s1.rotation \/ ~(q.rotation < 0)
      <3>1. CASE s9 = "none"
        <4>1. q = Settings!Defaults
          BY <3>1 DEF Settings!IInv
        <4>2. Settings!Defaults.rotation = 0
          BY DEF Settings!Defaults
        <4> QED
          BY ONLY <4>1, <4>2
      <3>2. CASE s9 # "none"
        BY <3>2 DEF Settings!IInv, Settings!DeviceAgrees
      <3> QED
        BY <3>1, <3>2
    <2>11. /\ t.cam.previewSize = t.p.previewSize /\ t.cam.snapshotSize = t.p.pictureSize
           /\ t.cam.thumbnail = t.p.thumbnail /\ ColourRight(t)
           /\ t.cam.snapshotTargetFormat = FormatOf(t.p)
           /\ t.values["JPEG_QUALITY"] = t.p.quality /\ t.values["EXIF_ORIENTATION"] = t.p.rotation
      BY <2>2, <2>4, <2>8, <2>9, <2>10 DEF Made
    <2>12. Settings!Agrees' /\ Settings!DeviceAgrees'
      BY <2>1, <2>11 DEF Settings!Agrees, Settings!DeviceAgrees, ColourRight, FormatOf
    <2>13. Settings!SceneInSensor'
      BY <2>1, <2>4 DEF Settings!SceneInSensor, Made, ListOf
    <2>14. Settings!AcceptedIsKept'
      <3>1. DOMAIN s1' = KeyNames
        BY <2>1, <2>5 DEF Form
      <3>2. t.ok = TRUE =>
                \A key \in KeyNames : ~Settings!Ignored(key, q[key]) => t.p[key] = q[key]
        BY <2>4 DEF Made
      <3> QED
        BY <2>1, <2>6, <3>1, <3>2 DEF Settings!AcceptedIsKept
    <2> QED
      BY <2>6, <2>7, <2>12, <2>13, <2>14 DEF Settings!IInv
  <1> QED
    BY <1>1, <1>2

LEMMA SettingsStart == ASSUME Settings!Init PROVE Settings!IInv
  <1>1. DOMAIN s3 = Settings!Control \cup Settings!Internal /\ s3["COLORFX"] = 0
    BY DEF Settings!Init, Settings!Control, Settings!Internal
  <1>2. DOMAIN s2 = Settings!Fields /\ DOMAIN s1 = Settings!Keys
    BY DEF Settings!Init, Settings!Fields, Settings!Keys
  <1>3. s9 = "none" /\ s1 = Settings!Defaults /\ s5 = FALSE
    BY DEF Settings!Init
  <1>4. Settings!Agrees
    <2>1. /\ s1.previewSize = "640x480" /\ s1.pictureSize = "2048x1536"
          /\ s1.thumbnail = "320x240" /\ s1.effect = "none"
      BY <1>3 DEF Settings!Defaults
    <2>2. /\ s2.previewSize = "640x480" /\ s2.snapshotSize = "2048x1536"
          /\ s2.thumbnail = "320x240"
      BY DEF Settings!Init
    <2> QED
      BY <1>1, <2>1, <2>2 DEF Settings!Agrees, Settings!V4L2Effect
  <1> QED
    BY <1>1, <1>2, <1>3, <1>4 DEF Settings!IInv, Settings!DeviceAgrees, Settings!SceneInSensor,
       Settings!AcceptedIsKept

LEMMA SettingsStep ==
    ASSUME Settings!IInv, [Settings!Next]_(Settings!settingVars)
    PROVE  Settings!IInv'
  <1>1. CASE Settings!initDefaultParameters
    BY <1>1, SetStep DEF Settings!initDefaultParameters
  <1>2. CASE Settings!Set
    BY <1>2, SetStep DEF Settings!Set
  <1>3. CASE UNCHANGED <<s1, s2, s3, s7, s8, s9>> /\ (s9 # "none" \/ s5' = s5)
    BY <1>3 DEF Settings!IInv, Settings!Agrees, Settings!DeviceAgrees, Settings!SceneInSensor,
       Settings!AcceptedIsKept
  <1> QED
    BY <1>1, <1>2, <1>3 DEF Settings!Next, Settings!settingVars, Settings!TakePicture, Settings!Frame

-----------------------------------------------------------------------------
(* The encoder: what run() has got from the driver at each step.           *)

Control == /\ Encoder!Types /\ Encoder!DeviceClosed /\ Encoder!Prepared /\ Encoder!Polling
           /\ Encoder!Polled /\ Encoder!Waits

\* The same without functions and records: the step and its direction, and of each
\* direction what it has.
Flat(a, d, dv, im, fc, bo, bc, oo, ob, co, cb, ct, pl, rt) ==
    /\ a \in {"idle", "build"} =>
           /\ dv = FALSE
           /\ oo = FALSE /\ ob = "none" /\ bo = "empty"
           /\ co = FALSE /\ cb = "none" /\ bc = "empty"
    /\ a \in {"reqbufs", "queue", "on"} /\ d = "output" => oo = FALSE
    /\ a \in {"queue", "on"} /\ d = "output" => bo = im
    /\ a = "on" /\ d = "output" => ob = "queued"
    /\ a \in {"format", "reqbufs", "queue", "on"} /\ d = "capture" =>
           oo = TRUE /\ bo = im /\ (ob = "queued" \/ co = TRUE)
    /\ a \in {"reqbufs", "queue", "on"} /\ d = "capture" => co = FALSE /\ fc = im
    /\ a = "on" /\ d = "capture" => cb = "queued"
    /\ a = "poll" =>
           /\ oo = TRUE /\ co = TRUE /\ ob = cb /\ cb \in {"queued", "done"}
           /\ bo = im /\ fc = im /\ (cb = "done" => ct = <<im, im>>)
    /\ a \in {"idle", "build", "format", "reqbufs", "queue", "on", "poll"} => pl = "not yet"
    /\ a \in {"dequeue", "off", "free"} /\ d = "capture" => pl # "not yet"
    /\ pl = "ready" => cb # "queued" /\ ct = <<im, im>>
    /\ a = "build" \/ rt = "picture" => ct = <<"input", "input">>
    /\ rt = "picture" => a = "idle"
    /\ pl # "not yet" =>
           /\ a = "dequeue" /\ d = "output" =>
                  \/ ob = "done" /\ cb = "done"
                  \/ oo = TRUE /\ co = TRUE /\ ob = "queued" /\ cb = "queued"
           /\ a \in {"off", "free"} /\ d = "output" => cb = "done"
           /\ a = "dequeue" /\ d = "capture" =>
                  cb = "done" \/ (oo = TRUE /\ co = TRUE /\ ob = "queued" /\ cb = "queued")

FlatNow ==
    Flat(s4[1], s4[2], s3, s5, s7["capture"], s8["output"], s8["capture"],
         s9["output"].on, s9["output"].buffer, s9["capture"].on, s9["capture"].buffer,
         s10, s11, s12)

BufferTypes == [Encoder!Dir -> {"empty", "thumbnail", "input", "result"}]
StreamType == [on : BOOLEAN, buffer : {"none", "queued", "done"}]

LEMMA OffIs ==
    ASSUME NEW r \in StreamType PROVE r = Encoder!Off <=> r.on = FALSE /\ r.buffer = "none"
  <1>1. PICK o \in BOOLEAN, b \in {"none", "queued", "done"} : r = [on |-> o, buffer |-> b]
    BY DEF StreamType
  <1>2. [on |-> o, buffer |-> b] = Encoder!Off <=> o = FALSE /\ b = "none"
    BY DEF Encoder!Off
  <1> QED
    BY <1>1, <1>2

LEMMA FlatIsControl == Control <=> Encoder!Types /\ FlatNow
  <1> SUFFICES ASSUME Encoder!Types PROVE Control <=> FlatNow
    BY DEF Control
  <1>1. /\ s9["output"].on \in BOOLEAN /\ s9["capture"].on \in BOOLEAN /\ s3 \in BOOLEAN
        /\ s9["output"] = [on |-> s9["output"].on, buffer |-> s9["output"].buffer]
        /\ s9["capture"] = [on |-> s9["capture"].on, buffer |-> s9["capture"].buffer]
    BY DEF Encoder!Types, Encoder!Dir
  <1>2. /\ s9["output"] = Encoder!Off <=>
               s9["output"].on = FALSE /\ s9["output"].buffer = "none"
        /\ s9["capture"] = Encoder!Off <=>
               s9["capture"].on = FALSE /\ s9["capture"].buffer = "none"
    <2>1. s9["output"] \in StreamType /\ s9["capture"] \in StreamType
      BY DEF Encoder!Types, Encoder!Dir, StreamType
    <2> QED
      BY <2>1, OffIs
  <1>3. Encoder!Convertible <=> /\ s9["output"].on = TRUE /\ s9["capture"].on = TRUE
                                /\ s9["output"].buffer = "queued" /\ s9["capture"].buffer = "queued"
    BY <1>1 DEF Encoder!Convertible, Encoder!Dir
  <1> QED
    BY ONLY <1>1, <1>2, <1>3, Encoder!Types, ZenonT(60) DEF Control, FlatNow, Flat, Encoder!DeviceClosed, Encoder!Prepared,
       Encoder!Polling, Encoder!Polled, Encoder!Waits, Encoder!Dir

LEMMA FlatIsControlNext == Control' <=> Encoder!Types' /\ FlatNow'
  <1> SUFFICES ASSUME Encoder!Types' PROVE Control' <=> FlatNow'
    BY DEF Control
  <1>1. /\ s9'["output"].on \in BOOLEAN /\ s9'["capture"].on \in BOOLEAN /\ s3' \in BOOLEAN
        /\ s9'["output"] = [on |-> s9'["output"].on, buffer |-> s9'["output"].buffer]
        /\ s9'["capture"] = [on |-> s9'["capture"].on, buffer |-> s9'["capture"].buffer]
    BY DEF Encoder!Types, Encoder!Dir
  <1>2. /\ s9'["output"] = Encoder!Off <=>
               s9'["output"].on = FALSE /\ s9'["output"].buffer = "none"
        /\ s9'["capture"] = Encoder!Off <=>
               s9'["capture"].on = FALSE /\ s9'["capture"].buffer = "none"
    <2>1. s9'["output"] \in StreamType /\ s9'["capture"] \in StreamType
      BY DEF Encoder!Types, Encoder!Dir, StreamType
    <2> QED
      BY <2>1, OffIs
  <1>3. Encoder!Convertible' <=> /\ s9'["output"].on = TRUE /\ s9'["capture"].on = TRUE
                                /\ s9'["output"].buffer = "queued" /\ s9'["capture"].buffer = "queued"
    BY <1>1 DEF Encoder!Convertible, Encoder!Dir
  <1> QED
    BY ONLY <1>1, <1>2, <1>3, Encoder!Types' DEF Control, FlatNow, Flat, Encoder!DeviceClosed, Encoder!Prepared,
       Encoder!Polling, Encoder!Polled, Encoder!Waits, Encoder!Dir


\* A step of run() in which the driver changes the buffers or the streams.
DriverTurn(x, buf, str) ==
    s4' = x /\ s8' = buf /\ s9' = str /\ UNCHANGED <<s1, s2, s3, s5, s6, s7, s10, s11, s12, s13>>


FlatWith(x, buf, str) ==
    Flat(x[1], x[2], s3, s5, s7["capture"], buf["output"], buf["capture"],
         str["output"].on, str["output"].buffer, str["capture"].on, str["capture"].buffer,
         s10, s11, s12)

LEMMA TurnKeeps ==
    ASSUME Control, NEW x \in Encoder!Labels, NEW buf \in BufferTypes,
           NEW str \in [Encoder!Dir -> StreamType], DriverTurn(x, buf, str), FlatWith(x, buf, str)
    PROVE  Control'
  <1>1. /\ s4' = x /\ s8' = buf /\ s9' = str /\ s1' = s1 /\ s2' = s2 /\ s3' = s3 /\ s5' = s5
        /\ s6' = s6 /\ s7' = s7 /\ s10' = s10 /\ s11' = s11 /\ s12' = s12
    BY DEF DriverTurn
  <1>2. Encoder!Types'
    <2>1. Encoder!Types
      BY DEF Control
    <2> QED
      BY ONLY <1>1, <2>1, x \in Encoder!Labels, buf \in BufferTypes, str \in [Encoder!Dir -> StreamType]
         DEF Encoder!Types, BufferTypes, StreamType
  <1>3. FlatNow'
    BY ONLY <1>1, FlatWith(x, buf, str) DEF FlatNow, FlatWith
  <1> QED
    BY <1>2, <1>3, FlatIsControlNext

LEMMA FlatHere == Control => FlatWith(s4, s8, s9) /\ s8 \in BufferTypes /\ s9 \in [Encoder!Dir -> StreamType]
  BY FlatIsControl DEF FlatWith, FlatNow, Encoder!Types, BufferTypes, StreamType

LEMMA LabelPairs ==
    /\ \A a \in {"format", "reqbufs", "queue", "on", "dequeue", "off", "free"}, d \in Encoder!Dir :
           <<a, d>> \in Encoder!Labels
    /\ <<"poll", "none">> \in Encoder!Labels /\ <<"end", "none">> \in Encoder!Labels
    /\ <<"build", "none">> \in Encoder!Labels /\ Encoder!Idle \in Encoder!Labels
  BY DEF Encoder!Labels

StreamIs(str, d, o, b) ==
    /\ str \in [Encoder!Dir -> StreamType]
    /\ str[d].on = o /\ str[d].buffer = b
    /\ \A e \in Encoder!Dir : e # d => str[e] = s9[e]

LEMMA StreamWith ==
    ASSUME Control, NEW d \in Encoder!Dir, NEW o \in BOOLEAN, NEW b \in {"none", "queued", "done"}
    PROVE  StreamIs([s9 EXCEPT ![d] = [on |-> o, buffer |-> b]], d, o, b)
  <1> DEFINE str == [s9 EXCEPT ![d] = [on |-> o, buffer |-> b]]
  <1>1. s9 \in [Encoder!Dir -> StreamType]
    BY FlatHere
  <1>2. [on |-> o, buffer |-> b] \in StreamType
    BY DEF StreamType
  <1>3. str[d] = [on |-> o, buffer |-> b] /\ \A e \in Encoder!Dir : e # d => str[e] = s9[e]
    BY <1>1
  <1>4. str \in [Encoder!Dir -> StreamType]
    BY <1>1, <1>2
  <1> QED
    BY <1>3, <1>4 DEF StreamIs

LEMMA StreamUpdates ==
    ASSUME Control, NEW d \in Encoder!Dir, NEW o, NEW b
    PROVE  /\ [s9 EXCEPT ![d].on = o] = [s9 EXCEPT ![d] = [on |-> o, buffer |-> s9[d].buffer]]
           /\ [s9 EXCEPT ![d].buffer = b] = [s9 EXCEPT ![d] = [on |-> s9[d].on, buffer |-> b]]
           /\ s9[d].on \in BOOLEAN /\ s9[d].buffer \in {"none", "queued", "done"}
  <1>1. s9[d] \in StreamType
    BY FlatHere
  <1>2. s9[d].on \in BOOLEAN /\ s9[d].buffer \in {"none", "queued", "done"}
    BY <1>1 DEF StreamType
  <1>3. [s9[d] EXCEPT !.on = o] = [on |-> o, buffer |-> s9[d].buffer]
    BY <1>1 DEF StreamType
  <1>4. [s9[d] EXCEPT !.buffer = b] = [on |-> s9[d].on, buffer |-> b]
    BY <1>1 DEF StreamType
  <1> QED
    BY <1>2, <1>3, <1>4

\* initDevice fails.
FailLabel(d) == IF d = "output" THEN <<"end", "none">> ELSE <<"dequeue", "output">>

LEMMA InitFailKeeps ==
    ASSUME Control, NEW d \in Encoder!Dir, NEW a \in {"format", "reqbufs", "queue", "on"},
           s4 = <<a, d>>, DriverTurn(FailLabel(d), s8, s9)
    PROVE  Control'
  <1>1. s4[1] = a /\ s4[2] = d
    OBVIOUS
  <1>2. FlatWith(<<a, d>>, s8, s9)
    BY FlatHere
  <1>3. FailLabel(d) \in Encoder!Labels
    BY LabelPairs DEF FailLabel, Encoder!Dir
  <1>4. FlatWith(FailLabel(d), s8, s9)
    <2>1. CASE d = "output"
      BY ONLY <1>2, <2>1, a \in {"format", "reqbufs", "queue", "on"} DEF FailLabel, FlatWith, Flat
    <2>2. CASE d = "capture"
      BY ONLY <1>2, <2>2, a \in {"format", "reqbufs", "queue", "on"} DEF FailLabel, FlatWith, Flat
    <2> QED
      BY <2>1, <2>2 DEF Encoder!Dir
  <1> QED
    BY <1>3, <1>4, FlatHere, TurnKeeps

\* cleanupDevice ends.
EndLabel(d) ==
    IF d = "output" /\ s11 # "not yet" THEN <<"dequeue", "capture">> ELSE <<"end", "none">>

LEMMA CleanupKeeps ==
    ASSUME Control, NEW d \in Encoder!Dir, NEW a \in {"dequeue", "off", "free"},
           s4 = <<a, d>>, NEW buf \in BufferTypes, DriverTurn(EndLabel(d), buf, s9)
    PROVE  Control'
  <1>2. FlatWith(<<a, d>>, s8, s9)
    BY FlatHere
  <1>3. EndLabel(d) \in Encoder!Labels
    BY LabelPairs DEF EndLabel, Encoder!Dir
  <1>4. FlatWith(EndLabel(d), buf, s9)
    <2>1. CASE d = "output" /\ s11 # "not yet"
      BY ONLY <1>2, <2>1, a \in {"dequeue", "off", "free"} DEF EndLabel, FlatWith, Flat
    <2>2. CASE d = "output" /\ s11 = "not yet"
      BY ONLY <1>2, <2>2, a \in {"dequeue", "off", "free"} DEF EndLabel, FlatWith, Flat
    <2>3. CASE d = "capture"
      BY ONLY <1>2, <2>3, a \in {"dequeue", "off", "free"} DEF EndLabel, FlatWith, Flat
    <2> QED
      BY <2>1, <2>2, <2>3 DEF Encoder!Dir
  <1> QED
    BY <1>3, <1>4, FlatHere, TurnKeeps

LEMMA FormatStep ==
    ASSUME Control, NEW d \in Encoder!Dir, Encoder!Format(d) PROVE Control'
  <1>1. /\ s4 = <<"format", d>>
        /\ \/ /\ s9[d].on = FALSE /\ s8[d] = "empty"
              /\ s7' = [s7 EXCEPT ![d] = s5] /\ s4' = <<"reqbufs", d>>
              /\ UNCHANGED <<s1, s2, s3, s5, s6, s8, s9, s10, s11, s12, s13>>
           \/ DriverTurn(FailLabel(d), s8, s9)
    BY DEF Encoder!Format, Encoder!InitFails, DriverTurn, FailLabel
  <1>2. CASE DriverTurn(FailLabel(d), s8, s9)
    BY <1>1, <1>2, InitFailKeeps
  <1>3. CASE /\ s9[d].on = FALSE /\ s8[d] = "empty"
             /\ s7' = [s7 EXCEPT ![d] = s5] /\ s4' = <<"reqbufs", d>>
             /\ UNCHANGED <<s1, s2, s3, s5, s6, s8, s9, s10, s11, s12, s13>>
    <2>1. Encoder!Types /\ FlatWith(<<"format", d>>, s8, s9)
      BY <1>1, FlatHere DEF Control
    <2>2. s7' \in [Encoder!Dir -> {"none", "thumbnail", "input"}]
      BY <1>3, <2>1 DEF Encoder!Types
    <2>3. Encoder!Types'
      <3>1. <<"reqbufs", d>> \in Encoder!Labels
        BY LabelPairs
      <3> QED
        BY ONLY <1>3, <2>1, <2>2, <3>1 DEF Encoder!Types
    <2>4. s7'[d] = s5
      BY <1>3, <2>1 DEF Encoder!Types
    <2>5. FlatNow'
      <3>1. s4'[1] = "reqbufs" /\ s4'[2] = d
        BY <1>3
      <3>2. CASE d = "output"
        BY ONLY <1>3, <2>1, <3>1, <3>2 DEF FlatNow, FlatWith, Flat
      <3>3. CASE d = "capture"
        BY ONLY <1>3, <2>1, <2>4, <3>1, <3>3 DEF FlatNow, FlatWith, Flat
      <3> QED
        BY <3>2, <3>3 DEF Encoder!Dir
    <2> QED
      BY <2>3, <2>5, FlatIsControlNext
  <1> QED
    BY <1>1, <1>2, <1>3

LEMMA ReqBufsStep ==
    ASSUME Control, NEW d \in Encoder!Dir, Encoder!ReqBufs(d) PROVE Control'
  <1> DEFINE got == IF d = "output" THEN s5 ELSE "result"
             buf == [s8 EXCEPT ![d] = got]
  <1>1. /\ s4 = <<"reqbufs", d>>
        /\ DriverTurn(<<"queue", d>>, buf, s9) \/ DriverTurn(FailLabel(d), s8, s9)
    BY DEF Encoder!ReqBufs, Encoder!InitFails, DriverTurn, FailLabel
  <1>2. CASE DriverTurn(FailLabel(d), s8, s9)
    BY <1>1, <1>2, InitFailKeeps
  <1>3. CASE DriverTurn(<<"queue", d>>, buf, s9)
    <2>1. FlatWith(<<"reqbufs", d>>, s8, s9) /\ s8 \in BufferTypes
      BY <1>1, FlatHere
    <2>2. got \in {"thumbnail", "input", "result"}
      BY DEF Control, Encoder!Types
    <2>3. /\ buf \in BufferTypes /\ buf[d] = got
          /\ \A e \in Encoder!Dir : e # d => buf[e] = s8[e]
      BY <2>1, <2>2 DEF BufferTypes
    <2> HIDE DEF buf
    <2>4. FlatWith(<<"queue", d>>, buf, s9)
      <3>1. CASE d = "output"
        <4>1. buf["output"] = s5 /\ buf["capture"] = s8["capture"]
          BY <2>3, <3>1 DEF Encoder!Dir
        <4> QED
          BY ONLY <2>1, <3>1, <4>1 DEF FlatWith, Flat
      <3>2. CASE d = "capture"
        <4>1. buf["output"] = s8["output"]
          BY <2>3, <3>2 DEF Encoder!Dir
        <4> QED
          BY ONLY <2>1, <3>2, <4>1 DEF FlatWith, Flat
      <3> QED
        BY <3>1, <3>2 DEF Encoder!Dir
    <2> QED
      BY <1>3, <2>3, <2>4, FlatHere, LabelPairs, TurnKeeps
  <1> QED
    BY <1>1, <1>2, <1>3

LEMMA QueueStep ==
    ASSUME Control, NEW d \in Encoder!Dir, Encoder!Queue(d) PROVE Control'
  <1> DEFINE str == [s9 EXCEPT ![d] = [on |-> s9[d].on, buffer |-> "queued"]]
             next == <<"on", d>>
  <1>1. /\ s4 = <<"queue", d>>
        /\ DriverTurn(next, s8, str) \/ DriverTurn(FailLabel(d), s8, s9)
    <2>1. [s9 EXCEPT ![d].buffer = "queued"] = str
      BY StreamUpdates
    <2> QED
      BY <2>1 DEF Encoder!Queue, Encoder!InitFails, DriverTurn, FailLabel
  <1>2. CASE DriverTurn(FailLabel(d), s8, s9)
    BY <1>1, <1>2, InitFailKeeps
  <1>3. CASE DriverTurn(next, s8, str)
    <2>1. FlatWith(<<"queue", d>>, s8, s9)
      BY <1>1, FlatHere
    <2>0. s9[d].on \in BOOLEAN /\ s9[d].buffer \in {"none", "queued", "done"}
      BY StreamUpdates
    <2>5. StreamIs(str, d, s9[d].on, "queued")
      BY <2>0, StreamWith
    <2>2. /\ str \in [Encoder!Dir -> StreamType]
          /\ str[d].on = s9[d].on /\ str[d].buffer = "queued"
          /\ \A e \in Encoder!Dir : e # d => str[e] = s9[e]
      BY ONLY <2>5 DEF StreamIs
    <2> HIDE DEF str
    <2>3. next \in Encoder!Labels
      BY LabelPairs DEF Encoder!Dir
    <2>4. FlatWith(next, s8, str)
      <3>1. CASE d = "output"
        <4>1. /\ str["output"].on = s9["output"].on /\ str["output"].buffer = "queued"
              /\ str["capture"] = s9["capture"]
          BY <2>2, <3>1 DEF Encoder!Dir
        <4> QED
          BY ONLY <2>1, <3>1, <4>1 DEF FlatWith, Flat
      <3>2. CASE d = "capture"
        <4>1. /\ str["capture"].on = s9["capture"].on /\ str["capture"].buffer = "queued"
              /\ str["output"] = s9["output"]
          BY <2>2, <3>2 DEF Encoder!Dir
        <4> QED
          BY ONLY <2>1, <3>2, <4>1 DEF FlatWith, Flat
      <3> QED
        BY <3>1, <3>2 DEF Encoder!Dir
    <2> QED
      BY <1>3, <2>2, <2>3, <2>4, FlatHere, TurnKeeps
  <1> QED
    BY <1>1, <1>2, <1>3

LEMMA OnStep ==
    ASSUME Control, NEW d \in Encoder!Dir, Encoder!On(d) PROVE Control'
  <1> DEFINE str == [s9 EXCEPT ![d] = [on |-> TRUE, buffer |-> s9[d].buffer]]
             next == IF d = "output" THEN <<"format", "capture">> ELSE <<"poll", "none">>
  <1>1. /\ s4 = <<"on", d>>
        /\ DriverTurn(next, s8, str) \/ DriverTurn(FailLabel(d), s8, s9)
    <2>1. [s9 EXCEPT ![d].on = TRUE] = str
      BY StreamUpdates
    <2> QED
      BY <2>1 DEF Encoder!On, Encoder!InitFails, DriverTurn, FailLabel
  <1>2. CASE DriverTurn(FailLabel(d), s8, s9)
    BY <1>1, <1>2, InitFailKeeps
  <1>3. CASE DriverTurn(next, s8, str)
    <2>1. FlatWith(<<"on", d>>, s8, s9)
      BY <1>1, FlatHere
    <2>0. s9[d].on \in BOOLEAN /\ s9[d].buffer \in {"none", "queued", "done"}
      BY StreamUpdates
    <2>5. StreamIs(str, d, TRUE, s9[d].buffer)
      BY <2>0, StreamWith
    <2>2. /\ str \in [Encoder!Dir -> StreamType]
          /\ str[d].on = TRUE /\ str[d].buffer = s9[d].buffer
          /\ \A e \in Encoder!Dir : e # d => str[e] = s9[e]
      BY ONLY <2>5 DEF StreamIs
    <2> HIDE DEF str
    <2>3. next \in Encoder!Labels
      BY LabelPairs DEF Encoder!Dir
    <2>4. FlatWith(next, s8, str)
      <3>1. CASE d = "output"
        <4>1. /\ str["output"].on = TRUE /\ str["output"].buffer = s9["output"].buffer
              /\ str["capture"] = s9["capture"]
          BY <2>2, <3>1 DEF Encoder!Dir
        <4> QED
          BY ONLY <2>1, <3>1, <4>1 DEF FlatWith, Flat
      <3>2. CASE d = "capture"
        <4>1. /\ str["capture"].on = TRUE /\ str["capture"].buffer = s9["capture"].buffer
              /\ str["output"] = s9["output"]
          BY <2>2, <3>2 DEF Encoder!Dir
        <4> QED
          BY ONLY <2>1, <3>2, <4>1 DEF FlatWith, Flat
      <3> QED
        BY <3>1, <3>2 DEF Encoder!Dir
    <2> QED
      BY <1>3, <2>2, <2>3, <2>4, FlatHere, TurnKeeps
  <1> QED
    BY <1>1, <1>2, <1>3

LEMMA DequeueStep ==
    ASSUME Control, NEW d \in Encoder!Dir, Encoder!Dequeue(d) PROVE Control'
  <1> DEFINE str == [s9 EXCEPT ![d] = [on |-> s9[d].on, buffer |-> "none"]]
             next == <<"off", d>>
  <1>1. /\ s4 = <<"dequeue", d>>
        /\ (s9[d].buffer = "done" /\ DriverTurn(next, s8, str)) \/ DriverTurn(EndLabel(d), s8, s9)
    <2>1. [s9 EXCEPT ![d].buffer = "none"] = str
      BY StreamUpdates
    <2> QED
      BY <2>1 DEF Encoder!Dequeue, Encoder!CleanupEnds, DriverTurn, EndLabel
  <1>2. CASE DriverTurn(EndLabel(d), s8, s9)
    BY <1>1, <1>2, CleanupKeeps, FlatHere
  <1>3. CASE s9[d].buffer = "done" /\ DriverTurn(next, s8, str)
    <2>1. FlatWith(<<"dequeue", d>>, s8, s9)
      BY <1>1, FlatHere
    <2>0. s9[d].on \in BOOLEAN /\ s9[d].buffer \in {"none", "queued", "done"}
      BY StreamUpdates
    <2>5. StreamIs(str, d, s9[d].on, "none")
      BY <2>0, StreamWith
    <2>2. /\ str \in [Encoder!Dir -> StreamType]
          /\ str[d].on = s9[d].on /\ str[d].buffer = "none"
          /\ \A e \in Encoder!Dir : e # d => str[e] = s9[e]
      BY ONLY <2>5 DEF StreamIs
    <2> HIDE DEF str
    <2>3. next \in Encoder!Labels
      BY LabelPairs DEF Encoder!Dir
    <2>4. FlatWith(next, s8, str)
      <3>1. CASE d = "output"
        <4>1. /\ str["output"].on = s9["output"].on /\ str["output"].buffer = "none"
              /\ str["capture"] = s9["capture"]
          BY <2>2, <3>1 DEF Encoder!Dir
        <4> QED
          BY ONLY <1>3, <2>1, <3>1, <4>1 DEF FlatWith, Flat
      <3>2. CASE d = "capture"
        <4>1. /\ str["capture"].on = s9["capture"].on /\ str["capture"].buffer = "none"
              /\ str["output"] = s9["output"]
          BY <2>2, <3>2 DEF Encoder!Dir
        <4> QED
          BY ONLY <1>3, <2>1, <3>2, <4>1 DEF FlatWith, Flat
      <3> QED
        BY <3>1, <3>2 DEF Encoder!Dir
    <2> QED
      BY <1>3, <2>2, <2>3, <2>4, FlatHere, TurnKeeps
  <1> QED
    BY <1>1, <1>2, <1>3

LEMMA StreamOffStep ==
    ASSUME Control, NEW d \in Encoder!Dir, Encoder!StreamOff(d) PROVE Control'
  <1> DEFINE str == [s9 EXCEPT ![d] = [on |-> FALSE, buffer |-> "none"]]
             next == <<"free", d>>
  <1>1. /\ s4 = <<"off", d>>
        /\ DriverTurn(next, s8, str) \/ DriverTurn(EndLabel(d), s8, s9)
    <2>1. [s9 EXCEPT ![d] = Encoder!Off] = str
      BY DEF Encoder!Off
    <2> QED
      BY <2>1 DEF Encoder!StreamOff, Encoder!CleanupEnds, DriverTurn, EndLabel
  <1>2. CASE DriverTurn(EndLabel(d), s8, s9)
    BY <1>1, <1>2, CleanupKeeps, FlatHere
  <1>3. CASE DriverTurn(next, s8, str)
    <2>1. FlatWith(<<"off", d>>, s8, s9)
      BY <1>1, FlatHere
    <2>0. s9[d].on \in BOOLEAN /\ s9[d].buffer \in {"none", "queued", "done"}
      BY StreamUpdates
    <2>5. StreamIs(str, d, FALSE, "none")
      BY <2>0, StreamWith
    <2>2. /\ str \in [Encoder!Dir -> StreamType]
          /\ str[d].on = FALSE /\ str[d].buffer = "none"
          /\ \A e \in Encoder!Dir : e # d => str[e] = s9[e]
      BY ONLY <2>5 DEF StreamIs
    <2> HIDE DEF str
    <2>3. next \in Encoder!Labels
      BY LabelPairs DEF Encoder!Dir
    <2>4. FlatWith(next, s8, str)
      <3>1. CASE d = "output"
        <4>1. /\ str["output"].on = FALSE /\ str["output"].buffer = "none"
              /\ str["capture"] = s9["capture"]
          BY <2>2, <3>1 DEF Encoder!Dir
        <4> QED
          BY ONLY <2>1, <3>1, <4>1 DEF FlatWith, Flat
      <3>2. CASE d = "capture"
        <4>1. /\ str["capture"].on = FALSE /\ str["capture"].buffer = "none"
              /\ str["output"] = s9["output"]
          BY <2>2, <3>2 DEF Encoder!Dir
        <4> QED
          BY ONLY <2>1, <3>2, <4>1 DEF FlatWith, Flat
      <3> QED
        BY <3>1, <3>2 DEF Encoder!Dir
    <2> QED
      BY <1>3, <2>2, <2>3, <2>4, FlatHere, TurnKeeps
  <1> QED
    BY <1>1, <1>2, <1>3

LEMMA FreeStep ==
    ASSUME Control, NEW d \in Encoder!Dir, Encoder!Free(d) PROVE Control'
  <1>1. s4 = <<"free", d>> /\ \E buf : buf \in BufferTypes /\ DriverTurn(EndLabel(d), buf, s9)
    <2>1. s8 \in BufferTypes /\ [s8 EXCEPT ![d] = "empty"] \in BufferTypes
      BY FlatHere DEF BufferTypes
    <2> QED
      BY <2>1 DEF Encoder!Free, Encoder!CleanupEnds, DriverTurn, EndLabel
  <1> QED
    BY <1>1, CleanupKeeps

LEMMA ConvertStep == ASSUME Control, Encoder!Convert PROVE Control'
  <1> DEFINE Done(d) == [on |-> s9[d].on, buffer |-> "done"]
             str == [d \in Encoder!Dir |-> Done(d)]
             made == <<s8["output"], s7["capture"]>>
  <1>1. /\ s9["output"].on = TRUE /\ s9["capture"].on = TRUE
        /\ s9["output"].buffer = "queued" /\ s9["capture"].buffer = "queued"
    <2>1. Encoder!Types
      BY DEF Control
    <2> QED
      BY <2>1 DEF Encoder!Convert, Encoder!Convertible, Encoder!Dir, Encoder!Types
  <1>2. /\ s9' = str /\ s10' = made
        /\ UNCHANGED <<s1, s2, s3, s4, s5, s6, s7, s8, s11, s12, s13>>
    <2>1. ASSUME NEW d \in Encoder!Dir PROVE [s9[d] EXCEPT !.buffer = "done"] = Done(d)
      BY FlatHere DEF StreamType
    <2> QED
      BY <2>1 DEF Encoder!Convert
  <1>3. /\ str \in [Encoder!Dir -> StreamType]
        /\ str["output"].on = TRUE /\ str["capture"].on = TRUE
        /\ str["output"].buffer = "done" /\ str["capture"].buffer = "done"
    BY <1>1 DEF StreamType, Encoder!Dir
  <1> HIDE DEF str, made
  <1>4. FlatWith(s4, s8, s9) /\ Encoder!Types
    BY FlatHere DEF Control
  <1>5. Encoder!Types'
    BY ONLY <1>2, <1>3, <1>4 DEF Encoder!Types, StreamType
  <1>6. s4[1] = "poll" => made = <<s5, s5>>
    BY <1>4 DEF FlatWith, Flat, made
  <1>7. FlatNow'
    BY ONLY <1>1, <1>2, <1>3, <1>4, <1>6 DEF FlatNow, FlatWith, Flat
  <1> QED
    BY <1>5, <1>7, FlatIsControlNext

LEMMA RunStarts == ASSUME Control, Encoder!openDevice PROVE Control'
  <1>1. FlatWith(<<"idle", "none">>, s8, s9) /\ Encoder!Types
    BY FlatHere DEF Encoder!openDevice, Encoder!Idle, Control
  <1>2. Encoder!Types'
    <2>1. s4' \in Encoder!Labels /\ s5' \in {"thumbnail", "input"} /\ s3' \in BOOLEAN
      BY <1>1, LabelPairs DEF Encoder!openDevice, Encoder!Types, Encoder!Dir
    <2>2. s2' \in BOOLEAN /\ s6' \in BOOLEAN /\ s12' \in {"none", "error", "picture"}
      BY DEF Encoder!openDevice
    <2>3. UNCHANGED <<s1, s7, s8, s9, s11>>
      BY DEF Encoder!openDevice
    <2> QED
      BY ONLY <1>1, <2>1, <2>2, <2>3 DEF Encoder!Types
  <1>3. /\ s4 = <<"idle", "none">> /\ s12' # "picture" /\ UNCHANGED <<s1, s7, s8, s9, s11>>
        /\ \/ s4' = <<"format", "output">>
           \/ s12' = "error" /\ UNCHANGED <<s3, s4, s5>>
    BY DEF Encoder!openDevice, Encoder!Idle
  <1>4. FlatNow'
    <2>1. s11 = "not yet"
      BY <1>1 DEF FlatWith, Flat
    <2>2. CASE s4' = <<"format", "output">>
      <3>1. s4'[1] = "format" /\ s4'[2] = "output"
        BY <2>2
      <3> QED
        BY ONLY <1>3, <2>1, <3>1 DEF FlatNow, Flat
    <2>3. CASE s12' = "error" /\ UNCHANGED <<s3, s4, s5>>
      <3>1. s4'[1] = "idle" /\ s4'[2] = "none"
        BY <1>3, <2>3
      <3> QED
        BY ONLY <1>1, <1>3, <2>1, <2>3, <3>1 DEF FlatNow, FlatWith, Flat
    <2> QED
      BY <1>3, <2>2, <2>3
  <1> QED
    BY <1>2, <1>4, FlatIsControlNext

LEMMA PollStep == ASSUME Control, Encoder!Poll PROVE Control'
  <1>1. /\ s4 = <<"poll", "none">> /\ s4' = <<"dequeue", "output">>
        /\ \/ s9["capture"].buffer = "done" /\ s11' = "ready"
           \/ s11' = "timeout"
        /\ UNCHANGED <<s1, s2, s3, s5, s6, s7, s8, s9, s10, s12, s13>>
    BY DEF Encoder!Poll, Encoder!driverVars
  <1>2. FlatWith(<<"poll", "none">>, s8, s9) /\ Encoder!Types
    BY <1>1, FlatHere DEF Control
  <1>3. Encoder!Types'
    <2>1. <<"dequeue", "output">> \in Encoder!Labels
      BY LabelPairs DEF Encoder!Dir
    <2> QED
      BY ONLY <1>1, <1>2, <2>1 DEF Encoder!Types
  <1>4. FlatNow'
    BY ONLY <1>1, <1>2 DEF FlatNow, FlatWith, Flat
  <1> QED
    BY <1>3, <1>4, FlatIsControlNext

LEMMA ThumbnailStep == ASSUME Control, Encoder!ThumbnailEnds PROVE Control'
  <1>1. /\ s4 = <<"end", "none">> /\ s4' = <<"format", "output">>
        /\ s6' = (s11 = "ready") /\ s11' = "not yet" /\ s5' = "input"
        /\ UNCHANGED <<s1, s2, s3, s7, s8, s9, s10, s12, s13>>
    BY DEF Encoder!ThumbnailEnds, Encoder!driverVars
  <1>2. FlatWith(<<"end", "none">>, s8, s9) /\ Encoder!Types
    BY <1>1, FlatHere DEF Control
  <1>3. Encoder!Types'
    <2>1. <<"format", "output">> \in Encoder!Labels
      BY LabelPairs DEF Encoder!Dir
    <2>2. s6' \in BOOLEAN
      BY <1>1
    <2> QED
      BY ONLY <1>1, <1>2, <2>1, <2>2 DEF Encoder!Types
  <1>4. FlatNow'
    BY ONLY <1>1, <1>2 DEF FlatNow, FlatWith, Flat
  <1> QED
    BY <1>3, <1>4, FlatIsControlNext

LEMMA PictureStep == ASSUME Control, Encoder!PictureEnds PROVE Control'
  <1>1. /\ s4 = <<"end", "none">> /\ s5 = "input" /\ s3' = FALSE /\ Encoder!Closed
        /\ \/ s11 = "ready" /\ s4' = <<"build", "none">> /\ s12' = s12
           \/ s11 # "ready" /\ s4' = <<"idle", "none">> /\ s12' = "error"
        /\ s11' = "not yet" /\ UNCHANGED <<s1, s2, s5, s6, s10, s13>>
    BY DEF Encoder!PictureEnds, Encoder!Idle
  <1>2. FlatWith(<<"end", "none">>, s8, s9) /\ Encoder!Types
    BY <1>1, FlatHere DEF Control
  <1>3. /\ s7' \in [Encoder!Dir -> {"none", "thumbnail", "input"}]
        /\ s8' \in BufferTypes /\ s9' \in [Encoder!Dir -> StreamType]
        /\ s8'["output"] = "empty" /\ s8'["capture"] = "empty"
        /\ s9'["output"].on = FALSE /\ s9'["output"].buffer = "none"
        /\ s9'["capture"].on = FALSE /\ s9'["capture"].buffer = "none"
    BY <1>1 DEF Encoder!Closed, Encoder!Off, Encoder!Dir, BufferTypes, StreamType
  <1>4. Encoder!Types'
    <2>1. s4' \in Encoder!Labels
      BY <1>1, LabelPairs DEF Encoder!Idle
    <2>2. s12' \in {"none", "error", "picture"}
      BY <1>1, <1>2 DEF Encoder!Types
    <2> QED
      BY ONLY <1>1, <1>2, <1>3, <2>1, <2>2 DEF Encoder!Types, BufferTypes, StreamType
  <1>5. FlatNow'
    <2>1. s12 # "picture" /\ (s11 = "ready" => s10 = <<"input", "input">>)
      BY <1>1, <1>2 DEF FlatWith, Flat
    <2>2. CASE s4' = <<"build", "none">>
      <3>1. s4'[1] = "build" /\ s4'[2] = "none" /\ s10' = <<"input", "input">> /\ s12' # "picture"
        BY <1>1, <2>1, <2>2
      <3> QED
        BY ONLY <1>1, <1>3, <3>1 DEF FlatNow, Flat
    <2>3. CASE s4' = <<"idle", "none">>
      <3>1. s4'[1] = "idle" /\ s4'[2] = "none" /\ s12' = "error"
        BY <1>1, <2>3
      <3> QED
        BY ONLY <1>1, <1>3, <3>1 DEF FlatNow, Flat
    <2> QED
      BY <1>1, <2>2, <2>3
  <1> QED
    BY <1>4, <1>5, FlatIsControlNext

LEMMA BuildStep == ASSUME Control, Encoder!Build PROVE Control'
  <1>1. /\ s4 = <<"build", "none">> /\ s4' = <<"idle", "none">> /\ s12' = "picture"
        /\ UNCHANGED <<s1, s2, s3, s5, s6, s7, s8, s9, s10, s11>>
    BY DEF Encoder!Build, Encoder!driverVars, Encoder!Idle
  <1>2. FlatWith(<<"build", "none">>, s8, s9) /\ Encoder!Types
    BY <1>1, FlatHere DEF Control
  <1>3. Encoder!Types'
    <2>1. <<"idle", "none">> \in Encoder!Labels
      BY LabelPairs DEF Encoder!Idle
    <2> QED
      BY ONLY <1>1, <1>2, <2>1 DEF Encoder!Types
  <1>4. FlatNow'
    BY ONLY <1>1, <1>2 DEF FlatNow, FlatWith, Flat
  <1> QED
    BY <1>3, <1>4, FlatIsControlNext

LEMMA CallsBetween ==
    ASSUME Control, Encoder!setThumbnail \/ Encoder!cleanup \/ UNCHANGED Encoder!jpegVars
    PROVE  Control'
  <1>1. s1' \in BOOLEAN /\ UNCHANGED <<s2, s3, s4, s5, s6, s7, s8, s9, s10, s11, s12, s13>>
    BY DEF Encoder!setThumbnail, Encoder!cleanup, Encoder!jpegVars, Encoder!driverVars,
           Control, Encoder!Types
  <1>2. FlatNow /\ Encoder!Types
    BY FlatIsControl
  <1>3. Encoder!Types'
    BY ONLY <1>1, <1>2 DEF Encoder!Types
  <1>4. FlatNow'
    BY ONLY <1>1, <1>2 DEF FlatNow
  <1> QED
    BY <1>3, <1>4, FlatIsControlNext

LEMMA ControlStart == Encoder!Init => Control
  <1> SUFFICES ASSUME Encoder!Init PROVE Control
    OBVIOUS
  <1>1. /\ s1 = FALSE /\ s2 = FALSE /\ s3 = FALSE /\ s4 = <<"idle", "none">> /\ s5 = "input"
        /\ s6 = FALSE /\ s11 = "not yet" /\ s12 = "none"
        /\ s7 = [d \in Encoder!Dir |-> "none"] /\ s8 = [d \in Encoder!Dir |-> "empty"]
        /\ s9 = [d \in Encoder!Dir |-> Encoder!Off]
    BY DEF Encoder!Init, Encoder!Idle
  <1>2. /\ s7 \in [Encoder!Dir -> {"none", "thumbnail", "input"}]
        /\ s8 \in BufferTypes /\ s9 \in [Encoder!Dir -> StreamType]
        /\ s8["output"] = "empty" /\ s8["capture"] = "empty"
        /\ s9["output"].on = FALSE /\ s9["output"].buffer = "none"
        /\ s9["capture"].on = FALSE /\ s9["capture"].buffer = "none"
    BY <1>1 DEF Encoder!Off, Encoder!Dir, BufferTypes, StreamType
  <1>3. Encoder!Types
    <2>1. <<"idle", "none">> \in Encoder!Labels
      BY LabelPairs DEF Encoder!Idle
    <2> QED
      BY ONLY <1>1, <1>2, <2>1 DEF Encoder!Types, BufferTypes, StreamType
  <1>4. FlatNow
    BY ONLY <1>1, <1>2 DEF FlatNow, Flat
  <1> QED
    BY <1>3, <1>4, FlatIsControl

LEMMA ControlStep == ASSUME Control, [Encoder!Next]_(Encoder!jpegVars) PROVE Control'
  BY FormatStep, ReqBufsStep, QueueStep, OnStep, DequeueStep, StreamOffStep, FreeStep,
     ConvertStep, RunStarts, PollStep, ThumbnailStep, PictureStep, BuildStep, CallsBetween
     DEF Encoder!Next

-----------------------------------------------------------------------------
(* The layout of the EXIF data: what a reader finds in cells that are       *)
(* written behind others.                                                   *)

CellsOf(N) ==
    [of : N, part : {"space", "link", "entry", "value"}, at : Nat, len : Nat, points : Nat]
TagsIn(N) == [of : N, len : 0..91, points : Nat]
NamesOf(c) == {c[i].of : i \in 1..Len(c)}

\* The cell is what it was written as.
Intact(c, i) == \A j \in 1..Len(c) : j > i => Encoder!Apart(c[i], c[j])

\* The tag is found, with its value.
ReadsFrom(c, i, t) ==
    /\ c[i].of = t.of /\ c[i].part = "entry" /\ Intact(c, i)
    /\ t.len <= 4 => c[i].points = t.points
    /\ \A j \in 1..Len(c) : c[j].of = t.of /\ c[j].part = "value" =>
           c[j].at = c[i].points + 10 /\ Intact(c, j)
Reads(c, t) == \E i \in 1..Len(c) : ReadsFrom(c, i, t)

\* A directory starts here.
Begins(c, a) == \E i \in 1..Len(c) : c[i].part = "space" /\ c[i].at = a /\ Intact(c, i)

\* No cell is written over another one; the link is.
Over(c, d) ==
    \A i \in 1..Len(c), j \in 1..Len(d) : c[i].part # "link" => Encoder!Apart(c[i], d[j])

\* The cells of one sequence and then those of the other.
Joined(c, d, e) ==
    /\ Len(c) \in Nat /\ Len(d) \in Nat /\ Len(e) = Len(c) + Len(d)
    /\ \A i \in 1..Len(c) : e[i] = c[i]
    /\ \A j \in 1..Len(d) : e[Len(c) + j] = d[j]

LEMMA JoinedConcat ==
    ASSUME NEW S, NEW c \in Seq(S), NEW d \in Seq(S)
    PROVE  Joined(c, d, c \o d) /\ c \o d \in Seq(S)
  <1>1. Len(c) \in Nat /\ Len(d) \in Nat
    BY LenProperties
  <1>2. /\ c \o d \in Seq(S)
        /\ Len(c \o d) = Len(c) + Len(d)
        /\ \A i \in 1..Len(c) + Len(d) :
               (c \o d)[i] = IF i <= Len(c) THEN c[i] ELSE d[i - Len(c)]
    BY ConcatProperties
  <1>3. ASSUME NEW i \in 1..Len(c) PROVE (c \o d)[i] = c[i]
    <2>1. i \in 1..Len(c) + Len(d) /\ i <= Len(c)
      BY <1>1
    <2> QED
      BY <2>1, <1>2
  <1>4. ASSUME NEW j \in 1..Len(d) PROVE (c \o d)[Len(c) + j] = d[j]
    <2>1. /\ Len(c) + j \in 1..Len(c) + Len(d) /\ ~(Len(c) + j <= Len(c))
          /\ (Len(c) + j) - Len(c) = j
      BY <1>1
    <2> QED
      BY <2>1, <1>2
  <1> QED
    BY <1>1, <1>2, <1>3, <1>4 DEF Joined

FromEither(c, d, e, k) ==
    \/ k \in 1..Len(c) /\ e[k] = c[k]
    \/ \E j \in 1..Len(d) : k = Len(c) + j /\ e[k] = d[j]

LEMMA JoinedPlaces ==
    ASSUME NEW c, NEW d, NEW e, Joined(c, d, e), NEW k \in 1..Len(e)
    PROVE  FromEither(c, d, e, k)
  <1>1. CASE k <= Len(c)
    <2>1. k \in 1..Len(c)
      BY <1>1 DEF Joined
    <2> QED
      BY <2>1 DEF Joined, FromEither
  <1>2. CASE ~(k <= Len(c))
    <2>1. k - Len(c) \in 1..Len(d) /\ k = Len(c) + (k - Len(c))
      BY <1>2 DEF Joined
    <2> QED
      BY <2>1 DEF Joined, FromEither
  <1> QED
    BY <1>1, <1>2

LEMMA JoinedNames ==
    ASSUME NEW c, NEW d, NEW e, Joined(c, d, e)
    PROVE  NamesOf(e) = NamesOf(c) \cup NamesOf(d)
  <1>1. ASSUME NEW i \in 1..Len(c) PROVE i \in 1..Len(e) /\ e[i] = c[i]
    BY DEF Joined
  <1>2. ASSUME NEW j \in 1..Len(d) PROVE Len(c) + j \in 1..Len(e) /\ e[Len(c) + j] = d[j]
    BY DEF Joined
  <1>3. ASSUME NEW x \in NamesOf(e) PROVE x \in NamesOf(c) \cup NamesOf(d)
    <2>1. PICK k \in 1..Len(e) : x = e[k].of
      BY DEF NamesOf
    <2>2. CASE k \in 1..Len(c) /\ e[k] = c[k]
      BY <2>1, <2>2 DEF NamesOf
    <2>3. CASE \E j \in 1..Len(d) : k = Len(c) + j /\ e[k] = d[j]
      BY <2>1, <2>3 DEF NamesOf
    <2> QED
      BY <2>2, <2>3, JoinedPlaces DEF FromEither
  <1>4. ASSUME NEW x \in NamesOf(c) PROVE x \in NamesOf(e)
    BY <1>1 DEF NamesOf
  <1>5. ASSUME NEW x \in NamesOf(d) PROVE x \in NamesOf(e)
    <2>1. PICK j \in 1..Len(d) : x = d[j].of
      BY DEF NamesOf
    <2>2. PICK k \in 1..Len(e) : e[k] = d[j]
      BY <1>2
    <2> QED
      BY <2>1, <2>2 DEF NamesOf
  <1> QED
    BY <1>3, <1>4, <1>5

LEMMA IntactBefore ==
    ASSUME NEW c, NEW d, NEW e, Joined(c, d, e), Over(c, d),
           NEW i \in 1..Len(c), c[i].part # "link", Intact(c, i)
    PROVE  Intact(e, i) /\ i \in 1..Len(e) /\ e[i] = c[i]
  <1>1. i \in 1..Len(e) /\ e[i] = c[i]
    BY DEF Joined
  <1>2. ASSUME NEW k \in 1..Len(e), k > i PROVE Encoder!Apart(e[i], e[k])
    <2>1. CASE k \in 1..Len(c) /\ e[k] = c[k]
      BY <1>1, <1>2, <2>1 DEF Intact
    <2>2. CASE \E j \in 1..Len(d) : k = Len(c) + j /\ e[k] = d[j]
      BY <1>1, <2>2 DEF Over
    <2> QED
      BY <2>1, <2>2, JoinedPlaces DEF FromEither
  <1> QED
    BY <1>1, <1>2 DEF Intact

LEMMA IntactBehind ==
    ASSUME NEW c, NEW d, NEW e, Joined(c, d, e), NEW j \in 1..Len(d), Intact(d, j)
    PROVE  Intact(e, Len(c) + j) /\ Len(c) + j \in 1..Len(e) /\ e[Len(c) + j] = d[j]
  <1>1. Len(c) + j \in 1..Len(e) /\ e[Len(c) + j] = d[j]
    BY DEF Joined
  <1>2. ASSUME NEW k \in 1..Len(e), k > Len(c) + j PROVE Encoder!Apart(e[Len(c) + j], e[k])
    <2>1. k - Len(c) \in 1..Len(d) /\ k = Len(c) + (k - Len(c)) /\ k - Len(c) > j
      BY <1>2 DEF Joined
    <2>2. e[k] = d[k - Len(c)]
      BY <2>1 DEF Joined
    <2> QED
      BY <1>1, <2>1, <2>2 DEF Intact
  <1> QED
    BY <1>1, <1>2 DEF Intact

LEMMA ReadsBefore ==
    ASSUME NEW c, NEW d, NEW e, Joined(c, d, e), Over(c, d),
           NEW t, Reads(c, t), ~(t.of \in NamesOf(d))
    PROVE  Reads(e, t)
  <1>1. PICK i \in 1..Len(c) : ReadsFrom(c, i, t)
    BY DEF Reads
  <1>2. Intact(e, i) /\ i \in 1..Len(e) /\ e[i] = c[i]
    BY <1>1, IntactBefore DEF ReadsFrom
  <1>3. ASSUME NEW k \in 1..Len(e), e[k].of = t.of, e[k].part = "value"
        PROVE  e[k].at = e[i].points + 10 /\ Intact(e, k)
    <2>1. k \in 1..Len(c) /\ e[k] = c[k]
      <3>1. FromEither(c, d, e, k)
        BY JoinedPlaces
      <3>2. ~(\E j \in 1..Len(d) : k = Len(c) + j /\ e[k] = d[j])
        BY <1>3 DEF NamesOf
      <3> QED
        BY ONLY <3>1, <3>2 DEF FromEither
    <2>2. c[k].at = c[i].points + 10 /\ Intact(c, k)
      BY <1>1, <1>3, <2>1 DEF ReadsFrom
    <2>3. Intact(e, k)
      BY <1>3, <2>1, <2>2, IntactBefore
    <2> QED
      BY <1>2, <2>1, <2>2, <2>3
  <1> QED
    BY <1>1, <1>2, <1>3 DEF Reads, ReadsFrom

LEMMA ReadsBehind ==
    ASSUME NEW c, NEW d, NEW e, Joined(c, d, e),
           NEW t, Reads(d, t), ~(t.of \in NamesOf(c))
    PROVE  Reads(e, t)
  <1>1. PICK i \in 1..Len(d) : ReadsFrom(d, i, t)
    BY DEF Reads
  <1>2. PICK m \in 1..Len(e) : m = Len(c) + i /\ Intact(e, m) /\ e[m] = d[i]
    BY <1>1, IntactBehind DEF ReadsFrom
  <1>3. ASSUME NEW k \in 1..Len(e), e[k].of = t.of, e[k].part = "value"
        PROVE  e[k].at = e[m].points + 10 /\ Intact(e, k)
    <2>1. PICK j \in 1..Len(d) : k = Len(c) + j /\ e[k] = d[j]
      <3>1. FromEither(c, d, e, k)
        BY JoinedPlaces
      <3>2. ~(k \in 1..Len(c) /\ e[k] = c[k])
        BY <1>3 DEF NamesOf
      <3> QED
        BY ONLY <3>1, <3>2 DEF FromEither
    <2>2. d[j].at = d[i].points + 10 /\ Intact(d, j)
      BY <1>1, <1>3, <2>1 DEF ReadsFrom
    <2>3. Intact(e, k)
      BY <2>1, <2>2, IntactBehind
    <2> QED
      BY <1>2, <2>1, <2>2, <2>3
  <1> QED
    BY <1>1, <1>2, <1>3 DEF Reads, ReadsFrom

LEMMA BeginsJoined ==
    ASSUME NEW c, NEW d, NEW e, Joined(c, d, e), Over(c, d), NEW a, Begins(c, a) \/ Begins(d, a)
    PROVE  Begins(e, a)
  <1>1. CASE Begins(c, a)
    <2>1. PICK i \in 1..Len(c) : c[i].part = "space" /\ c[i].at = a /\ Intact(c, i)
      BY <1>1 DEF Begins
    <2>2. Intact(e, i) /\ i \in 1..Len(e) /\ e[i] = c[i]
      BY <2>1, IntactBefore
    <2> QED
      BY <2>1, <2>2 DEF Begins
  <1>2. CASE Begins(d, a)
    <2>1. PICK j \in 1..Len(d) : d[j].part = "space" /\ d[j].at = a /\ Intact(d, j)
      BY <1>2 DEF Begins
    <2>2. PICK m \in 1..Len(e) : Intact(e, m) /\ e[m] = d[j]
      BY <2>1, IntactBehind
    <2> QED
      BY <2>1, <2>2 DEF Begins
  <1> QED
    BY <1>1, <1>2

-----------------------------------------------------------------------------
(* A directory: its entries are below its values, and neither is written    *)
(* twice.                                                                   *)

DirectoryType(N) ==
    [start : Nat, space : Nat, base : Nat, tags : Nat, data : Nat, cells : Seq(CellsOf(N))]

\* The place of a cell, in a directory with so many tags whose values end at "data".
Placed(start, space, tags, data, kind, at, len) ==
    /\ start <= at /\ at + len <= data
    /\ kind = "space" => at + len <= start + 2
    /\ kind = "entry" => at + len <= start + 2 + 12 * tags
    /\ kind = "value" => start + 6 + 12 * space <= at
Located(D, x) == Placed(D.start, D.space, D.tags, D.data, x.part, x.at, x.len)

Directory(D, N) ==
    /\ D \in DirectoryType(N)
    /\ D.start >= 10 /\ D.base = D.start - 10 /\ D.space >= 1 /\ D.tags <= D.space
    /\ D.data >= D.start + 6 + 12 * D.space
    /\ \A i \in 1..Len(D.cells) : Located(D, D.cells[i])
    /\ Begins(D.cells, D.start)

\* One more tag: its entry and its value are at free places.
FreePlaces(start, space, tags, data, next) ==
    /\ Placed(start, space, tags + 1, next, "entry", start + 2 + 12 * tags, 12)
    /\ \A len \in Nat : data + len <= next =>
           Placed(start, space, tags + 1, next, "value", data, len)
    /\ \A kind : \A at \in Nat, len \in Nat :
           Placed(start, space, tags, data, kind, at, len) =>
               Placed(start, space, tags + 1, next, kind, at, len)
    /\ \A kind \in {"space", "entry", "value"}, at \in Nat, len \in Nat :
           Placed(start, space, tags, data, kind, at, len) =>
               /\ at + len <= data
               /\ \/ at + len <= start + 2 + 12 * tags
                  \/ (start + 2 + 12 * tags) + 12 <= at

LEMMA PlacesFree ==
    ASSUME NEW start \in Nat, NEW space \in Nat, NEW tags \in Nat, NEW data \in Nat,
           NEW next \in Nat, data >= start + 6 + 12 * space, tags < space, data <= next
    PROVE  FreePlaces(start, space, tags, data, next)
  <1>1. Placed(start, space, tags + 1, next, "entry", start + 2 + 12 * tags, 12)
    BY DEF Placed
  <1>2. ASSUME NEW len \in Nat, data + len <= next
        PROVE  Placed(start, space, tags + 1, next, "value", data, len)
    BY <1>2 DEF Placed
  <1>3. ASSUME NEW kind, NEW at \in Nat, NEW len \in Nat,
               Placed(start, space, tags, data, kind, at, len)
        PROVE  Placed(start, space, tags + 1, next, kind, at, len)
    BY <1>3 DEF Placed
  <1>4. ASSUME NEW kind \in {"space", "entry", "value"}, NEW at \in Nat, NEW len \in Nat,
               Placed(start, space, tags, data, kind, at, len)
        PROVE  /\ at + len <= data
               /\ \/ at + len <= start + 2 + 12 * tags
                  \/ (start + 2 + 12 * tags) + 12 <= at
    BY <1>4 DEF Placed
  <1> QED
    BY <1>1, <1>2, <1>3, <1>4 DEF FreePlaces

LEMMA DirectoryFields ==
    ASSUME NEW N, NEW D, Directory(D, N)
    PROVE  /\ D.start \in Nat /\ D.space \in Nat /\ D.base \in Nat /\ D.tags \in Nat
           /\ D.data \in Nat /\ D.cells \in Seq(CellsOf(N)) /\ Len(D.cells) \in Nat
           /\ \A i \in 1..Len(D.cells) :
                  /\ D.cells[i].at \in Nat /\ D.cells[i].len \in Nat
                  /\ D.cells[i].part \in {"space", "link", "entry", "value"}
  <1>1. /\ D.start \in Nat /\ D.space \in Nat /\ D.base \in Nat /\ D.tags \in Nat
        /\ D.data \in Nat /\ D.cells \in Seq(CellsOf(N))
    BY DEF Directory, DirectoryType
  <1>2. Len(D.cells) \in Nat
    BY <1>1, LenProperties
  <1>3. ASSUME NEW i \in 1..Len(D.cells)
        PROVE  /\ D.cells[i].at \in Nat /\ D.cells[i].len \in Nat
               /\ D.cells[i].part \in {"space", "link", "entry", "value"}
    <2>1. D.cells[i] \in CellsOf(N)
      BY <1>1, ElementOfSeq
    <2> QED
      BY <2>1 DEF CellsOf
  <1> QED
    BY <1>1, <1>2, <1>3

\* ExifIfd.
LEMMA NewDirectory ==
    ASSUME NEW N, "ifd" \in N, NEW start \in Nat, start >= 10, NEW space \in Nat, space >= 1
    PROVE  /\ Directory(Encoder!ExifIfd(start, space), N)
           /\ Encoder!ExifIfd(start, space).start = start
           /\ Encoder!ExifIfd(start, space).space = space
           /\ Encoder!ExifIfd(start, space).tags = 0
           /\ Encoder!ExifIfd(start, space).data = start + 6 + 12 * space
           /\ NamesOf(Encoder!ExifIfd(start, space).cells) = {"ifd"}
  <1> DEFINE D == Encoder!ExifIfd(start, space)
             c == D.cells
  <1>1. /\ D.start = start /\ D.space = space /\ D.base = start - 10 /\ D.tags = 0
        /\ D.data = start + 2 + 12 * space + 4
    BY DEF Encoder!ExifIfd, Encoder!TiffHeader
  <1>2. /\ Len(c) = 2
        /\ c[1] = Encoder!Cell("ifd", "space", start, 2, 0)
        /\ c[2] = Encoder!Cell("ifd", "link", start + 12 * space, 4, 0)
    BY DEF Encoder!ExifIfd, Encoder!NoPointer
  <1>3. /\ c[1].of = "ifd" /\ c[1].part = "space" /\ c[1].at = start /\ c[1].len = 2
        /\ c[2].of = "ifd" /\ c[2].part = "link" /\ c[2].at = start + 12 * space /\ c[2].len = 4
    BY <1>2 DEF Encoder!Cell
  <1>4. D \in DirectoryType(N)
    <2>1. /\ Encoder!Cell("ifd", "space", start, 2, 0) \in CellsOf(N)
          /\ Encoder!Cell("ifd", "link", start + 12 * space, 4, 0) \in CellsOf(N)
      <3>1. start + 12 * space \in Nat
        OBVIOUS
      <3> HIDE DEF D, c
      <3> QED
        BY <3>1 DEF Encoder!Cell, CellsOf
    <2>2. /\ start - 10 \in Nat /\ start + 2 + 12 * space + 4 \in Nat
      OBVIOUS
    <2> HIDE DEF D, c
    <2> QED
      BY <2>1, <2>2 DEF D, DirectoryType, Encoder!ExifIfd, Encoder!TiffHeader, Encoder!NoPointer
  <1> HIDE DEF D, c
  <1>5. ASSUME NEW i \in 1..Len(c) PROVE i = 1 \/ i = 2
    BY <1>2
  <1>6. ASSUME NEW i \in 1..Len(c) PROVE Located(D, c[i])
    BY <1>1, <1>3, <1>5 DEF Located, Placed
  <1>7. Begins(c, start)
    <2>1. 1 \in 1..Len(c)
      BY <1>2
    <2>2. Intact(c, 1)
      BY <1>3, <1>5 DEF Intact, Encoder!Apart
    <2> QED
      BY <1>3, <2>1, <2>2 DEF Begins
  <1>8. NamesOf(c) = {"ifd"}
    <2>1. 1 \in 1..Len(c)
      BY <1>2
    <2> QED
      BY <1>3, <1>5, <2>1 DEF NamesOf
  <1>9. Directory(D, N)
    BY <1>1, <1>4, <1>6, <1>7 DEF Directory, c
  <1> QED
    BY <1>1, <1>8, <1>9 DEF D, c

\* The cells of one tag.
LEMMA EntriesRead ==
    ASSUME NEW N, NEW D, Directory(D, N), NEW t \in TagsIn(N), D.tags < D.space
    PROVE  /\ Encoder!Entries(D, t) \in Seq(CellsOf(N))
           /\ Reads(Encoder!Entries(D, t), t)
           /\ NamesOf(Encoder!Entries(D, t)) = {t.of}
           /\ \A j \in 1..Len(Encoder!Entries(D, t)) :
                  LET x == Encoder!Entries(D, t)[j]
                  IN  \/ x.part = "entry" /\ x.at = D.start + 2 + 12 * D.tags /\ x.len = 12
                      \/ x.part = "value" /\ x.at = D.data /\ x.len = t.len /\ t.len > 4
  <1> DEFINE at == D.start + 2 + 12 * D.tags
             points == D.base + (D.data - D.start)
             a == Encoder!Cell(t.of, "entry", at, 12, points)
             b == Encoder!Cell(t.of, "value", D.data, t.len, 0)
             o == Encoder!Cell(t.of, "entry", at, 12, t.points)
             d == Encoder!Entries(D, t)
  <1>1. /\ D.start \in Nat /\ D.space \in Nat /\ D.base \in Nat /\ D.tags \in Nat /\ D.data \in Nat
    BY DirectoryFields
  <1>2. t.of \in N /\ t.len \in 0..91 /\ t.points \in Nat
    BY DEF TagsIn
  <1>3. at \in Nat /\ points \in Nat /\ points + 10 = D.data /\ at + 12 <= D.data
    <2>1. /\ D.start >= 10 /\ D.base = D.start - 10 /\ D.tags <= D.space
          /\ D.data >= D.start + 6 + 12 * D.space
      BY DEF Directory
    <2> QED
      BY ONLY <1>1, <2>1, D.tags < D.space
  <1> HIDE DEF at, points
  <1>4. a \in CellsOf(N) /\ b \in CellsOf(N) /\ o \in CellsOf(N)
    BY <1>1, <1>2, <1>3 DEF Encoder!Cell, CellsOf
  <1>5. /\ a.of = t.of /\ a.part = "entry" /\ a.at = at /\ a.len = 12 /\ a.points = points
        /\ b.of = t.of /\ b.part = "value" /\ b.at = D.data /\ b.len = t.len
        /\ o.of = t.of /\ o.part = "entry" /\ o.at = at /\ o.len = 12 /\ o.points = t.points
    BY DEF Encoder!Cell
  <1>6. d = IF t.len > 4 THEN <<a, b>> ELSE <<o>>
    BY DEF Encoder!Entries, Encoder!NoPointer, at, points
  <1> HIDE DEF a, b, o, d
  <1>7. CASE t.len > 4
    <2>1. d \in Seq(CellsOf(N)) /\ Len(d) = 2 /\ d[1] = a /\ d[2] = b
      BY <1>4, <1>6, <1>7
    <2>2. 1 \in 1..Len(d) /\ 2 \in 1..Len(d) /\ \A j \in 1..Len(d) : j = 1 \/ j = 2
      BY <2>1
    <2>3. Encoder!Apart(a, b)
      BY <1>1, <1>2, <1>3, <1>5 DEF Encoder!Apart
    <2>4. Intact(d, 1) /\ Intact(d, 2)
      BY <2>1, <2>2, <2>3 DEF Intact
    <2>8. ASSUME NEW j \in 1..Len(d), d[j].of = t.of, d[j].part = "value"
          PROVE  d[j].at = d[1].points + 10 /\ Intact(d, j)
      <3>1. j = 2
        BY <1>5, <2>1, <2>2, <2>8
      <3>2. d[j].at = D.data /\ d[1].points = points
        BY <1>5, <2>1, <3>1
      <3> QED
        BY <1>3, <2>4, <3>1, <3>2
    <2>9. ~(t.len <= 4)
      BY <1>2, <1>7
    <2>5. ReadsFrom(d, 1, t)
      BY <1>5, <2>1, <2>2, <2>4, <2>8, <2>9 DEF ReadsFrom
    <2>6. NamesOf(d) = {t.of}
      BY <1>5, <2>1, <2>2 DEF NamesOf
    <2>7. \A j \in 1..Len(d) :
              \/ d[j].part = "entry" /\ d[j].at = at /\ d[j].len = 12
              \/ d[j].part = "value" /\ d[j].at = D.data /\ d[j].len = t.len /\ t.len > 4
      BY <1>5, <1>7, <2>1, <2>2
    <2> QED
      BY <2>1, <2>2, <2>5, <2>6, <2>7 DEF Reads, d, at
  <1>8. CASE ~(t.len > 4)
    <2>1. d \in Seq(CellsOf(N)) /\ Len(d) = 1 /\ d[1] = o
      BY <1>4, <1>6, <1>8
    <2>2. 1 \in 1..Len(d) /\ \A j \in 1..Len(d) : j = 1
      BY <2>1
    <2>4. Intact(d, 1)
      BY <2>1, <2>2 DEF Intact
    <2>5. ReadsFrom(d, 1, t)
      BY <1>5, <2>1, <2>2, <2>4 DEF ReadsFrom
    <2>6. NamesOf(d) = {t.of}
      BY <1>5, <2>1, <2>2 DEF NamesOf
    <2>7. \A j \in 1..Len(d) :
              \/ d[j].part = "entry" /\ d[j].at = at /\ d[j].len = 12
              \/ d[j].part = "value" /\ d[j].at = D.data /\ d[j].len = t.len /\ t.len > 4
      BY <1>5, <2>1, <2>2
    <2> QED
      BY <2>1, <2>2, <2>5, <2>6, <2>7 DEF Reads, d, at
  <1> QED
    BY <1>7, <1>8

\* push: the directory has one more tag, and what was found still is.
PushedTag(D, t, E, N) ==
    /\ Directory(E, N) /\ E.start = D.start /\ E.space = D.space /\ E.tags = D.tags + 1
    /\ D.data <= E.data /\ E.data <= D.data + 91 /\ (t.len <= 4 => E.data = D.data)
    /\ Reads(E.cells, t)
    /\ \A u : Reads(D.cells, u) /\ u.of # t.of => Reads(E.cells, u)
    /\ NamesOf(E.cells) = NamesOf(D.cells) \cup {t.of}

LEMMA PushKeeps ==
    ASSUME NEW N, NEW D, Directory(D, N), NEW t \in TagsIn(N), D.tags < D.space,
           ~(t.of \in NamesOf(D.cells))
    PROVE  PushedTag(D, t, Encoder!push(D, t), N)
  <1> DEFINE c == D.cells
             d == Encoder!Entries(D, t)
             e == c \o d
             data == Encoder!Beyond(D, t)
             E == Encoder!push(D, t)
  <1>1. /\ D.start \in Nat /\ D.space \in Nat /\ D.base \in Nat /\ D.tags \in Nat /\ D.data \in Nat
    BY DirectoryFields
  <1>0. /\ c \in Seq(CellsOf(N)) /\ Len(c) \in Nat
        /\ \A i \in 1..Len(c) :
               /\ c[i].at \in Nat /\ c[i].len \in Nat
               /\ c[i].part \in {"space", "link", "entry", "value"}
    BY DirectoryFields
  <1>2. t.len \in Nat /\ t.len <= 91
    BY DEF TagsIn
  <1>3. /\ D.start >= 10 /\ D.base = D.start - 10 /\ D.space >= 1
        /\ D.data >= D.start + 6 + 12 * D.space
    BY DEF Directory
  <1>20. (\A i \in 1..Len(c) : Located(D, c[i])) /\ Begins(c, D.start)
    BY DEF Directory
  <1>21. D.tags < D.space
    OBVIOUS
  <1>4. /\ d \in Seq(CellsOf(N)) /\ Reads(d, t) /\ NamesOf(d) = {t.of}
        /\ \A j \in 1..Len(d) :
               \/ d[j].part = "entry" /\ d[j].at = D.start + 2 + 12 * D.tags /\ d[j].len = 12
               \/ d[j].part = "value" /\ d[j].at = D.data /\ d[j].len = t.len /\ t.len > 4
    BY EntriesRead
  <1>5. /\ data \in Nat /\ D.data <= data /\ data <= D.data + 91
        /\ t.len <= 4 => data = D.data
        /\ t.len > 4 => data = D.data + t.len
    <2>1. data = IF t.len > 4 THEN D.data + t.len ELSE D.data
      BY DEF Encoder!Beyond
    <2> HIDE DEF data
    <2> QED
      BY ONLY <1>1, <1>2, <2>1
  <1>6. /\ E.start = D.start /\ E.space = D.space /\ E.base = D.base /\ E.tags = D.tags + 1
        /\ E.data = data /\ E.cells = e
    <2>1. ~(D.tags >= D.space)
      BY <1>1
    <2> QED
      BY <2>1 DEF Encoder!push
  <1>22. E = [start |-> D.start, space |-> D.space, base |-> D.base, tags |-> D.tags + 1,
              data |-> data, cells |-> e]
    <2>1. ~(D.tags >= D.space)
      BY <1>1
    <2> QED
      BY <2>1 DEF Encoder!push
  <1>7. Joined(c, d, e) /\ e \in Seq(CellsOf(N))
    BY <1>0, <1>4, JoinedConcat
  <1> HIDE DEF d, e, data, E
  <1>23. FreePlaces(D.start, D.space, D.tags, D.data, data)
    <2>1. data \in Nat /\ D.data >= D.start + 6 + 12 * D.space /\ D.tags < D.space /\ D.data <= data
      BY <1>3, <1>5, <1>21
    <2> QED
      BY ONLY <1>1, <2>1, PlacesFree
  <1>8. Over(c, d)
    <2> SUFFICES ASSUME NEW i \in 1..Len(c), NEW j \in 1..Len(d), c[i].part # "link"
                 PROVE  Encoder!Apart(c[i], d[j])
      BY DEF Over
    <2> DEFINE x == c[i]
               y == d[j]
    <2>1. /\ x.at \in Nat /\ x.len \in Nat /\ x.part \in {"space", "entry", "value"}
          /\ Located(D, x)
      BY <1>0, <1>20
    <2>2. \/ y.part = "entry" /\ y.at = D.start + 2 + 12 * D.tags /\ y.len = 12
          \/ y.part = "value" /\ y.at = D.data /\ y.len = t.len /\ t.len > 4
      BY <1>4
    <2> HIDE DEF x, y
    <2>3. /\ x.at + x.len <= D.data
          /\ \/ x.at + x.len <= D.start + 2 + 12 * D.tags
             \/ (D.start + 2 + 12 * D.tags) + 12 <= x.at
      BY <1>23, <2>1 DEF Located, FreePlaces
    <2> QED
      BY <2>2, <2>3 DEF Encoder!Apart, x, y
  <1>9. E \in DirectoryType(N)
    <2>1. D.tags + 1 \in Nat
      BY <1>1
    <2> QED
      BY <1>1, <1>5, <1>22, <1>7, <2>1 DEF DirectoryType
  <1>10. ASSUME NEW k \in 1..Len(e) PROVE Located(E, e[k])
    <2>1. ASSUME NEW i \in 1..Len(c) PROVE Located(E, c[i])
      <3>1. c[i].at \in Nat /\ c[i].len \in Nat /\ Located(D, c[i])
        BY <1>0, <1>20
      <3> QED
        <4>1. Placed(D.start, D.space, D.tags + 1, data, c[i].part, c[i].at, c[i].len)
          <5> DEFINE kind == c[i].part
                     at == c[i].at
                     len == c[i].len
          <5>1. Placed(D.start, D.space, D.tags, D.data, kind, at, len) /\ at \in Nat /\ len \in Nat
            BY <3>1 DEF Located
          <5> HIDE DEF kind, at, len
          <5>2. Placed(D.start, D.space, D.tags + 1, data, kind, at, len)
            BY <1>23, <5>1 DEF FreePlaces
          <5> QED
            BY <5>2 DEF kind, at, len
        <4> QED
          BY <1>6, <4>1 DEF Located
    <2>2. ASSUME NEW j \in 1..Len(d) PROVE Located(E, d[j])
      <3>1. CASE d[j].part = "entry" /\ d[j].at = D.start + 2 + 12 * D.tags /\ d[j].len = 12
        <4>1. Placed(D.start, D.space, D.tags + 1, data, "entry", D.start + 2 + 12 * D.tags, 12)
          BY <1>23 DEF FreePlaces
        <4> QED
          BY <1>6, <3>1, <4>1 DEF Located
      <3>2. CASE d[j].part = "value" /\ d[j].at = D.data /\ d[j].len = t.len /\ t.len > 4
        <4>1. D.data + t.len <= data
          BY ONLY <1>1, <1>2, <1>5, <3>2
        <4> QED
          <5>1. Placed(D.start, D.space, D.tags + 1, data, "value", D.data, t.len)
            BY <1>2, <1>23, <4>1 DEF FreePlaces
          <5> QED
            BY <1>6, <3>2, <5>1 DEF Located
      <3> QED
        BY <1>4, <3>1, <3>2
    <2>3. CASE k \in 1..Len(c) /\ e[k] = c[k]
      BY <2>1, <2>3
    <2>4. CASE \E j \in 1..Len(d) : k = Len(c) + j /\ e[k] = d[j]
      BY <2>2, <2>4
    <2>5. \/ k \in 1..Len(c) /\ e[k] = c[k]
          \/ \E j \in 1..Len(d) : k = Len(c) + j /\ e[k] = d[j]
      BY <1>7, JoinedPlaces DEF FromEither
    <2> QED
      BY <2>3, <2>4, <2>5
  <1>11. Begins(e, D.start)
    BY <1>20, <1>7, <1>8, BeginsJoined
  <1>12. Directory(E, N)
    <2>1. E.data >= E.start + 6 + 12 * E.space /\ E.tags <= E.space
      BY ONLY <1>1, <1>3, <1>5, <1>6, <1>21
    <2> QED
      BY <1>3, <1>6, <1>9, <1>10, <1>11, <2>1 DEF Directory
  <1>13. Reads(e, t)
    BY <1>4, <1>7, <1>8, ReadsBehind
  <1>14. ASSUME NEW u, Reads(c, u), u.of # t.of PROVE Reads(e, u)
    <2>1. ~(u.of \in NamesOf(d))
      BY <1>4, <1>14
    <2> QED
      BY <1>7, <1>8, <1>14, <2>1, ReadsBefore
  <1>15. NamesOf(e) = NamesOf(c) \cup {t.of}
    BY <1>4, <1>7, JoinedNames
  <1> QED
    BY <1>5, <1>6, <1>12, <1>13, <1>14, <1>15 DEF PushedTag, E

\* The directory after each of the first k tags.
Runs(D, tags, f, k) ==
    /\ f = [i \in 0..k |-> f[i]] /\ f[0] = D
    /\ \A i \in 1..k : f[i] = Encoder!push(f[i - 1], tags[i])

LEMMA RunsExist ==
    ASSUME NEW D, NEW tags, Len(tags) \in Nat
    PROVE  \E f : Runs(D, tags, f, Len(tags))
  <1> DEFINE n == Len(tags)
             S == {k \in 0..n : \E f : Runs(D, tags, f, k)}
  <1>0. n \in Nat /\ S \in SUBSET (0..n)
    OBVIOUS
  <1>1. 0 \in S
    <2> DEFINE f == [k \in 0..0 |-> D]
    <2>1. f = [i \in 0..0 |-> f[i]] /\ f[0] = D
      OBVIOUS
    <2>2. Runs(D, tags, f, 0)
      BY <2>1 DEF Runs
    <2> QED
      BY <2>2, <1>0
  <1>2. ASSUME NEW k \in 0..n, k < n, k \in S PROVE k + 1 \in S
    <2>1. PICK f : Runs(D, tags, f, k)
      BY <1>2
    <2> DEFINE next == Encoder!push(f[k], tags[k + 1])
               g == [i \in 0..(k + 1) |-> IF i = k + 1 THEN next ELSE f[i]]
    <2>2. k \in Nat /\ k + 1 \in 0..n
      BY <1>0, <1>2
    <2> HIDE DEF next
    <2>3. g = [i \in 0..(k + 1) |-> g[i]]
      OBVIOUS
    <2>4. g[0] = D
      <3>1. 0 \in 0..(k + 1) /\ 0 # k + 1
        BY <2>2
      <3>2. f[0] = D
        BY <2>1 DEF Runs
      <3> QED
        BY <3>1, <3>2
    <2>5. ASSUME NEW i \in 1..(k + 1) PROVE g[i] = Encoder!push(g[i - 1], tags[i])
      <3>1. i \in 0..(k + 1) /\ i - 1 \in 0..(k + 1) /\ i - 1 # k + 1
        BY <2>2
      <3>2. g[i - 1] = f[i - 1]
        BY <3>1
      <3>3. CASE i = k + 1
        <4>1. g[i] = next /\ i - 1 = k
          BY <2>2, <3>1, <3>3
        <4> QED
          BY <3>2, <3>3, <4>1 DEF next
      <3>4. CASE i # k + 1
        <4>1. g[i] = f[i] /\ i \in 1..k
          BY <2>2, <3>1, <3>4
        <4> QED
          BY <2>1, <3>2, <4>1 DEF Runs
      <3> QED
        BY <3>3, <3>4
    <2> HIDE DEF g
    <2>6. Runs(D, tags, g, k + 1)
      BY <2>3, <2>4, <2>5 DEF Runs
    <2> QED
      BY <2>2, <2>6
  <1>3. \A k \in 0..n : k \in S
    <2> HIDE DEF S
    <2> QED
      BY <1>0, <1>1, <1>2, Climb
  <1>4. n \in S
    BY <1>0, <1>3
  <1> QED
    BY <1>4

LEMMA FilledRuns ==
    ASSUME NEW D, NEW tags, Len(tags) \in Nat
    PROVE  \E f : /\ f[0] = D /\ Encoder!Filled(D, tags) = f[Len(tags)]
                  /\ \A i \in 1..Len(tags) : f[i] = Encoder!push(f[i - 1], tags[i])
  <1> DEFINE n == Len(tags)
             Body(f) == [i \in 0..n |->
                            IF i = 0 THEN D ELSE Encoder!push(f[i - 1], tags[i])]
             after == CHOOSE f : f = Body(f)
  <1>0. n \in Nat
    OBVIOUS
  <1>1. PICK f : Runs(D, tags, f, n)
    BY RunsExist
  <1>2. f = Body(f)
    <2>1. ASSUME NEW i \in 0..n PROVE f[i] = Body(f)[i]
      <3>1. i = 0 \/ i \in 1..n
        BY <1>0
      <3> QED
        BY <3>1, <1>1 DEF Runs
    <2>2. f = [i \in 0..n |-> f[i]]
      BY <1>1 DEF Runs
    <2> QED
      BY <2>1, <2>2
  <1>3. after = Body(after)
    BY <1>2
  <1>4. Encoder!Filled(D, tags) = after[n]
    BY DEF Encoder!Filled
  <1> HIDE DEF after
  <1>5. after[0] = D
    <2>1. 0 \in 0..n
      BY <1>0
    <2> QED
      BY <1>3, <2>1
  <1>6. ASSUME NEW i \in 1..n PROVE after[i] = Encoder!push(after[i - 1], tags[i])
    <2>1. i \in 0..n /\ i # 0
      BY <1>0
    <2> QED
      BY <1>3, <2>1
  <1> QED
    BY <1>4, <1>5, <1>6

\* Filled: all tags of a list are found.
FilledWith(D, tags, n, E, N) ==
    /\ Directory(E, N) /\ E.start = D.start /\ E.space = D.space /\ E.tags = D.tags + n
    /\ D.data <= E.data /\ E.data <= D.data + 91 * n
    /\ (\A i \in 1..Len(tags) : tags[i].len <= 4) => E.data = D.data
    /\ \A i \in 1..n : Reads(E.cells, tags[i])
    /\ \A u : Reads(D.cells, u) /\ (\A i \in 1..n : u.of # tags[i].of) => Reads(E.cells, u)
    /\ NamesOf(E.cells) = NamesOf(D.cells) \cup {tags[i].of : i \in 1..n}

LEMMA GrowsTwice ==
    ASSUME NEW a \in Nat, NEW b \in Nat, NEW c \in Nat, NEW most \in Nat,
           a <= b, b <= a + most, b <= c, c <= b + 91
    PROVE  a <= c /\ c <= a + (most + 91)
  OBVIOUS

LEMMA FilledKeeps ==
    ASSUME NEW N, NEW D, Directory(D, N), NEW tags \in Seq(TagsIn(N)),
           D.tags + Len(tags) <= D.space,
           \A i \in 1..Len(tags) : ~(tags[i].of \in NamesOf(D.cells)),
           \A i, j \in 1..Len(tags) : i < j => tags[i].of # tags[j].of
    PROVE  FilledWith(D, tags, Len(tags), Encoder!Filled(D, tags), N)
  <1> DEFINE n == Len(tags)
  <1>0. n \in Nat /\ \A i \in 1..n : tags[i] \in TagsIn(N)
    BY LenProperties, ElementOfSeq
  <1>1. PICK f : /\ f[0] = D /\ Encoder!Filled(D, tags) = f[n]
                 /\ \A i \in 1..n : f[i] = Encoder!push(f[i - 1], tags[i])
    BY <1>0, FilledRuns
  <1> DEFINE S == {k \in 0..n : FilledWith(D, tags, k, f[k], N)}
  <1>2. D.tags \in Nat /\ D.data \in Nat /\ D.space \in Nat
    BY DirectoryFields
  <1>3. 0 \in S
    <2> DEFINE z == 0
    <2>1. z \in Nat /\ z \in 0..n /\ D.tags = D.tags + z /\ D.data <= D.data + 91 * z /\ D.data <= D.data
          /\ \A i \in 1..z : FALSE
      BY <1>0, <1>2
    <2>2. f[z] = D
      BY <1>1
    <2> HIDE DEF z
    <2>3. FilledWith(D, tags, z, D, N)
      BY <2>1 DEF FilledWith
    <2>4. z \in S
      BY <2>1, <2>2, <2>3
    <2> QED
      BY <2>4 DEF z
  <1>4. ASSUME NEW k \in 0..n, k < n, k \in S PROVE k + 1 \in S
    <2> DEFINE m == k + 1
               E == f[k]
               G == f[m]
               t == tags[m]
    <2>1. m \in 1..n /\ m \in 0..n /\ m - 1 = k /\ k \in Nat /\ m = k + 1 /\ m \in Nat
      BY <1>0, <1>4
    <2>2. FilledWith(D, tags, k, E, N) /\ G = Encoder!push(E, t) /\ t \in TagsIn(N)
      BY <1>0, <1>1, <1>4, <2>1
    <2>3. \A i \in 1..k : i \in 1..n /\ i < m
      BY <1>0, <2>1
    <2>4. \A i \in 1..m : i \in 1..k \/ i = m
      BY <2>1
    <2>5. m \in 1..m /\ \A i \in 1..k : i \in 1..m
      BY <2>1
    <2> HIDE DEF m, E, G, t
    <2>6. Directory(E, N) /\ E.tags = D.tags + k
      BY <2>2 DEF FilledWith
    <2>7. E.tags < E.space
      BY <1>0, <1>2, <2>1, <2>2 DEF FilledWith
    <2>8. ~(t.of \in NamesOf(E.cells))
      BY <2>1, <2>2, <2>3 DEF FilledWith, t
    <2>9. PushedTag(E, t, G, N)
      BY <2>2, <2>6, <2>7, <2>8, PushKeeps
    <2>10. E.data \in Nat /\ G.data \in Nat /\ E.tags \in Nat
      BY <2>6, <2>9, DirectoryFields DEF PushedTag
    <2>11. G.tags = D.tags + m /\ D.data <= G.data /\ G.data <= D.data + 91 * m
      <3>1. /\ G.tags = E.tags + 1 /\ E.tags = D.tags + k /\ D.data <= E.data
            /\ E.data <= D.data + 91 * k /\ E.data <= G.data /\ G.data <= E.data + 91
        BY <2>2, <2>9 DEF FilledWith, PushedTag
      <3>2. 91 * m = 91 * k + 91 /\ 91 * k \in Nat
        BY ONLY <2>1
      <3>3. G.tags = D.tags + m
        BY ONLY <1>2, <2>1, <2>10, <3>1
      <3>4. D.data <= G.data /\ G.data <= D.data + 91 * m
        <4>2. E.data <= G.data /\ G.data <= E.data + 91
          BY <2>9 DEF PushedTag
        <4>3. D.data <= E.data /\ E.data <= D.data + 91 * k
          BY <2>2 DEF FilledWith
        <4> DEFINE most == 91 * k
        <4>4. most \in Nat /\ E.data <= D.data + most /\ 91 * m = most + 91
          BY <3>2, <4>3
        <4> HIDE DEF most
        <4>5. D.data <= G.data /\ G.data <= D.data + (most + 91)
          BY ONLY <1>2, <2>10, <4>2, <4>3, <4>4, GrowsTwice
        <4> QED
          BY <4>4, <4>5
      <3> QED
        BY <3>3, <3>4
    <2>12. (\A i \in 1..n : tags[i].len <= 4) => G.data = D.data
      BY <2>1, <2>2, <2>9 DEF FilledWith, PushedTag, t
    <2>13. ASSUME NEW i \in 1..m PROVE Reads(G.cells, tags[i])
      <3>1. CASE i = m
        BY <2>9, <3>1 DEF PushedTag, t
      <3>2. CASE i \in 1..k
        <4>1. Reads(E.cells, tags[i]) /\ tags[i].of # t.of
          BY <2>1, <2>2, <2>3, <3>2 DEF FilledWith, t
        <4> QED
          BY <2>9, <4>1 DEF PushedTag
      <3> QED
        BY <2>4, <3>1, <3>2
    <2>14. ASSUME NEW u, Reads(D.cells, u), \A i \in 1..m : u.of # tags[i].of
           PROVE  Reads(G.cells, u)
      <3>1. Reads(E.cells, u) /\ u.of # t.of
        BY <2>2, <2>5, <2>14 DEF FilledWith, t
      <3> QED
        BY <2>9, <3>1 DEF PushedTag
    <2>15. NamesOf(G.cells) = NamesOf(D.cells) \cup {tags[i].of : i \in 1..m}
      <3>1. {tags[i].of : i \in 1..m} = {tags[i].of : i \in 1..k} \cup {t.of}
        BY <2>4, <2>5 DEF t
      <3> QED
        BY <2>2, <2>9, <3>1 DEF FilledWith, PushedTag
    <2>16. Directory(G, N) /\ G.start = D.start /\ G.space = D.space
      BY <2>2, <2>9 DEF FilledWith, PushedTag
    <2>17. FilledWith(D, tags, m, G, N)
      BY <2>11, <2>12, <2>13, <2>14, <2>15, <2>16 DEF FilledWith
    <2> QED
      BY <2>1, <2>17 DEF m, G
  <1>5. \A k \in 0..n : k \in S
    <2>1. S \in SUBSET (0..n)
      OBVIOUS
    <2> HIDE DEF S
    <2> QED
      BY <1>0, <1>3, <1>4, <2>1, Climb
  <1>6. n \in 0..n
    BY <1>0
  <1> QED
    BY <1>1, <1>5, <1>6

-----------------------------------------------------------------------------
(* The tags of a picture.                                                   *)

SmallNames ==
    {"MAKE", "MODEL", "ORIENTATION", "SOFTWARE", "DATE_TIME", "YCBCR_POSITIONING"}
PointerNames == {"IMAGE_WIDTH", "IMAGE_HEIGHT", "EXIF_IFD_POINTER", "GPS_IFD_POINTER"}
PictureNames ==
    {"EXPOSURE_TIME", "FNUMBER", "EXPOSURE_PROGRAM", "ISO_SPEED_RATING", "EXIF_VERSION",
     "DATE_TIME_ORG", "DATE_TIME_DIGITIZE", "SHUTTER_SPEED", "APERTURE", "BRIGHTNESS",
     "EXPOSURE_BIAS", "MAX_APERTURE", "METERING_MODE", "FLASH", "FOCAL_LENGTH",
     "USER_COMMENT", "COLOR_SPACE", "PIXEL_X_DIMENSION", "PIXEL_Y_DIMENSION",
     "EXPOSURE_MODE", "WHITE_BALANCE", "SCENE_CAPTURE_TYPE"}
GpsNames ==
    {"GPS_VERSION_ID", "GPS_LATITUDE_REF", "GPS_LATITUDE", "GPS_LONGITUDE_REF",
     "GPS_LONGITUDE", "GPS_ALTITUDE_REF", "GPS_ALTITUDE", "GPS_TIMESTAMP", "GPS_DATESTAMP"}
AllNames == {"ifd"} \cup SmallNames \cup PointerNames \cup PictureNames \cup GpsNames

\* Tags with different names.
TagList(tags, n, S) ==
    /\ tags \in Seq(TagsIn(AllNames)) /\ Len(tags) = n
    /\ \A i, j \in 1..n : i < j => tags[i].of # tags[j].of
    /\ \A i \in 1..n : tags[i].of \in S
    /\ \A x \in S : \E i \in 1..n : tags[i].of = x

LEMMA TagFields ==
    ASSUME NEW name \in AllNames, NEW length \in 0..91
    PROVE  /\ Encoder!Tag(name, length) \in TagsIn(AllNames)
           /\ Encoder!Tag(name, length).of = name
           /\ Encoder!Tag(name, length).len = length
  BY DEF Encoder!Tag, Encoder!NoPointer, TagsIn

LEMMA PointerFields ==
    ASSUME NEW name \in AllNames, NEW address \in Nat, address >= 10
    PROVE  /\ Encoder!Pointer(name, address) \in TagsIn(AllNames)
           /\ Encoder!Pointer(name, address).of = name
           /\ Encoder!Pointer(name, address).len = 4
           /\ Encoder!Pointer(name, address).points = address - 10
  <1>1. address - 10 \in Nat /\ 4 \in 0..91
    OBVIOUS
  <1> QED
    BY <1>1 DEF Encoder!Pointer, Encoder!TiffHeader, TagsIn

LEMMA NamesApart ==
    /\ ~("ifd" \in SmallNames) /\ ~("ifd" \in PointerNames)
    /\ ~("ifd" \in PictureNames) /\ ~("ifd" \in GpsNames)
    /\ SmallNames \cap PointerNames = {} /\ SmallNames \cap PictureNames = {}
    /\ SmallNames \cap GpsNames = {} /\ PointerNames \cap PictureNames = {}
    /\ PointerNames \cap GpsNames = {} /\ PictureNames \cap GpsNames = {}
  <1>1. /\ ~("ifd" \in SmallNames) /\ ~("ifd" \in PointerNames)
        /\ ~("ifd" \in PictureNames) /\ ~("ifd" \in GpsNames)
    BY DEF SmallNames, PointerNames, PictureNames, GpsNames
  <1>2. SmallNames \cap PointerNames = {}
    BY DEF SmallNames, PointerNames
  <1>3. SmallNames \cap PictureNames = {}
    BY DEF SmallNames, PictureNames
  <1>4. SmallNames \cap GpsNames = {}
    BY DEF SmallNames, GpsNames
  <1>5. PointerNames \cap PictureNames = {}
    BY DEF PointerNames, PictureNames
  <1>6. PointerNames \cap GpsNames = {}
    BY DEF PointerNames, GpsNames
  <1>7. PictureNames \cap GpsNames = {}
    BY DEF PictureNames, GpsNames
  <1> QED
    BY <1>1, <1>2, <1>3, <1>4, <1>5, <1>6, <1>7

LEMMA SmallTags ==
    ASSUME NEW short \in 0..91, NEW long \in 0..91
    PROVE  TagList(Encoder!exifIfd0TagMap([maker |-> short, model |-> long, software |-> short]),
                   6, SmallNames)
  <1> DEFINE tags == Encoder!exifIfd0TagMap([maker |-> short, model |-> long, software |-> short])
             T == TagsIn(AllNames)
             t1 == Encoder!Tag("MAKE", short)
             t2 == Encoder!Tag("MODEL", long)
             t3 == Encoder!Tag("ORIENTATION", 2)
             t4 == Encoder!Tag("SOFTWARE", short)
             t5 == Encoder!Tag("DATE_TIME", 19)
             t6 == Encoder!Tag("YCBCR_POSITIONING", 2)
  <1>1. "MAKE" \in AllNames /\ "MODEL" \in AllNames /\ "ORIENTATION" \in AllNames /\
        "SOFTWARE" \in AllNames /\ "DATE_TIME" \in AllNames /\ "YCBCR_POSITIONING" \in AllNames
    BY DEF AllNames, SmallNames
  <1>2. 2 \in 0..91 /\ 19 \in 0..91
    OBVIOUS
  <1>11. t1 \in T /\ t1.of = "MAKE"
    BY <1>1, <1>2, TagFields
  <1>12. t2 \in T /\ t2.of = "MODEL"
    BY <1>1, <1>2, TagFields
  <1>13. t3 \in T /\ t3.of = "ORIENTATION"
    BY <1>1, <1>2, TagFields
  <1>14. t4 \in T /\ t4.of = "SOFTWARE"
    BY <1>1, <1>2, TagFields
  <1>15. t5 \in T /\ t5.of = "DATE_TIME"
    BY <1>1, <1>2, TagFields
  <1>16. t6 \in T /\ t6.of = "YCBCR_POSITIONING"
    BY <1>1, <1>2, TagFields
  <1>3. tags = <<t1, t2, t3, t4, t5, t6>>
    BY DEF Encoder!exifIfd0TagMap
  <1> HIDE DEF tags, T,
           t1, t2, t3, t4, t5, t6
  <1>4. tags \in Seq(T) /\ Len(tags) = 6
    BY <1>3, <1>11, <1>12, <1>13, <1>14, <1>15, <1>16
  <1>17. tags[1].of = "MAKE"
    BY <1>3, <1>11
  <1>18. tags[2].of = "MODEL"
    BY <1>3, <1>12
  <1>19. tags[3].of = "ORIENTATION"
    BY <1>3, <1>13
  <1>20. tags[4].of = "SOFTWARE"
    BY <1>3, <1>14
  <1>21. tags[5].of = "DATE_TIME"
    BY <1>3, <1>15
  <1>22. tags[6].of = "YCBCR_POSITIONING"
    BY <1>3, <1>16
  <1>5. \A i \in 1..6 :
            i = 1 \/ i = 2 \/ i = 3 \/ i = 4 \/ i = 5 \/ i = 6
    OBVIOUS
  <1>6. \A i, j \in 1..6 : i < j => tags[i].of # tags[j].of
    BY <1>5,
       <1>17, <1>18, <1>19, <1>20, <1>21, <1>22
  <1>7. \A i \in 1..6 : tags[i].of \in SmallNames
    BY <1>5,
       <1>17, <1>18, <1>19, <1>20, <1>21, <1>22
       DEF SmallNames
  <1>8. \A x \in SmallNames : \E i \in 1..6 : tags[i].of = x
    BY <1>17, <1>18, <1>19, <1>20, <1>21, <1>22
       DEF SmallNames
  <1> QED
    BY <1>4, <1>6, <1>7, <1>8 DEF TagList, tags, T

LEMMA PictureTags ==
    TagList(Encoder!exifIfdExifTagMap, 22, PictureNames)
  <1> DEFINE tags == Encoder!exifIfdExifTagMap
             T == TagsIn(AllNames)
             t1 == Encoder!Tag("EXPOSURE_TIME", 8)
             t2 == Encoder!Tag("FNUMBER", 8)
             t3 == Encoder!Tag("EXPOSURE_PROGRAM", 2)
             t4 == Encoder!Tag("ISO_SPEED_RATING", 2)
             t5 == Encoder!Tag("EXIF_VERSION", 4)
             t6 == Encoder!Tag("DATE_TIME_ORG", 19)
             t7 == Encoder!Tag("DATE_TIME_DIGITIZE", 19)
             t8 == Encoder!Tag("SHUTTER_SPEED", 8)
             t9 == Encoder!Tag("APERTURE", 8)
             t10 == Encoder!Tag("BRIGHTNESS", 8)
             t11 == Encoder!Tag("EXPOSURE_BIAS", 8)
             t12 == Encoder!Tag("MAX_APERTURE", 8)
             t13 == Encoder!Tag("METERING_MODE", 2)
             t14 == Encoder!Tag("FLASH", 2)
             t15 == Encoder!Tag("FOCAL_LENGTH", 8)
             t16 == Encoder!Tag("USER_COMMENT", 5)
             t17 == Encoder!Tag("COLOR_SPACE", 2)
             t18 == Encoder!Tag("PIXEL_X_DIMENSION", 4)
             t19 == Encoder!Tag("PIXEL_Y_DIMENSION", 4)
             t20 == Encoder!Tag("EXPOSURE_MODE", 2)
             t21 == Encoder!Tag("WHITE_BALANCE", 2)
             t22 == Encoder!Tag("SCENE_CAPTURE_TYPE", 2)
  <1>1. "EXPOSURE_TIME" \in AllNames /\ "FNUMBER" \in AllNames /\
        "EXPOSURE_PROGRAM" \in AllNames /\ "ISO_SPEED_RATING" \in AllNames /\
        "EXIF_VERSION" \in AllNames /\ "DATE_TIME_ORG" \in AllNames /\
        "DATE_TIME_DIGITIZE" \in AllNames /\ "SHUTTER_SPEED" \in AllNames /\
        "APERTURE" \in AllNames /\ "BRIGHTNESS" \in AllNames /\ "EXPOSURE_BIAS" \in AllNames /\
        "MAX_APERTURE" \in AllNames /\ "METERING_MODE" \in AllNames /\ "FLASH" \in AllNames /\
        "FOCAL_LENGTH" \in AllNames /\ "USER_COMMENT" \in AllNames /\
        "COLOR_SPACE" \in AllNames /\ "PIXEL_X_DIMENSION" \in AllNames /\
        "PIXEL_Y_DIMENSION" \in AllNames /\ "EXPOSURE_MODE" \in AllNames /\
        "WHITE_BALANCE" \in AllNames /\ "SCENE_CAPTURE_TYPE" \in AllNames
    BY DEF AllNames, PictureNames
  <1>2. 2 \in 0..91 /\ 4 \in 0..91 /\ 5 \in 0..91 /\ 8 \in 0..91 /\ 19 \in 0..91
    OBVIOUS
  <1>11. t1 \in T /\ t1.of = "EXPOSURE_TIME"
    BY <1>1, <1>2, TagFields
  <1>12. t2 \in T /\ t2.of = "FNUMBER"
    BY <1>1, <1>2, TagFields
  <1>13. t3 \in T /\ t3.of = "EXPOSURE_PROGRAM"
    BY <1>1, <1>2, TagFields
  <1>14. t4 \in T /\ t4.of = "ISO_SPEED_RATING"
    BY <1>1, <1>2, TagFields
  <1>15. t5 \in T /\ t5.of = "EXIF_VERSION"
    BY <1>1, <1>2, TagFields
  <1>16. t6 \in T /\ t6.of = "DATE_TIME_ORG"
    BY <1>1, <1>2, TagFields
  <1>17. t7 \in T /\ t7.of = "DATE_TIME_DIGITIZE"
    BY <1>1, <1>2, TagFields
  <1>18. t8 \in T /\ t8.of = "SHUTTER_SPEED"
    BY <1>1, <1>2, TagFields
  <1>19. t9 \in T /\ t9.of = "APERTURE"
    BY <1>1, <1>2, TagFields
  <1>20. t10 \in T /\ t10.of = "BRIGHTNESS"
    BY <1>1, <1>2, TagFields
  <1>21. t11 \in T /\ t11.of = "EXPOSURE_BIAS"
    BY <1>1, <1>2, TagFields
  <1>22. t12 \in T /\ t12.of = "MAX_APERTURE"
    BY <1>1, <1>2, TagFields
  <1>23. t13 \in T /\ t13.of = "METERING_MODE"
    BY <1>1, <1>2, TagFields
  <1>24. t14 \in T /\ t14.of = "FLASH"
    BY <1>1, <1>2, TagFields
  <1>25. t15 \in T /\ t15.of = "FOCAL_LENGTH"
    BY <1>1, <1>2, TagFields
  <1>26. t16 \in T /\ t16.of = "USER_COMMENT"
    BY <1>1, <1>2, TagFields
  <1>27. t17 \in T /\ t17.of = "COLOR_SPACE"
    BY <1>1, <1>2, TagFields
  <1>28. t18 \in T /\ t18.of = "PIXEL_X_DIMENSION"
    BY <1>1, <1>2, TagFields
  <1>29. t19 \in T /\ t19.of = "PIXEL_Y_DIMENSION"
    BY <1>1, <1>2, TagFields
  <1>30. t20 \in T /\ t20.of = "EXPOSURE_MODE"
    BY <1>1, <1>2, TagFields
  <1>31. t21 \in T /\ t21.of = "WHITE_BALANCE"
    BY <1>1, <1>2, TagFields
  <1>32. t22 \in T /\ t22.of = "SCENE_CAPTURE_TYPE"
    BY <1>1, <1>2, TagFields
  <1>3. tags = <<t1, t2, t3, t4, t5, t6, t7, t8, t9, t10, t11, t12, t13, t14, t15, t16, t17, t18,
               t19, t20, t21, t22>>
    BY DEF Encoder!exifIfdExifTagMap
  <1> HIDE DEF tags, T,
           t1, t2, t3, t4, t5, t6, t7, t8, t9, t10, t11, t12, t13, t14, t15, t16, t17, t18, t19,
           t20, t21, t22
  <1>4. tags \in Seq(T) /\ Len(tags) = 22
    BY <1>3, <1>11, <1>12, <1>13, <1>14, <1>15, <1>16, <1>17, <1>18, <1>19, <1>20, <1>21, <1>22, <1>23,
       <1>24, <1>25, <1>26, <1>27, <1>28, <1>29, <1>30, <1>31, <1>32
  <1>33. tags[1].of = "EXPOSURE_TIME"
    BY <1>3, <1>11
  <1>34. tags[2].of = "FNUMBER"
    BY <1>3, <1>12
  <1>35. tags[3].of = "EXPOSURE_PROGRAM"
    BY <1>3, <1>13
  <1>36. tags[4].of = "ISO_SPEED_RATING"
    BY <1>3, <1>14
  <1>37. tags[5].of = "EXIF_VERSION"
    BY <1>3, <1>15
  <1>38. tags[6].of = "DATE_TIME_ORG"
    BY <1>3, <1>16
  <1>39. tags[7].of = "DATE_TIME_DIGITIZE"
    BY <1>3, <1>17
  <1>40. tags[8].of = "SHUTTER_SPEED"
    BY <1>3, <1>18
  <1>41. tags[9].of = "APERTURE"
    BY <1>3, <1>19
  <1>42. tags[10].of = "BRIGHTNESS"
    BY <1>3, <1>20
  <1>43. tags[11].of = "EXPOSURE_BIAS"
    BY <1>3, <1>21
  <1>44. tags[12].of = "MAX_APERTURE"
    BY <1>3, <1>22
  <1>45. tags[13].of = "METERING_MODE"
    BY <1>3, <1>23
  <1>46. tags[14].of = "FLASH"
    BY <1>3, <1>24
  <1>47. tags[15].of = "FOCAL_LENGTH"
    BY <1>3, <1>25
  <1>48. tags[16].of = "USER_COMMENT"
    BY <1>3, <1>26
  <1>49. tags[17].of = "COLOR_SPACE"
    BY <1>3, <1>27
  <1>50. tags[18].of = "PIXEL_X_DIMENSION"
    BY <1>3, <1>28
  <1>51. tags[19].of = "PIXEL_Y_DIMENSION"
    BY <1>3, <1>29
  <1>52. tags[20].of = "EXPOSURE_MODE"
    BY <1>3, <1>30
  <1>53. tags[21].of = "WHITE_BALANCE"
    BY <1>3, <1>31
  <1>54. tags[22].of = "SCENE_CAPTURE_TYPE"
    BY <1>3, <1>32
  <1>5. \A i \in 1..22 :
            i = 1 \/ i = 2 \/ i = 3 \/ i = 4 \/ i = 5 \/ i = 6 \/ i = 7 \/ i = 8 \/ i = 9 \/
            i = 10 \/ i = 11 \/ i = 12 \/ i = 13 \/ i = 14 \/ i = 15 \/ i = 16 \/ i = 17 \/
            i = 18 \/ i = 19 \/ i = 20 \/ i = 21 \/ i = 22
    OBVIOUS
  <1>6. \A i, j \in 1..22 : i < j => tags[i].of # tags[j].of
    BY <1>5,
       <1>33, <1>34, <1>35, <1>36, <1>37, <1>38, <1>39, <1>40, <1>41, <1>42, <1>43, <1>44, <1>45,
       <1>46, <1>47, <1>48, <1>49, <1>50, <1>51, <1>52, <1>53, <1>54
  <1>7. \A i \in 1..22 : tags[i].of \in PictureNames
    BY <1>5,
       <1>33, <1>34, <1>35, <1>36, <1>37, <1>38, <1>39, <1>40, <1>41, <1>42, <1>43, <1>44, <1>45,
       <1>46, <1>47, <1>48, <1>49, <1>50, <1>51, <1>52, <1>53, <1>54
       DEF PictureNames
  <1>8. \A x \in PictureNames : \E i \in 1..22 : tags[i].of = x
    BY <1>33, <1>34, <1>35, <1>36, <1>37, <1>38, <1>39, <1>40, <1>41, <1>42, <1>43, <1>44, <1>45,
       <1>46, <1>47, <1>48, <1>49, <1>50, <1>51, <1>52, <1>53, <1>54
       DEF PictureNames
  <1> QED
    BY <1>4, <1>6, <1>7, <1>8 DEF TagList, tags, T

LEMMA GpsTags ==
    TagList(Encoder!gpsTags, 9, GpsNames)
  <1> DEFINE tags == Encoder!gpsTags
             T == TagsIn(AllNames)
             t1 == Encoder!Tag("GPS_VERSION_ID", 4)
             t2 == Encoder!Tag("GPS_LATITUDE_REF", 2)
             t3 == Encoder!Tag("GPS_LATITUDE", 24)
             t4 == Encoder!Tag("GPS_LONGITUDE_REF", 2)
             t5 == Encoder!Tag("GPS_LONGITUDE", 24)
             t6 == Encoder!Tag("GPS_ALTITUDE_REF", 1)
             t7 == Encoder!Tag("GPS_ALTITUDE", 8)
             t8 == Encoder!Tag("GPS_TIMESTAMP", 24)
             t9 == Encoder!Tag("GPS_DATESTAMP", 11)
  <1>1. "GPS_VERSION_ID" \in AllNames /\ "GPS_LATITUDE_REF" \in AllNames /\
        "GPS_LATITUDE" \in AllNames /\ "GPS_LONGITUDE_REF" \in AllNames /\
        "GPS_LONGITUDE" \in AllNames /\ "GPS_ALTITUDE_REF" \in AllNames /\
        "GPS_ALTITUDE" \in AllNames /\ "GPS_TIMESTAMP" \in AllNames /\
        "GPS_DATESTAMP" \in AllNames
    BY DEF AllNames, GpsNames
  <1>2. 1 \in 0..91 /\ 2 \in 0..91 /\ 4 \in 0..91 /\ 8 \in 0..91 /\ 11 \in 0..91 /\ 24 \in 0..91
    OBVIOUS
  <1>11. t1 \in T /\ t1.of = "GPS_VERSION_ID"
    BY <1>1, <1>2, TagFields
  <1>12. t2 \in T /\ t2.of = "GPS_LATITUDE_REF"
    BY <1>1, <1>2, TagFields
  <1>13. t3 \in T /\ t3.of = "GPS_LATITUDE"
    BY <1>1, <1>2, TagFields
  <1>14. t4 \in T /\ t4.of = "GPS_LONGITUDE_REF"
    BY <1>1, <1>2, TagFields
  <1>15. t5 \in T /\ t5.of = "GPS_LONGITUDE"
    BY <1>1, <1>2, TagFields
  <1>16. t6 \in T /\ t6.of = "GPS_ALTITUDE_REF"
    BY <1>1, <1>2, TagFields
  <1>17. t7 \in T /\ t7.of = "GPS_ALTITUDE"
    BY <1>1, <1>2, TagFields
  <1>18. t8 \in T /\ t8.of = "GPS_TIMESTAMP"
    BY <1>1, <1>2, TagFields
  <1>19. t9 \in T /\ t9.of = "GPS_DATESTAMP"
    BY <1>1, <1>2, TagFields
  <1>3. tags = <<t1, t2, t3, t4, t5, t6, t7, t8, t9>>
    BY DEF Encoder!gpsTags
  <1> HIDE DEF tags, T,
           t1, t2, t3, t4, t5, t6, t7, t8, t9
  <1>4. tags \in Seq(T) /\ Len(tags) = 9
    BY <1>3, <1>11, <1>12, <1>13, <1>14, <1>15, <1>16, <1>17, <1>18, <1>19
  <1>20. tags[1].of = "GPS_VERSION_ID"
    BY <1>3, <1>11
  <1>21. tags[2].of = "GPS_LATITUDE_REF"
    BY <1>3, <1>12
  <1>22. tags[3].of = "GPS_LATITUDE"
    BY <1>3, <1>13
  <1>23. tags[4].of = "GPS_LONGITUDE_REF"
    BY <1>3, <1>14
  <1>24. tags[5].of = "GPS_LONGITUDE"
    BY <1>3, <1>15
  <1>25. tags[6].of = "GPS_ALTITUDE_REF"
    BY <1>3, <1>16
  <1>26. tags[7].of = "GPS_ALTITUDE"
    BY <1>3, <1>17
  <1>27. tags[8].of = "GPS_TIMESTAMP"
    BY <1>3, <1>18
  <1>28. tags[9].of = "GPS_DATESTAMP"
    BY <1>3, <1>19
  <1>5. \A i \in 1..9 :
            i = 1 \/ i = 2 \/ i = 3 \/ i = 4 \/ i = 5 \/ i = 6 \/ i = 7 \/ i = 8 \/ i = 9
    OBVIOUS
  <1>6. \A i, j \in 1..9 : i < j => tags[i].of # tags[j].of
    BY <1>5,
       <1>20, <1>21, <1>22, <1>23, <1>24, <1>25, <1>26, <1>27, <1>28
  <1>7. \A i \in 1..9 : tags[i].of \in GpsNames
    BY <1>5,
       <1>20, <1>21, <1>22, <1>23, <1>24, <1>25, <1>26, <1>27, <1>28
       DEF GpsNames
  <1>8. \A x \in GpsNames : \E i \in 1..9 : tags[i].of = x
    BY <1>20, <1>21, <1>22, <1>23, <1>24, <1>25, <1>26, <1>27, <1>28
       DEF GpsNames
  <1> QED
    BY <1>4, <1>6, <1>7, <1>8 DEF TagList, tags, T

\* The tags that are pushed once the directory of the picture is there.
PointerTags(gps, a, b) ==
    <<Encoder!Tag("IMAGE_WIDTH", 4), Encoder!Tag("IMAGE_HEIGHT", 4),
      Encoder!Pointer("EXIF_IFD_POINTER", a)>>
    \o IF gps THEN <<Encoder!Pointer("GPS_IFD_POINTER", b)>> ELSE <<>>
PointersOf(gps) ==
    {"IMAGE_WIDTH", "IMAGE_HEIGHT", "EXIF_IFD_POINTER"}
        \cup IF gps THEN {"GPS_IFD_POINTER"} ELSE {}

\* Tags that fit in their entries, and where two of them point to.
PointerList(tags, gps, a, b) ==
    /\ TagList(tags, IF gps THEN 4 ELSE 3, PointersOf(gps))
    /\ \A i \in 1..Len(tags) : tags[i].len <= 4
    /\ tags[3].of = "EXIF_IFD_POINTER" /\ tags[3].points = a - 10
    /\ gps => tags[4].of = "GPS_IFD_POINTER" /\ tags[4].points = b - 10

LEMMA PointersList ==
    ASSUME NEW gps \in BOOLEAN, NEW a \in Nat, a >= 10, NEW b \in Nat, b >= 10
    PROVE  PointerList(PointerTags(gps, a, b), gps, a, b)
  <1> DEFINE T == TagsIn(AllNames)
             w == Encoder!Tag("IMAGE_WIDTH", 4)
             h == Encoder!Tag("IMAGE_HEIGHT", 4)
             p == Encoder!Pointer("EXIF_IFD_POINTER", a)
             q == Encoder!Pointer("GPS_IFD_POINTER", b)
             first == <<w, h, p>>
             last == <<q>>
             tags == PointerTags(gps, a, b)
  <1>1. /\ "IMAGE_WIDTH" \in AllNames /\ "IMAGE_HEIGHT" \in AllNames
        /\ "EXIF_IFD_POINTER" \in AllNames /\ "GPS_IFD_POINTER" \in AllNames
    BY DEF AllNames, PointerNames
  <1>2. 4 \in 0..91
    OBVIOUS
  <1>3. w \in T /\ w.of = "IMAGE_WIDTH" /\ w.len = 4
    BY <1>1, <1>2, TagFields
  <1>4. h \in T /\ h.of = "IMAGE_HEIGHT" /\ h.len = 4
    BY <1>1, <1>2, TagFields
  <1>5. p \in T /\ p.of = "EXIF_IFD_POINTER" /\ p.len = 4 /\ p.points = a - 10
    BY <1>1, PointerFields
  <1>6. q \in T /\ q.of = "GPS_IFD_POINTER" /\ q.len = 4 /\ q.points = b - 10
    BY <1>1, PointerFields
  <1>7. tags = first \o IF gps THEN last ELSE <<>>
    BY DEF PointerTags
  <1> HIDE DEF w, h, p, q, tags, T
  <1>8. first \in Seq(T) /\ Len(first) = 3 /\ first[1] = w /\ first[2] = h /\ first[3] = p
    BY <1>3, <1>4, <1>5
  <1>9. last \in Seq(T) /\ Len(last) = 1 /\ last[1] = q
    BY <1>6
  <1> HIDE DEF first, last
  <1>10. CASE gps = TRUE
    <2>1. tags = first \o last
      BY <1>7, <1>10
    <2>2. /\ tags \in Seq(T) /\ Len(tags) = Len(first) + 1
          /\ tags[Len(first) + 1] = last[1]
          /\ \A k \in 1..Len(first) : tags[k] = first[k]
      <3>1. first \in Seq(T) /\ last \in Seq(T) /\ Len(last) = 1
        BY <1>8, <1>9
      <3> QED
        BY ONLY <2>1, <3>1, AppendOne
    <2>3. /\ Len(tags) = 4 /\ tags[1] = w /\ tags[2] = h /\ tags[3] = p /\ tags[4] = q
      BY <1>8, <1>9, <2>2
    <2>4. \A i \in 1..4 : i = 1 \/ i = 2 \/ i = 3 \/ i = 4
      OBVIOUS
    <2>5. \A i, j \in 1..4 : i < j => tags[i].of # tags[j].of
      BY <1>3, <1>4, <1>5, <1>6, <2>3, <2>4
    <2>6. \A i \in 1..4 : tags[i].of \in PointersOf(gps) /\ tags[i].len <= 4
      BY <1>3, <1>4, <1>5, <1>6, <1>10, <2>3, <2>4 DEF PointersOf
    <2>7. \A x \in PointersOf(gps) : \E i \in 1..4 : tags[i].of = x
      BY <1>3, <1>4, <1>5, <1>6, <1>10, <2>3 DEF PointersOf
    <2>8. TagList(tags, 4, PointersOf(gps))
      BY <2>2, <2>3, <2>5, <2>6, <2>7 DEF TagList, T
    <2> QED
      BY <1>5, <1>6, <1>10, <2>3, <2>6, <2>8 DEF PointerList, tags
  <1>11. CASE gps = FALSE
    <2>1. tags = first \o <<>>
      BY <1>7, <1>11
    <2>2. tags = first
      BY <1>8, <2>1, ConcatEmptySeq
    <2>3. /\ tags \in Seq(T) /\ Len(tags) = 3 /\ tags[1] = w /\ tags[2] = h /\ tags[3] = p
      BY <1>8, <2>2
    <2>4. \A i \in 1..3 : i = 1 \/ i = 2 \/ i = 3
      OBVIOUS
    <2>5. \A i, j \in 1..3 : i < j => tags[i].of # tags[j].of
      BY <1>3, <1>4, <1>5, <2>3, <2>4
    <2>6. \A i \in 1..3 : tags[i].of \in PointersOf(gps) /\ tags[i].len <= 4
      BY <1>3, <1>4, <1>5, <1>11, <2>3, <2>4 DEF PointersOf
    <2>7. \A x \in PointersOf(gps) : \E i \in 1..3 : tags[i].of = x
      BY <1>3, <1>4, <1>5, <1>11, <2>3 DEF PointersOf
    <2>8. TagList(tags, 3, PointersOf(gps))
      BY <2>2, <2>3, <2>5, <2>6, <2>7 DEF TagList, T
    <2> QED
      BY <1>5, <1>11, <2>3, <2>6, <2>8 DEF PointerList, tags
  <1> QED
    BY <1>10, <1>11

-----------------------------------------------------------------------------
(* The directories behind each other.                                       *)

\* Cells from lo to hi.
Between(c, lo, hi) ==
    /\ c \in Seq(CellsOf(AllNames))
    /\ \A i \in 1..Len(c) :
           c[i].at \in Nat /\ c[i].len \in Nat /\ lo <= c[i].at /\ c[i].at + c[i].len <= hi

LEMMA DirectoryBetween ==
    ASSUME NEW D, Directory(D, AllNames) PROVE Between(D.cells, D.start, D.data)
  BY DirectoryFields DEF Directory, Located, Placed, Between

LEMMA BehindEachOther ==
    ASSUME NEW lo \in Nat, NEW mid \in Nat, NEW hi \in Nat, lo <= mid, mid <= hi,
           NEW c, Between(c, lo, mid), NEW d, Between(d, mid, hi)
    PROVE  Between(c \o d, lo, hi) /\ Over(c, d) /\ Joined(c, d, c \o d)
  <1> DEFINE e == c \o d
  <1>1. /\ c \in Seq(CellsOf(AllNames)) /\ d \in Seq(CellsOf(AllNames))
        /\ \A i \in 1..Len(c) :
               c[i].at \in Nat /\ c[i].len \in Nat /\ lo <= c[i].at /\ c[i].at + c[i].len <= mid
        /\ \A i \in 1..Len(d) :
               d[i].at \in Nat /\ d[i].len \in Nat /\ mid <= d[i].at /\ d[i].at + d[i].len <= hi
    BY DEF Between
  <1>2. Joined(c, d, e) /\ e \in Seq(CellsOf(AllNames))
    BY <1>1, JoinedConcat
  <1> HIDE DEF e
  <1>3. ASSUME NEW i \in 1..Len(c), NEW j \in 1..Len(d) PROVE Encoder!Apart(c[i], d[j])
    <2> DEFINE x == c[i].at
               y == c[i].len
               z == d[j].at
    <2>1. x \in Nat /\ y \in Nat /\ z \in Nat /\ x + y <= mid /\ mid <= z
      BY <1>1
    <2> HIDE DEF x, y, z
    <2>2. x + y <= z
      BY <2>1
    <2> QED
      BY <2>2 DEF Encoder!Apart, x, y, z
  <1>4. ASSUME NEW k \in 1..Len(e)
        PROVE e[k].at \in Nat /\ e[k].len \in Nat /\ lo <= e[k].at /\ e[k].at + e[k].len <= hi
    <2>1. CASE k \in 1..Len(c) /\ e[k] = c[k]
      <3> DEFINE x == e[k].at
                 y == e[k].len
      <3>1. x \in Nat /\ y \in Nat /\ lo <= x /\ x + y <= mid
        BY <1>1, <2>1
      <3> HIDE DEF x, y
      <3>2. x + y <= hi
        BY <3>1
      <3> QED
        BY <3>1, <3>2 DEF x, y
    <2>2. CASE \E j \in 1..Len(d) : k = Len(c) + j /\ e[k] = d[j]
      <3> DEFINE x == e[k].at
                 y == e[k].len
      <3>1. x \in Nat /\ y \in Nat /\ mid <= x /\ x + y <= hi
        BY <1>1, <2>2
      <3> HIDE DEF x, y
      <3>2. lo <= x
        BY <3>1
      <3> QED
        BY <3>1, <3>2 DEF x, y
    <2>3. \/ k \in 1..Len(c) /\ e[k] = c[k]
          \/ \E j \in 1..Len(d) : k = Len(c) + j /\ e[k] = d[j]
      <3>1. FromEither(c, d, e, k)
        BY <1>2, JoinedPlaces
      <3> QED
        BY ONLY <3>1 DEF FromEither
    <2> QED
      BY <2>1, <2>2, <2>3
  <1>5. Between(e, lo, hi)
    BY <1>2, <1>4 DEF Between
  <1> QED
    BY <1>2, <1>3, <1>5 DEF Over, e

\* What a reader of the picture finds is what the proof kept.
LEMMA FoundRead ==
    ASSUME NEW exif, exif.cells \in Seq(CellsOf(AllNames)), NEW t, Reads(exif.cells, t),
           t.of \in {"EXIF_IFD_POINTER", "GPS_IFD_POINTER"} =>
               t.len <= 4 /\ Begins(exif.cells, t.points + 10)
    PROVE  Encoder!Found(exif, t.of)
  <1> DEFINE c == exif.cells
  <1>1. DOMAIN c = 1..Len(c)
    OBVIOUS
  <1> HIDE DEF c
  <1>2. \A i \in 1..Len(c) : Intact(c, i) => Encoder!Untouched(c, i)
    BY <1>1 DEF Intact, Encoder!Untouched
  <1>3. PICK i \in 1..Len(c) : ReadsFrom(c, i, t)
    BY DEF Reads, c
  <1>4. /\ c[i].of = t.of /\ c[i].part = "entry" /\ Encoder!Untouched(c, i)
        /\ t.len <= 4 => c[i].points = t.points
        /\ \A j \in 1..Len(c) : c[j].of = t.of /\ c[j].part = "value" =>
               c[j].at = c[i].points + 10 /\ Encoder!Untouched(c, j)
    BY <1>2, <1>3 DEF ReadsFrom
  <1>5. t.of \in {"EXIF_IFD_POINTER", "GPS_IFD_POINTER"} => Encoder!IfdAt(c, c[i].points)
    <2> SUFFICES ASSUME t.of \in {"EXIF_IFD_POINTER", "GPS_IFD_POINTER"}
                 PROVE  Encoder!IfdAt(c, c[i].points)
      OBVIOUS
    <2>1. c[i].points = t.points /\ Begins(c, t.points + 10)
      BY <1>4 DEF c
    <2>2. PICK k \in 1..Len(c) : c[k].part = "space" /\ c[k].at = t.points + 10 /\ Intact(c, k)
      BY <2>1 DEF Begins
    <2>3. Encoder!TiffHeader = 10
      BY DEF Encoder!TiffHeader
    <2> QED
      BY <1>1, <1>2, <2>1, <2>2, <2>3 DEF Encoder!IfdAt
  <1>6. Encoder!TiffHeader = 10
    BY DEF Encoder!TiffHeader
  <1> QED
    BY <1>1, <1>4, <1>5, <1>6 DEF Encoder!Found, c

\* A directory with the tags of a list.
DirectoryOf(F, tags, start, space, n, S) ==
    /\ Directory(F, AllNames) /\ F.start = start /\ F.space = space /\ F.tags = n
    /\ F.data \in Nat /\ start + 6 + 12 * space <= F.data
    /\ F.data <= start + 6 + 12 * space + 91 * n
    /\ \A i \in 1..n : Reads(F.cells, tags[i])
    /\ NamesOf(F.cells) = {"ifd"} \cup S
    /\ Begins(F.cells, start)

LEMMA NewDirectoryOf ==
    ASSUME NEW start \in Nat, start >= 10, NEW space \in Nat, space >= 1, NEW n \in Nat, n <= space,
           NEW S, ~("ifd" \in S), NEW tags, TagList(tags, n, S)
    PROVE  DirectoryOf(Encoder!Filled(Encoder!ExifIfd(start, space), tags), tags, start, space, n, S)
  <1> DEFINE D == Encoder!ExifIfd(start, space)
             F == Encoder!Filled(D, tags)
  <1>1. /\ Directory(D, AllNames) /\ D.start = start /\ D.space = space /\ D.tags = 0
        /\ D.data = start + 6 + 12 * space /\ NamesOf(D.cells) = {"ifd"}
    <2>1. "ifd" \in AllNames
      BY DEF AllNames
    <2> QED
      BY <2>1, NewDirectory
  <1> HIDE DEF D
  <1>2. /\ tags \in Seq(TagsIn(AllNames)) /\ Len(tags) = n
        /\ \A i, j \in 1..n : i < j => tags[i].of # tags[j].of
        /\ \A i \in 1..n : tags[i].of \in S
        /\ \A x \in S : \E i \in 1..n : tags[i].of = x
    BY DEF TagList
  <1>3. FilledWith(D, tags, n, F, AllNames)
    <2>1. D.tags + Len(tags) <= D.space
      BY <1>1, <1>2
    <2>2. \A i \in 1..Len(tags) : ~(tags[i].of \in NamesOf(D.cells))
      BY <1>1, <1>2
    <2>3. \A i, j \in 1..Len(tags) : i < j => tags[i].of # tags[j].of
      BY <1>2
    <2>4. FilledWith(D, tags, Len(tags), F, AllNames)
      BY <1>1, <1>2, <2>1, <2>2, <2>3, FilledKeeps
    <2> QED
      BY <1>2, <2>4
  <1> HIDE DEF F
  <1>4. /\ Directory(F, AllNames) /\ F.start = start /\ F.space = space /\ F.tags = n
        /\ \A i \in 1..n : Reads(F.cells, tags[i])
        /\ NamesOf(F.cells) = {"ifd"} \cup {tags[i].of : i \in 1..n}
    <2>1. D.tags + n = n
      BY <1>1
    <2> QED
      BY <1>1, <1>3, <2>1 DEF FilledWith
  <1>5. /\ F.data \in Nat /\ start + 6 + 12 * space <= F.data
        /\ F.data <= start + 6 + 12 * space + 91 * n
    <2>1. F.data \in Nat
      BY <1>4, DirectoryFields
    <2> QED
      BY <1>1, <1>3, <2>1 DEF FilledWith
  <1>6. {tags[i].of : i \in 1..n} = S
    BY <1>2
  <1>7. Begins(F.cells, start)
    BY <1>4 DEF Directory
  <1> QED
    BY <1>4, <1>5, <1>6, <1>7 DEF DirectoryOf, F, D

\* Tags of these names are found.
Has(c, X) == \A x \in X : \E t : t.of = x /\ Reads(c, t)

LEMMA HasBefore ==
    ASSUME NEW c, NEW d, NEW e, Joined(c, d, e), Over(c, d),
           NEW X, Has(c, X), X \cap NamesOf(d) = {}
    PROVE  Has(e, X)
  <1> SUFFICES ASSUME NEW x \in X PROVE \E t : t.of = x /\ Reads(e, t)
    BY DEF Has
  <1>1. PICK t : t.of = x /\ Reads(c, t)
    BY DEF Has
  <1>2. ~(t.of \in NamesOf(d))
    BY <1>1
  <1> QED
    BY <1>1, <1>2, ReadsBefore

LEMMA HasBehind ==
    ASSUME NEW c, NEW d, NEW e, Joined(c, d, e), NEW X, Has(d, X), X \cap NamesOf(c) = {}
    PROVE  Has(e, X)
  <1> SUFFICES ASSUME NEW x \in X PROVE \E t : t.of = x /\ Reads(e, t)
    BY DEF Has
  <1>1. PICK t : t.of = x /\ Reads(d, t)
    BY DEF Has
  <1>2. ~(t.of \in NamesOf(c))
    BY <1>1
  <1> QED
    BY <1>1, <1>2, ReadsBehind

\* What buildExif writes without a thumbnail.
PictureExif(gps, size, cells) ==
    /\ cells \in Seq(CellsOf(AllNames))
    /\ size \in Nat /\ size <= 32768
    /\ \A i \in 1..Len(cells) : cells[i].at + cells[i].len <= size
    /\ \A x \in SmallNames \cup PictureNames \cup PointersOf(gps) \cup (IF gps THEN GpsNames ELSE {}) :
           \E t : /\ t.of = x /\ Reads(cells, t)
                  /\ x \in {"EXIF_IFD_POINTER", "GPS_IFD_POINTER"} =>
                         t.len <= 4 /\ Begins(cells, t.points + 10)

LEMMA PictureExifRight ==
    ASSUME NEW gps \in BOOLEAN, NEW short \in 0..91, NEW long \in 0..91
    PROVE  LET exif == Encoder!buildExif(gps, FALSE,
                           [maker |-> short, model |-> long, software |-> short])
           IN  PictureExif(gps, exif.size, exif.cells)
  <1> DEFINE length == [maker |-> short, model |-> long, software |-> short]
             space == Encoder!Ifd0Space(gps)
             A == Encoder!exifIfd0TagMap(length)
             B == Encoder!exifIfdExifTagMap
             C == Encoder!gpsTags
             Small == Encoder!Filled(Encoder!ExifIfd(Encoder!FirstIfd, space), A)
             Picture == Encoder!Filled(Encoder!ExifIfd(Small.data, 22), B)
             Gps == Encoder!Filled(Encoder!ExifIfd(Picture.data, 9), C)
             P == PointerTags(gps, Small.data, Picture.data)
             Ifd0 == Encoder!Filled(Small, P)
             exif == Encoder!buildExif(gps, FALSE, length)
  <1>1. space \in Nat /\ space = IF gps THEN 10 ELSE 9
    BY DEF Encoder!Ifd0Space
  <1>2. exif = [size |-> IF gps THEN Gps.data ELSE Picture.data,
                cells |-> Ifd0.cells \o Picture.cells \o IF gps THEN Gps.cells ELSE <<>>]
    BY DEF Encoder!buildExif, PointerTags
  <1>3. TagList(A, 6, SmallNames) /\ TagList(B, 22, PictureNames) /\ TagList(C, 9, GpsNames)
    BY SmallTags, PictureTags, GpsTags
  <1> HIDE DEF space, A, B, C, length, exif
  <1>4. DirectoryOf(Small, A, 18, space, 6, SmallNames)
    <2>1. Encoder!FirstIfd = 18
      BY DEF Encoder!FirstIfd, Encoder!TiffHeader
    <2>2. space >= 1 /\ 6 <= space /\ 18 \in Nat /\ 18 >= 10 /\ 6 \in Nat
      BY <1>1
    <2> QED
      BY <1>1, <1>3, <2>1, <2>2, NamesApart, NewDirectoryOf
  <1>5. Small.data \in Nat /\ Small.data >= 18 /\ Small.data <= 18 + 6 + 120 + 546
    BY <1>1, <1>4 DEF DirectoryOf
  <1> HIDE DEF Small
  <1>6. DirectoryOf(Picture, B, Small.data, 22, 22, PictureNames)
    BY <1>3, <1>5, NamesApart, NewDirectoryOf
  <1>7. Picture.data \in Nat /\ Picture.data >= Small.data /\ Picture.data <= 3000
    BY <1>5, <1>6 DEF DirectoryOf
  <1> HIDE DEF Picture
  <1>8. DirectoryOf(Gps, C, Picture.data, 9, 9, GpsNames)
    <2>1. Picture.data >= 10
      BY <1>5, <1>7
    <2> QED
      BY <1>3, <1>7, <2>1, NamesApart, NewDirectoryOf
  <1>9. Gps.data \in Nat /\ Gps.data >= Picture.data /\ Gps.data <= 5000
    BY <1>7, <1>8 DEF DirectoryOf
  <1> HIDE DEF Gps
  <1> DEFINE m == IF gps THEN 4 ELSE 3
             c == Ifd0.cells
             p == P[3]
             q == P[4]
  <1>10. PointerList(P, gps, Small.data, Picture.data)
    <2>1. Small.data >= 10 /\ Picture.data >= 10
      BY <1>5, <1>7
    <2> QED
      BY <1>5, <1>7, <2>1, PointersList
  <1> HIDE DEF P
  <1>11. /\ P \in Seq(TagsIn(AllNames)) /\ Len(P) = m /\ m \in Nat
         /\ \A i, j \in 1..m : i < j => P[i].of # P[j].of
         /\ \A i \in 1..m : P[i].of \in PointersOf(gps) /\ P[i].len <= 4
         /\ \A x \in PointersOf(gps) : \E i \in 1..m : P[i].of = x
    BY <1>10 DEF PointerList, TagList
  <1>12. PointersOf(gps) \subseteq PointerNames
    BY DEF PointersOf, PointerNames
  <1>13. FilledWith(Small, P, m, Ifd0, AllNames)
    <2>1. Directory(Small, AllNames) /\ Small.tags + Len(P) <= Small.space
      BY <1>1, <1>4, <1>11 DEF DirectoryOf
    <2>2. \A i \in 1..Len(P) : ~(P[i].of \in NamesOf(Small.cells))
      BY <1>4, <1>11, <1>12, NamesApart DEF DirectoryOf
    <2>3. \A i, j \in 1..Len(P) : i < j => P[i].of # P[j].of
      BY <1>11
    <2>4. FilledWith(Small, P, Len(P), Ifd0, AllNames)
      BY <1>11, <2>1, <2>2, <2>3, FilledKeeps
    <2> QED
      BY <1>11, <2>4
  <1> HIDE DEF Ifd0
  <1>14. Directory(Ifd0, AllNames) /\ Ifd0.start = 18 /\ Ifd0.data = Small.data
    <2>1. \A i \in 1..Len(P) : P[i].len <= 4
      BY <1>11
    <2> QED
      BY <1>4, <1>13, <2>1 DEF FilledWith, DirectoryOf
  <1>15. \A i \in 1..m : Reads(c, P[i])
    BY <1>13 DEF FilledWith
  <1>16. NamesOf(c) \subseteq {"ifd"} \cup SmallNames \cup PointerNames
    <2>1. NamesOf(c) = NamesOf(Small.cells) \cup {P[i].of : i \in 1..m}
      BY <1>13 DEF FilledWith
    <2>2. NamesOf(Small.cells) = {"ifd"} \cup SmallNames
      BY <1>4 DEF DirectoryOf
    <2> QED
      BY <1>11, <1>12, <2>1, <2>2
  <1>17. Has(c, SmallNames)
    <2> SUFFICES ASSUME NEW x \in SmallNames PROVE \E t : t.of = x /\ Reads(c, t)
      BY DEF Has
    <2>1. PICK i \in 1..6 : A[i].of = x
      BY <1>3 DEF TagList
    <2>2. Reads(Small.cells, A[i])
      BY <1>4 DEF DirectoryOf
    <2>3. \A k \in 1..m : A[i].of # P[k].of
      BY <1>11, <1>12, <2>1, NamesApart
    <2>4. Reads(c, A[i])
      BY <1>13, <2>2, <2>3 DEF FilledWith
    <2> QED
      BY <2>1, <2>4
  <1>18. Has(c, PointersOf(gps))
    BY <1>11, <1>15 DEF Has
  <1>19. /\ Reads(c, p) /\ p.of = "EXIF_IFD_POINTER" /\ p.len <= 4 /\ p.points + 10 = Small.data
         /\ gps => /\ Reads(c, q) /\ q.of = "GPS_IFD_POINTER" /\ q.len <= 4
                   /\ q.points + 10 = Picture.data
    <2>1. 3 \in 1..m /\ (gps => 4 \in 1..m)
      OBVIOUS
    <2>2. p.points = Small.data - 10 /\ (gps => q.points = Picture.data - 10)
      BY <1>10 DEF PointerList
    <2>3. p.points + 10 = Small.data /\ (gps => q.points + 10 = Picture.data)
      BY <1>5, <1>7, <2>2
    <2>4. p.of = "EXIF_IFD_POINTER" /\ (gps => q.of = "GPS_IFD_POINTER")
      BY <1>10 DEF PointerList
    <2>5. Reads(c, p) /\ p.len <= 4 /\ (gps => Reads(c, q) /\ q.len <= 4)
      BY <1>11, <1>15, <2>1
    <2> QED
      BY <2>3, <2>4, <2>5
  <1> DEFINE d == Picture.cells
             e == c \o d
  <1>20. Has(d, PictureNames) /\ NamesOf(d) = {"ifd"} \cup PictureNames /\ Begins(d, Small.data)
    BY <1>3, <1>6, ZenonT(60) DEF Has, TagList, DirectoryOf
  <1>21. Between(e, 18, Picture.data) /\ Over(c, d) /\ Joined(c, d, e)
    <2>1. Between(c, 18, Small.data)
      BY <1>14, DirectoryBetween
    <2>2. Between(d, Small.data, Picture.data)
      BY <1>6, DirectoryBetween DEF DirectoryOf
    <2>3. 18 \in Nat /\ 18 <= Small.data /\ Small.data <= Picture.data
      BY <1>5, <1>7
    <2> QED
      BY <1>5, <1>7, <2>1, <2>2, <2>3, BehindEachOther
  <1> HIDE DEF c, d, e, p, q, m
  <1>22. /\ SmallNames \cap NamesOf(d) = {} /\ PointersOf(gps) \cap NamesOf(d) = {}
         /\ PictureNames \cap NamesOf(c) = {}
    BY <1>12, <1>16, <1>20, NamesApart
  <1>23. /\ Has(e, SmallNames) /\ Has(e, PointersOf(gps)) /\ Has(e, PictureNames)
         /\ Begins(e, Small.data)
         /\ NamesOf(e) \subseteq {"ifd"} \cup SmallNames \cup PointerNames \cup PictureNames
    <2>1. Has(e, SmallNames) /\ Has(e, PointersOf(gps))
      BY <1>17, <1>18, <1>21, <1>22, HasBefore
    <2>2. Has(e, PictureNames)
      BY <1>20, <1>21, <1>22, HasBehind
    <2>3. Begins(e, Small.data)
      BY <1>20, <1>21, BeginsJoined
    <2>4. NamesOf(e) = NamesOf(c) \cup NamesOf(d)
      BY <1>21, JoinedNames
    <2> QED
      BY <1>16, <1>20, <2>1, <2>2, <2>3, <2>4
  <1>24. Reads(e, p) /\ (gps => Reads(e, q))
    <2>1. ~(p.of \in NamesOf(d)) /\ (gps => ~(q.of \in NamesOf(d)))
      <3>1. "EXIF_IFD_POINTER" \in PointersOf(gps) /\ (gps => "GPS_IFD_POINTER" \in PointersOf(gps))
        BY DEF PointersOf
      <3> QED
        BY <1>19, <1>22, <3>1
    <2> QED
      BY <1>19, <1>21, <2>1, ReadsBefore
  <1> DEFINE f == e \o IF gps THEN Gps.cells ELSE <<>>
             size == IF gps THEN Gps.data ELSE Picture.data
  <1>25. exif.cells = f /\ exif.size = size
    BY <1>2 DEF e, c, d
  <1>26. /\ Has(f, SmallNames) /\ Has(f, PointersOf(gps)) /\ Has(f, PictureNames)
         /\ gps => Has(f, GpsNames)
         /\ Reads(f, p) /\ Begins(f, Small.data)
         /\ gps => Reads(f, q) /\ Begins(f, Picture.data)
         /\ Between(f, 18, size)
    <2>1. CASE gps = TRUE
      <3> DEFINE g == Gps.cells
      <3>1. f = e \o g /\ size = Gps.data
        BY <2>1
      <3>2. Has(g, GpsNames) /\ NamesOf(g) = {"ifd"} \cup GpsNames /\ Begins(g, Picture.data)
        BY <1>3, <1>8, ZenonT(60) DEF Has, TagList, DirectoryOf
      <3>3. Between(g, Picture.data, Gps.data)
        BY <1>8, DirectoryBetween DEF DirectoryOf
      <3>4. 18 \in Nat /\ 18 <= Picture.data
        BY <1>5, <1>7
      <3> HIDE DEF f, g, size
      <3>5. Between(f, 18, Gps.data) /\ Over(e, g) /\ Joined(e, g, f)
        BY <1>7, <1>9, <1>21, <3>1, <3>3, <3>4, BehindEachOther
      <3>6. /\ SmallNames \cap NamesOf(g) = {} /\ PointersOf(gps) \cap NamesOf(g) = {}
            /\ PictureNames \cap NamesOf(g) = {} /\ GpsNames \cap NamesOf(e) = {}
        BY <1>12, <1>23, <3>2, NamesApart
      <3>7. Has(f, SmallNames) /\ Has(f, PointersOf(gps)) /\ Has(f, PictureNames)
        BY <1>23, <3>5, <3>6, HasBefore
      <3>8. Has(f, GpsNames)
        BY <3>2, <3>5, <3>6, HasBehind
      <3>9. Begins(f, Small.data) /\ Begins(f, Picture.data)
        BY <1>23, <3>2, <3>5, BeginsJoined
      <3>10. Reads(f, p) /\ Reads(f, q)
        <4>1. p.of \in PointersOf(gps) /\ q.of \in PointersOf(gps)
          BY <1>19, <2>1 DEF PointersOf
        <4>2. ~(p.of \in NamesOf(g)) /\ ~(q.of \in NamesOf(g))
          BY <3>6, <4>1
        <4> QED
          BY <1>24, <2>1, <3>5, <4>2, ReadsBefore
      <3> QED
        BY <3>1, <3>5, <3>7, <3>8, <3>9, <3>10
    <2>2. CASE gps = FALSE
      <3>1. f = e /\ size = Picture.data
        <4>1. f = e \o <<>> /\ size = Picture.data
          BY <2>2
        <4>2. e \in Seq(CellsOf(AllNames))
          BY <1>21 DEF Between
        <4> HIDE DEF f
        <4> QED
          BY <4>1, <4>2, ConcatEmptySeq
      <3> QED
        BY <1>21, <1>23, <1>24, <2>2, <3>1
    <2> QED
      BY <2>1, <2>2
  <1>27. size \in Nat /\ size <= 32768
    BY <1>7, <1>9
  <1> HIDE DEF f, size
  <1>28. ASSUME NEW x \in SmallNames \cup PictureNames \cup PointersOf(gps)
                          \cup (IF gps THEN GpsNames ELSE {})
         PROVE  \E t : /\ t.of = x /\ Reads(f, t)
                       /\ x \in {"EXIF_IFD_POINTER", "GPS_IFD_POINTER"} =>
                              t.len <= 4 /\ Begins(f, t.points + 10)
    <2>1. CASE x = "EXIF_IFD_POINTER"
      BY <1>19, <1>26, <2>1
    <2>2. CASE x = "GPS_IFD_POINTER"
      <3>1. gps = TRUE
        <4>1. "GPS_IFD_POINTER" \in PointerNames
          BY DEF PointerNames
        <4>2. gps = FALSE => ~("GPS_IFD_POINTER" \in PointersOf(gps))
          BY DEF PointersOf
        <4> QED
          BY <1>28, <2>2, <4>1, <4>2, NamesApart
      <3> QED
        BY <1>19, <1>26, <2>2, <3>1
    <2>3. CASE ~(x \in {"EXIF_IFD_POINTER", "GPS_IFD_POINTER"})
      BY <1>26, <2>3 DEF Has
    <2> QED
      BY <2>1, <2>2, <2>3
  <1>29. f \in Seq(CellsOf(AllNames)) /\ \A i \in 1..Len(f) : f[i].at + f[i].len <= size
    BY <1>26 DEF Between
  <1>30. PictureExif(gps, size, f)
    BY <1>27, <1>28, <1>29 DEF PictureExif
  <1> QED
    BY <1>25, <1>30 DEF exif, length

-----------------------------------------------------------------------------
(* The encoder's inductive invariant, and what follows from it.             *)

LEMMA EncoderStart == Encoder!Init => Encoder!IInv
  <1>1. Encoder!Init => Encoder!Built
    BY DEF Encoder!Init, Encoder!Built
  <1> QED
    BY <1>1, ControlStart DEF Control, Encoder!IInv

LEMMA BuiltStep ==
    ASSUME Control, Encoder!Built, [Encoder!Next]_(Encoder!jpegVars) PROVE Encoder!Built'
  <1>1. CASE Encoder!Build
    BY <1>1 DEF Encoder!Build, Encoder!Built
  <1>2. CASE UNCHANGED <<s2, s6, s12, s13>>
    BY <1>2 DEF Encoder!Built
  <1>3. CASE s12' # "picture"
    BY <1>3 DEF Encoder!Built
  <1>4. Encoder!ThumbnailEnds => s12' # "picture"
    <2> SUFFICES ASSUME Encoder!ThumbnailEnds PROVE s12' # "picture"
      OBVIOUS
    <2>1. FlatWith(s4, s8, s9)
      BY FlatHere
    <2>2. s4[1] = "end" /\ s12' = s12
      BY DEF Encoder!ThumbnailEnds
    <2> QED
      BY <2>1, <2>2 DEF FlatWith, Flat
  <1>5. Encoder!openDevice => s12' # "picture"
    BY DEF Encoder!openDevice
  <1>6. Encoder!PictureEnds => UNCHANGED <<s2, s6, s12, s13>> \/ s12' # "picture"
    BY DEF Encoder!PictureEnds
  <1>7. ASSUME \/ Encoder!setThumbnail \/ Encoder!cleanup \/ Encoder!Convert \/ Encoder!Poll
               \/ UNCHANGED Encoder!jpegVars
        PROVE  UNCHANGED <<s2, s6, s12, s13>>
    BY <1>7 DEF Encoder!setThumbnail, Encoder!cleanup, Encoder!Convert, Encoder!Poll,
       Encoder!jpegVars, Encoder!driverVars
  <1>8. ASSUME NEW d \in Encoder!Dir,
               \/ Encoder!Format(d) \/ Encoder!ReqBufs(d) \/ Encoder!Queue(d) \/ Encoder!On(d)
               \/ Encoder!Dequeue(d) \/ Encoder!StreamOff(d) \/ Encoder!Free(d)
        PROVE  UNCHANGED <<s2, s6, s12, s13>>
    BY <1>8 DEF Encoder!Format, Encoder!ReqBufs, Encoder!Queue, Encoder!On, Encoder!Dequeue,
       Encoder!StreamOff, Encoder!Free
  <1> QED
    BY <1>1, <1>2, <1>3, <1>4, <1>5, <1>6, <1>7, <1>8 DEF Encoder!Next

LEMMA EncoderStep ==
    ASSUME Encoder!IInv, [Encoder!Next]_(Encoder!jpegVars) PROVE Encoder!IInv'
  <1>1. Control /\ Encoder!Built
    BY DEF Control, Encoder!IInv
  <1>2. Control' /\ Encoder!Built'
    BY <1>1, ControlStep, BuiltStep
  <1> QED
    BY <1>2 DEF Control, Encoder!IInv

LEMMA TagsAreNames ==
    ASSUME NEW gps \in BOOLEAN
    PROVE  Encoder!TagsOf(gps) \subseteq SmallNames \cup PictureNames \cup PointersOf(gps)
                                             \cup (IF gps THEN GpsNames ELSE {})
  <1> DEFINE B == Encoder!exifIfdExifTagMap
             C == Encoder!gpsTags
  <1>1. TagList(B, 22, PictureNames) /\ TagList(C, 9, GpsNames)
    BY PictureTags, GpsTags
  <1>2. /\ {B[i].of : i \in DOMAIN B} \subseteq PictureNames
        /\ {C[i].of : i \in DOMAIN C} \subseteq GpsNames
    <2> HIDE DEF B, C
    <2>1. /\ B \in Seq(TagsIn(AllNames)) /\ Len(B) = 22
          /\ C \in Seq(TagsIn(AllNames)) /\ Len(C) = 9
      BY <1>1 DEF TagList
    <2>2. DOMAIN B = 1..22 /\ DOMAIN C = 1..9
      BY ONLY <2>1
    <2>3. (\A i \in 1..22 : B[i].of \in PictureNames) /\ (\A i \in 1..9 : C[i].of \in GpsNames)
      BY <1>1 DEF TagList
    <2> QED
      BY ONLY <2>2, <2>3
  <1>3. {"MAKE", "MODEL", "ORIENTATION", "SOFTWARE", "DATE_TIME", "YCBCR_POSITIONING",
         "IMAGE_WIDTH", "IMAGE_HEIGHT", "EXIF_IFD_POINTER"}
            \subseteq SmallNames \cup PointersOf(gps)
    BY DEF SmallNames, PointersOf
  <1>4. gps = TRUE => {"GPS_IFD_POINTER"} \subseteq PointersOf(gps)
    BY DEF PointersOf
  <1> HIDE DEF B, C
  <1>5. CASE gps = TRUE
    BY <1>2, <1>3, <1>4, <1>5, ZenonT(60) DEF Encoder!TagsOf, B, C
  <1>6. CASE gps = FALSE
    BY <1>2, <1>3, <1>6 DEF Encoder!TagsOf, B, C
  <1> QED
    BY <1>5, <1>6

LEMMA EncoderRight ==
    ASSUME Encoder!IInv, Encoder!LengthsAssumption
    PROVE  Encoder!PictureIsInput /\ Encoder!DequeueEnds /\ Encoder!TagsIntact
  <1>1. Control /\ Encoder!Types /\ FlatNow /\ FlatWith(s4, s8, s9) /\ Encoder!Built
    BY FlatIsControl, FlatHere DEF Control, Encoder!IInv
  <1>2. Encoder!PictureIsInput
    <2>1. s12 = "picture" => s10 = <<"input", "input">>
      BY <1>1 DEF FlatNow, Flat
    <2>2. s4 = Encoder!Idle => s4[1] = "idle"
      BY DEF Encoder!Idle
    <2>3. s4[1] = "idle" =>
              /\ s3 = FALSE
              /\ s9["output"].on = FALSE /\ s8["output"] = "empty"
              /\ s9["capture"].on = FALSE /\ s8["capture"] = "empty"
      BY <1>1 DEF FlatNow, Flat
    <2> QED
      BY <2>1, <2>2, <2>3 DEF Encoder!PictureIsInput, Encoder!Dir
  <1>3. Encoder!DequeueEnds
    <2> SUFFICES ASSUME NEW d \in Encoder!Dir, s4 = <<"dequeue", d>>, s11 # "not yet"
                 PROVE  s9[d].buffer = "done" \/ Encoder!Convertible
      BY DEF Encoder!DequeueEnds
    <2>1. Encoder!Waits
      BY DEF Encoder!IInv
    <2>2. s4[1] = "dequeue" /\ s4[2] = d
      OBVIOUS
    <2> QED
      BY <2>1, <2>2 DEF Encoder!Waits, Encoder!Dir
  <1>4. Encoder!TagsIntact
    <2> SUFFICES ASSUME s12 = "picture", ~s6
                 PROVE  /\ \A tag \in Encoder!TagsOf(s2) : Encoder!Found(s13, tag)
                        /\ Encoder!Whole(s13) /\ s13.size <= Encoder!EXIF_SIZE
      BY DEF Encoder!TagsIntact
    <2>0. s6 = FALSE
      BY <1>1 DEF Encoder!Types
    <2>1. PICK long \in Lengths, short \in Lengths :
              s13 = Encoder!buildExif(s2, FALSE,
                        [maker |-> short, model |-> long, software |-> short])
      BY <1>1, <2>0 DEF Encoder!Built
    <2>2. long \in 0..91 /\ short \in 0..91 /\ s2 \in BOOLEAN
      BY <1>1 DEF Encoder!LengthsAssumption, Encoder!Types
    <2>3. PictureExif(s2, s13.size, s13.cells)
      BY <2>1, <2>2, PictureExifRight
    <2>4. /\ s13.cells \in Seq(CellsOf(AllNames)) /\ s13.size <= 32768
          /\ \A i \in 1..Len(s13.cells) : s13.cells[i].at + s13.cells[i].len <= s13.size
      BY <2>3 DEF PictureExif
    <2>5. Encoder!Whole(s13)
      BY <2>4 DEF Encoder!Whole
    <2>6. s13.size <= Encoder!EXIF_SIZE
      <3>1. Encoder!EXIF_SIZE = 32768
        BY DEF Encoder!EXIF_SIZE
      <3> QED
        BY <2>4, <3>1
    <2>7. ASSUME NEW tag \in Encoder!TagsOf(s2) PROVE Encoder!Found(s13, tag)
      <3>1. tag \in SmallNames \cup PictureNames \cup PointersOf(s2) \cup (IF s2 THEN GpsNames ELSE {})
        BY <2>2, TagsAreNames
      <3>2. PICK t : /\ t.of = tag /\ Reads(s13.cells, t)
                     /\ tag \in {"EXIF_IFD_POINTER", "GPS_IFD_POINTER"} =>
                            t.len <= 4 /\ Begins(s13.cells, t.points + 10)
        BY <2>3, <3>1 DEF PictureExif
      <3> QED
        BY <2>4, <3>2, FoundRead
    <2> QED
      BY <2>5, <2>6, <2>7
  <1> QED
    BY <1>2, <1>3, <1>4

-----------------------------------------------------------------------------
(* The specification of all parts, where one of the three is the part.     *)

\* No request frees the buffers the driver writes to, and preview and recording
\* stream one at a time, whatever fails.
THEOREM CaptureNodeIsKept == PartsSpec => []NodeKept
  <1> DEFINE Inv == part = "CaptureNode" => NodeInv
  <1>1. PartsInit => Inv
    BY NodeStart DEF PartsInit
  <1>2. Inv /\ [PartsNext /\ part' = part]_partsVars => Inv'
    <2> SUFFICES ASSUME Inv, [PartsNext /\ part' = part]_partsVars, part = "CaptureNode"
                 PROVE  NodeInv'
      BY DEF partsVars
    <2>1. [Node!Next]_(Node!nodeVars)
      BY DEF PartsNext, Others, partsVars, state, Node!nodeVars, Node!halVars,
         Node!driverVars, Node!api
    <2> QED
      BY <2>1, NodeStep
  <1>3. Inv => NodeKept
    BY NodeSafe DEF NodeKept
  <1> QED
    BY <1>1, <1>2, <1>3, PTL DEF PartsSpec

\* What run() reports as the picture was encoded from the input, every wait for a
\* buffer ends, and every tag of a picture without a thumbnail is found, with its
\* value, where the EXIF data say it is and within their size.
THEOREM PictureIsRight == PartsSpec => []PictureRight
  <1> DEFINE Inv == part = "JpegEncoder" => Encoder!IInv
  <1>1. PartsInit => Inv
    BY EncoderStart DEF PartsInit
  <1>2. Inv /\ [PartsNext /\ part' = part]_partsVars => Inv'
    <2> SUFFICES ASSUME Inv, [PartsNext /\ part' = part]_partsVars, part = "JpegEncoder"
                 PROVE  Encoder!IInv'
      BY DEF partsVars
    <2>1. [Encoder!Next]_(Encoder!jpegVars)
      BY DEF PartsNext, Others, partsVars, state, Encoder!jpegVars, Encoder!driverVars
    <2> QED
      BY <2>1, EncoderStep
  <1>3. Inv => PictureRight
    BY EncoderRight, PartsAssumption DEF PartsAssumption, PictureRight
  <1> QED
    BY <1>1, <1>2, <1>3, PTL DEF PartsSpec

\* Whatever a client asks for and the sensor refuses of it: sizes, thumbnail, picture
\* format, quality, rotation and effect are in mParameters as in the device, the
\* controls of a scene have its values, in "auto" but for exposure and white balance,
\* and a call without an error leaves the parameters as it was asked for, but for what
\* Ignored names.  Of exposure, white balance and preview format it is not said that
\* they reach the device.
THEOREM SettingsAreKept == PartsSpec => []SettingsKept
  <1> DEFINE Inv == part = "CameraSettings" => Settings!IInv
  <1>1. PartsInit => Inv
    BY SettingsStart DEF PartsInit
  <1>2. Inv /\ [PartsNext /\ part' = part]_partsVars => Inv'
    <2> SUFFICES ASSUME Inv, [PartsNext /\ part' = part]_partsVars, part = "CameraSettings"
                 PROVE  Settings!IInv'
      BY DEF partsVars
    <2>1. [Settings!Next]_(Settings!settingVars)
      BY DEF PartsNext, Others, partsVars, state, Settings!settingVars
    <2> QED
      BY <2>1, SettingsStep
  <1>3. Inv => SettingsKept
    BY DEF SettingsKept, Settings!IInv
  <1> QED
    BY <1>1, <1>2, <1>3, PTL DEF PartsSpec
=============================================================================
