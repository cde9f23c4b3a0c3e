----------------------------- MODULE JpegEncoder ----------------------------
(***************************************************************************)
(* libcamera/V4L2JpegEncoder.cpp: the encoder of the camera's pictures.    *)
(* run() opens the device, has it encode the thumbnail, if one was given,  *)
(* and then the picture, from the buffer of the "output" direction into    *)
(* the one of the "capture" direction, and puts the EXIF data (JpegExif)   *)
(* in front.  The camera never gives a thumbnail; the class takes one.     *)
(*                                                                         *)
(* External: the driver.  As V4L2 has it, it refuses a format while        *)
(* buffers are requested, and buffers while it streams; it converts when   *)
(* both directions stream and have a buffer, and VIDIOC_DQBUF waits for    *)
(* that, the device being opened without O_NONBLOCK.                       *)
(***************************************************************************)
EXTENDS JpegExif

CONSTANTS
    Faults,     \* requests that may fail for other reasons
    Lengths     \* of the maker's, the model's and the software's name
FaultsAssumption ==
    Faults \subseteq {"open", "format", "reqbufs", "queue", "on", "poll", "dequeue", "off"}
LengthsAssumption == Lengths \subseteq 0..91

Dir == {"output", "capture"}
Fails(request) == request \in Faults

VARIABLES
    thumbnail, gps,         \* setThumbnail and setGpsData were given one
    device,                 \* the V4L2Device is there
    pc,                     \* what is done next, and in which direction
    image,                  \* what is encoded, "thumbnail" or "input"
    thumbData,              \* run() has an encoded thumbnail
    format, buffers,        \* of each direction, as the driver has them
    stream,                 \* of each direction: is it on, and where is its buffer
    content,                \* what the buffer for the result was made from
    polled,                 \* of the poll: "not yet", "ready", "timeout"
    ret, exif               \* the result of the last run()

driverVars == <<format, buffers, stream, content>>
jpegVars ==
    <<thumbnail, gps, device, pc, image, thumbData, driverVars, polled, ret, exif>>

NoExif == [size |-> 0, cells |-> <<>>]
Idle == <<"idle", "none">>
Off == [on |-> FALSE, buffer |-> "none"]
Closed ==
    /\ format' = [d \in Dir |-> "none"] /\ buffers' = [d \in Dir |-> "empty"]
    /\ stream' = [d \in Dir |-> Off]

Init ==
    /\ thumbnail = FALSE /\ gps = FALSE
    /\ device = FALSE /\ pc = Idle /\ image = "input" /\ thumbData = FALSE
    /\ format = [d \in Dir |-> "none"] /\ buffers = [d \in Dir |-> "empty"]
    /\ stream = [d \in Dir |-> Off] /\ content = <<"none", "none">>
    /\ polled = "not yet" /\ ret = "none" /\ exif = NoExif

-----------------------------------------------------------------------------
(* The driver *)

Convertible == \A d \in Dir : stream[d].on /\ stream[d].buffer = "queued"

Convert ==
    /\ Convertible
    /\ stream' = [d \in Dir |-> [stream[d] EXCEPT !.buffer = "done"]]
    /\ content' = <<buffers["output"], format["capture"]>>
    /\ UNCHANGED <<thumbnail, gps, device, pc, image, thumbData, format, buffers, polled, ret, exif>>

-----------------------------------------------------------------------------
(* The calls of the camera between two runs *)

setThumbnail ==
    /\ pc = Idle /\ thumbnail' = TRUE
    /\ UNCHANGED <<gps, device, pc, image, thumbData, driverVars, polled, ret, exif>>

\* cleanup() lets go of all three allocations.
cleanup ==
    /\ pc = Idle /\ thumbnail' = FALSE
    /\ UNCHANGED <<gps, device, pc, image, thumbData, driverVars, polled, ret, exif>>

(* run and encodeImage *)

\* setExifChangedAttribute of the camera, which gives a position or none, and
\* openDevice: the node, and the type of both directions.
openDevice ==
    /\ pc = Idle
    /\ gps' \in BOOLEAN
    /\ content' = <<"none", "none">> /\ exif' = NoExif /\ thumbData' = FALSE
    /\ \/ /\ device' = TRUE /\ pc' = <<"format", "output">> /\ ret' = "none"
          /\ image' = IF thumbnail THEN "thumbnail" ELSE "input"
       \/ /\ Fails("open")
          /\ ret' = "error" /\ UNCHANGED <<device, pc, image>>
    /\ UNCHANGED <<thumbnail, format, buffers, stream, polled>>

\* initDevice fails.  The direction it was about is left as it is; the other one
\* is cleaned up.
InitFails(d) ==
    /\ pc' = IF d = "output" THEN <<"end", "none">> ELSE <<"dequeue", "output">>
    /\ UNCHANGED <<format, buffers, stream>>

\* enumFormat and setFormat: the size of the result is that of what is encoded.
Format(d) ==
    /\ pc = <<"format", d>>
    /\ \/ /\ ~stream[d].on /\ buffers[d] = "empty"
          /\ format' = [format EXCEPT ![d] = image] /\ pc' = <<"reqbufs", d>>
          /\ UNCHANGED <<buffers, stream>>
       \/ /\ stream[d].on \/ buffers[d] # "empty" \/ Fails("format")
          /\ InitFails(d)
    /\ UNCHANGED <<thumbnail, gps, device, image, thumbData, content, polled, ret, exif>>

ReqBufs(d) ==
    /\ pc = <<"reqbufs", d>>
    /\ \/ /\ buffers' = [buffers EXCEPT ![d] = IF d = "output" THEN image ELSE "result"]
          /\ pc' = <<"queue", d>> /\ UNCHANGED <<format, stream>>
       \/ Fails("reqbufs") /\ InitFails(d)
    /\ UNCHANGED <<thumbnail, gps, device, image, thumbData, content, polled, ret, exif>>

Queue(d) ==
    /\ pc = <<"queue", d>>
    /\ \/ /\ stream' = [stream EXCEPT ![d].buffer = "queued"]
          /\ pc' = <<"on", d>> /\ UNCHANGED <<format, buffers>>
       \/ Fails("queue") /\ InitFails(d)
    /\ UNCHANGED <<thumbnail, gps, device, image, thumbData, content, polled, ret, exif>>

On(d) ==
    /\ pc = <<"on", d>>
    /\ \/ /\ stream' = [stream EXCEPT ![d].on = TRUE]
          /\ pc' = IF d = "output" THEN <<"format", "capture">> ELSE <<"poll", "none">>
          /\ UNCHANGED <<format, buffers>>
       \/ Fails("on") /\ InitFails(d)
    /\ UNCHANGED <<thumbnail, gps, device, image, thumbData, content, polled, ret, exif>>

\* After a second without a picture, or a signal, both directions are cleaned up
\* like after one.
Poll ==
    /\ pc = <<"poll", "none">>
    /\ \/ stream["capture"].buffer = "done" /\ polled' = "ready"
       \/ Fails("poll") /\ polled' = "timeout"
    /\ pc' = <<"dequeue", "output">>
    /\ UNCHANGED <<thumbnail, gps, device, image, thumbData, driverVars, ret, exif>>

\* cleanupDevice returns at its first error; nobody looks at its result.
CleanupEnds(d) ==
    pc' = IF d = "output" /\ polled # "not yet" THEN <<"dequeue", "capture">>
          ELSE <<"end", "none">>

\* Mutant: the stream is stopped with its buffer in it.
DequeueNot(d) ==
    /\ pc = <<"dequeue", d>>
    /\ pc' = <<"off", d>>
    /\ UNCHANGED <<thumbnail, gps, device, image, thumbData, driverVars, polled, ret, exif>>

\* The length that comes with the buffer (used) is left out: so is what run() reports
\* if the result's VIDIOC_DQBUF fails after a poll that succeeded, an older length.
Dequeue(d) ==
    /\ pc = <<"dequeue", d>>
    /\ \/ /\ stream[d].buffer = "done"
          /\ stream' = [stream EXCEPT ![d].buffer = "none"] /\ pc' = <<"off", d>>
       \/ Fails("dequeue") /\ CleanupEnds(d) /\ UNCHANGED stream
    /\ UNCHANGED <<thumbnail, gps, device, image, thumbData, format, buffers, content>>
    /\ UNCHANGED <<polled, ret, exif>>

StreamOff(d) ==
    /\ pc = <<"off", d>>
    /\ \/ stream' = [stream EXCEPT ![d] = Off] /\ pc' = <<"free", d>>
       \/ Fails("off") /\ CleanupEnds(d) /\ UNCHANGED stream
    /\ UNCHANGED <<thumbnail, gps, device, image, thumbData, format, buffers, content>>
    /\ UNCHANGED <<polled, ret, exif>>

Free(d) ==
    /\ pc = <<"free", d>>
    /\ \/ buffers' = [buffers EXCEPT ![d] = "empty"]
       \/ Fails("reqbufs") /\ UNCHANGED buffers
    /\ CleanupEnds(d)
    /\ UNCHANGED <<thumbnail, gps, device, image, thumbData, format, stream, content>>
    /\ UNCHANGED <<polled, ret, exif>>

\* The thumbnail is copied out of the result's buffer before the picture is
\* encoded into it, and the picture is encoded whether there is one or not.
ThumbnailEnds ==
    /\ pc = <<"end", "none">> /\ image = "thumbnail"
    /\ thumbData' = (polled = "ready")
    /\ polled' = "not yet" /\ image' = "input" /\ pc' = <<"format", "output">>
    /\ UNCHANGED <<thumbnail, gps, device, driverVars, ret, exif>>

\* Mutant: the device is closed only after a success.
PictureEndsOpen ==
    /\ pc = <<"end", "none">> /\ image = "input"
    /\ IF polled = "ready"
       THEN device' = FALSE /\ Closed /\ pc' = <<"build", "none">> /\ UNCHANGED ret
       ELSE pc' = Idle /\ ret' = "error" /\ UNCHANGED <<device, format, buffers, stream>>
    /\ polled' = "not yet"
    /\ UNCHANGED <<thumbnail, gps, image, thumbData, content, exif>>

\* closeDevice on both paths.
PictureEnds ==
    /\ pc = <<"end", "none">> /\ image = "input"
    /\ device' = FALSE /\ Closed
    /\ IF polled = "ready" THEN pc' = <<"build", "none">> /\ UNCHANGED ret
       ELSE pc' = Idle /\ ret' = "error"
    /\ polled' = "not yet"
    /\ UNCHANGED <<thumbnail, gps, image, thumbData, content, exif>>

\* The picture moves behind its EXIF data.
Build ==
    /\ pc = <<"build", "none">>
    /\ \E long \in Lengths, short \in Lengths :
           exif' = buildExif(gps, thumbData, [maker |-> short, model |-> long, software |-> short])
    /\ pc' = Idle /\ ret' = "picture"
    /\ UNCHANGED <<thumbnail, gps, device, image, thumbData, driverVars, polled>>

Next ==
    \/ setThumbnail \/ cleanup \/ openDevice \/ Convert
    \/ \E d \in Dir :
           \/ Format(d) \/ ReqBufs(d) \/ Queue(d) \/ On(d)
           \/ Dequeue(d) \/ StreamOff(d) \/ Free(d)
    \/ Poll \/ ThumbnailEnds \/ PictureEnds \/ Build

Spec == Init /\ [][Next]_jpegVars

-----------------------------------------------------------------------------

\* What run() reports as the picture was encoded from the input at its size, not
\* from the thumbnail encoded before it into the same buffer, whichever request
\* of either failed or timed out; and between two runs the device is closed, so
\* that nothing of one is left in the driver for the next.
PictureIsInput ==
    /\ ret = "picture" => content = <<"input", "input">>
    /\ pc = Idle => ~device /\ \A d \in Dir : ~stream[d].on /\ buffers[d] = "empty"

\* VIDIOC_DQBUF waits for a buffer that comes: it is done, or the driver has what
\* it needs to convert.  When the direction of the result is refused it does
\* wait for ever, with the thread of the picture.
DequeueEnds ==
    \A d \in Dir :
        (pc = <<"dequeue", d>> /\ polled # "not yet") =>
            stream[d].buffer = "done" \/ Convertible

\* Every tag of a picture without a thumbnail is found, with its value, within
\* the size of the EXIF data.  With a thumbnail the link to its directory is
\* written over the last entry of the first.  What the short values of the GPS
\* tags are is left out: ExifTag takes them from the wrong place.
TagsIntact ==
    (ret = "picture" /\ ~thumbData) =>
        /\ \A tag \in TagsOf(gps) : Found(exif, tag)
        /\ Whole(exif)
        /\ exif.size <= EXIF_SIZE

-----------------------------------------------------------------------------
(* The inductive invariant. *)

Labels ==
    {Idle, <<"poll", "none">>, <<"end", "none">>, <<"build", "none">>}
        \cup ({"format", "reqbufs", "queue", "on", "dequeue", "off", "free"} \X Dir)

Types ==
    /\ thumbnail \in BOOLEAN /\ gps \in BOOLEAN /\ device \in BOOLEAN /\ thumbData \in BOOLEAN
    /\ image \in {"thumbnail", "input"} /\ polled \in {"not yet", "ready", "timeout"}
    /\ ret \in {"none", "error", "picture"}
    /\ pc \in Labels
    /\ buffers \in [Dir -> {"empty", "thumbnail", "input", "result"}]
    /\ format \in [Dir -> {"none", "thumbnail", "input"}]
    /\ stream \in [Dir -> [on : BOOLEAN, buffer : {"none", "queued", "done"}]]

\* Between two runs, and when the picture is put together, the device is closed.
DeviceClosed ==
    pc[1] \in {"idle", "build"} =>
        /\ ~device
        /\ stream["output"] = Off /\ buffers["output"] = "empty"
        /\ stream["capture"] = Off /\ buffers["capture"] = "empty"

\* What initDevice has got so far, in this direction and, for the result, in the
\* other one, is what it asked for and not left by the thumbnail.
Prepared ==
    /\ pc[1] \in {"reqbufs", "queue", "on"} /\ pc[2] = "output" => ~stream["output"].on
    /\ pc[1] \in {"queue", "on"} /\ pc[2] = "output" => buffers["output"] = image
    /\ pc[1] = "on" /\ pc[2] = "output" => stream["output"].buffer = "queued"
    /\ pc[1] \in {"format", "reqbufs", "queue", "on"} /\ pc[2] = "capture" =>
           /\ stream["output"].on /\ buffers["output"] = image
           /\ stream["output"].buffer = "queued" \/ stream["capture"].on
    /\ pc[1] \in {"reqbufs", "queue", "on"} /\ pc[2] = "capture" =>
           ~stream["capture"].on /\ format["capture"] = image
    /\ pc[1] = "on" /\ pc[2] = "capture" => stream["capture"].buffer = "queued"

\* While run() polls both directions stream, and what is done is of this image.
Polling ==
    pc[1] = "poll" =>
        /\ stream["output"].on /\ stream["capture"].on
        /\ stream["output"].buffer = stream["capture"].buffer
        /\ stream["capture"].buffer \in {"queued", "done"}
        /\ buffers["output"] = image /\ format["capture"] = image
        /\ stream["capture"].buffer = "done" => content = <<image, image>>

\* What was polled for is kept until the next image.
Polled ==
    /\ pc[1] \in {"idle", "build", "format", "reqbufs", "queue", "on", "poll"} =>
           polled = "not yet"
    /\ pc[1] \in {"dequeue", "off", "free"} /\ pc[2] = "capture" => polled # "not yet"
    /\ polled = "ready" =>
           stream["capture"].buffer # "queued" /\ content = <<image, image>>
    /\ pc[1] = "build" \/ ret = "picture" => content = <<"input", "input">>
    /\ ret = "picture" => pc[1] = "idle"

\* A wait for a buffer comes to an end, and so does the one after it.
Waits ==
    polled # "not yet" =>
        /\ pc[1] = "dequeue" /\ pc[2] = "output" =>
               \/ stream["output"].buffer = "done" /\ stream["capture"].buffer = "done"
               \/ Convertible
        /\ pc[1] \in {"off", "free"} /\ pc[2] = "output" => stream["capture"].buffer = "done"
        /\ pc[1] = "dequeue" /\ pc[2] = "capture" =>
               stream["capture"].buffer = "done" \/ Convertible

\* The EXIF data of a picture was built for what it is.
Built ==
    ret = "picture" =>
        \E long \in Lengths, short \in Lengths :
            exif = buildExif(gps, thumbData, [maker |-> short, model |-> long, software |-> short])

IInv == Types /\ DeviceClosed /\ Prepared /\ Polling /\ Polled /\ Waits /\ Built
=============================================================================
