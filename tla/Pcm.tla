-------------------------------- MODULE Pcm --------------------------------
(***************************************************************************)
(* libaudio/alsa_pcm.c: one PCM, opened, written or read by one thread at  *)
(* a time, and closed.  pcm->running remembers whether the driver was      *)
(* prepared; a transfer prepares it when it was not, and again after an    *)
(* underrun.                                                               *)
(*                                                                         *)
(* The ALSA driver (drv) is outside the repository.  It goes from "setup"  *)
(* to "prepared" by PREPARE, to "running" by START or when the client has  *)
(* filled the buffer, and by itself to "xrun", when the client was late;   *)
(* a transfer is refused in "setup", and with EPIPE in "xrun"; PREPARE is  *)
(* refused while it runs.  It may refuse any call for other reasons too.   *)
(***************************************************************************)
EXTENDS Naturals

CONSTANTS
    Opens,          \* what callers of pcm_open want, as records
    MaxUnderruns    \* bound on pcm->underruns

OpensAssumption ==
    Opens \subseteq [in : BOOLEAN, mono : BOOLEAN, mult : 1..16, cnt : 2..17]
BoundAssumption == MaxUnderruns \in Nat

PCM_PERIOD_SZ_MIN == 128
PCM_PERIOD_CNT_MIN == 2

\* Mutant: the number of periods is packed as it is.
PackedCnt(o) ==
    [in |-> o.in, mono |-> o.mono, size |-> (o.mult - 1) % 16, cnt |-> o.cnt % 16]

\* open_l of the input and openPcmOut_l pack the size of a period, a multiple
\* of 128 frames, and the number of periods into four bits of flags each ...
Packed(o) ==
    [in |-> o.in, mono |-> o.mono,
     size |-> (o.mult - 1) % 16, cnt |-> (o.cnt - PCM_PERIOD_CNT_MIN) % 16]

\* ... which pcm_open takes apart.
period_sz(flags) == PCM_PERIOD_SZ_MIN * (flags.size + 1)
period_cnt(flags) == flags.cnt + PCM_PERIOD_CNT_MIN

\* What it asks of the driver: the parameters it sets, the period only from
\* below; the others are free.
HwParams(flags) ==
    [period_min |-> period_sz(flags), periods |-> period_cnt(flags),
     channels |-> IF flags.mono THEN 1 ELSE 2, frame_bits |-> IF flags.mono THEN 16 ELSE 32,
     rate |-> 44100]

NoFd == "none"
NoParams == [period_min |-> 0, periods |-> 0, channels |-> 0, frame_bits |-> 0, rate |-> 0]

VARIABLES
    want,               \* what the caller wants
    flags,              \* pcm->flags
    fd,                 \* pcm->fd: "none", or "open"
    running, underruns, buffer_size,
    call,               \* what the thread is doing: an operation and the step in it
    ret,                \* what the last transfer returned, "ok" for 0
    drv,                \* state of the driver, "closed" if no descriptor is open
    hw,                 \* its parameters
    moved               \* history: how often the transfer's frames were taken

pcmVars == <<flags, fd, running, underruns, buffer_size>>
vars == <<want, pcmVars, call, ret, drv, hw, moved>>

Init ==
    /\ want \in Opens /\ flags = Packed(want)
    /\ fd = NoFd /\ running = FALSE /\ underruns = 0 /\ buffer_size = 0
    /\ call = "none" /\ ret = "none" /\ moved = 0
    /\ drv = "closed" /\ hw = NoParams

\* pcm_open: the device opens, gives its info and takes its parameters, ...
OpenSucceeds ==
    /\ call = "none" /\ fd = NoFd
    /\ fd' = "open" /\ drv' = "setup"
    /\ hw' = HwParams(flags)
    /\ buffer_size' = period_cnt(flags) * period_sz(flags)
    /\ running' = FALSE /\ underruns' = 0
    /\ UNCHANGED <<want, flags, call, ret, moved>>

\* Mutant: the descriptor stays open when the parameters are refused.
OpenFailsLeaks ==
    /\ call = "none" /\ fd = NoFd
    /\ fd' = NoFd /\ drv' = "setup" /\ hw' = NoParams
    /\ running' = FALSE /\ underruns' = 0 /\ buffer_size' = 0
    /\ UNCHANGED <<want, flags, call, ret, moved>>

\* ... or one of these fails, and the descriptor is closed; pcm_ready tells.
OpenFails ==
    /\ call = "none" /\ fd = NoFd
    /\ fd' = NoFd /\ drv' = "closed" /\ hw' = NoParams
    /\ running' = FALSE /\ underruns' = 0 /\ buffer_size' = 0
    /\ UNCHANGED <<want, flags, call, ret, moved>>

\* pcm_close
PcmClose ==
    /\ call = "none" /\ fd = "open"
    /\ fd' = NoFd /\ running' = FALSE /\ buffer_size' = 0
    /\ drv' = "closed" /\ hw' = NoParams
    /\ UNCHANGED <<want, flags, underruns, call, ret, moved>>

\* pcm_write on an output, pcm_read on an input: their callers never mix them
\* up, which would be -EINVAL.
Transfer ==
    /\ call = "none" /\ fd = "open"
    /\ call' = IF running THEN "move" ELSE "prepare"
    /\ ret' = "none" /\ moved' = 0
    /\ UNCHANGED <<want, pcmVars, drv, hw>>

Return(r) == call' = "none" /\ ret' = r

\* PREPARE
Prepare ==
    /\ call = "prepare"
    /\ \/ /\ drv # "running" /\ drv' = "prepared"
          /\ call' = (IF flags.in THEN "start" ELSE "first") /\ UNCHANGED ret
       \/ Return("error") /\ UNCHANGED drv
    /\ UNCHANGED <<want, pcmVars, hw, moved>>

\* The driver takes the frames; an output starts when its buffer is full.
Taken ==
    /\ drv \in {"prepared", "running"}
    /\ drv' \in {drv, "running"}
    /\ moved' = moved + 1

\* Mutant: the loop then goes on to write.
FirstWriteGoesOn ==
    /\ call = "first"
    /\ \/ Taken /\ running' = TRUE /\ call' = "move" /\ UNCHANGED ret
       \/ Return("error") /\ UNCHANGED <<running, drv, moved>>
    /\ UNCHANGED <<want, flags, fd, underruns, buffer_size, hw>>

\* The write that follows PREPARE.
FirstWrite ==
    /\ call = "first"
    /\ \/ Taken /\ running' = TRUE /\ Return("ok")
       \/ Return("error") /\ UNCHANGED <<running, drv, moved>>
    /\ UNCHANGED <<want, flags, fd, underruns, buffer_size, hw>>

\* START, before a read.
Start ==
    /\ call = "start"
    /\ \/ drv' = "running" /\ running' = TRUE /\ call' = "move" /\ UNCHANGED ret
       \/ Return("error") /\ UNCHANGED <<running, drv>>
    /\ UNCHANGED <<want, flags, fd, underruns, buffer_size, hw, moved>>

\* The transfer of a PCM that runs: done, an underrun to recover from, or an
\* error.
Move ==
    /\ call = "move"
    /\ \/ Taken /\ Return("ok") /\ UNCHANGED <<running, underruns>>
       \/ /\ drv = "xrun" /\ underruns < MaxUnderruns
          /\ running' = FALSE /\ underruns' = underruns + 1
          /\ call' = "prepare" /\ UNCHANGED <<ret, drv, moved>>
       \/ /\ Return("error") /\ running' = FALSE
          /\ UNCHANGED <<underruns, drv, moved>>
    /\ UNCHANGED <<want, flags, fd, buffer_size, hw>>

\* The client is late (external).
Underrun == drv = "running" /\ drv' = "xrun" /\ UNCHANGED <<want, pcmVars, call, ret, hw, moved>>

Next ==
    \/ OpenSucceeds \/ OpenFails \/ PcmClose
    \/ Transfer \/ Prepare \/ FirstWrite \/ Start \/ Move
    \/ Underrun

Spec == Init /\ [][Next]_vars

-----------------------------------------------------------------------------
\* The descriptor the driver holds open is the PCM's, the PCM believes it is
\* prepared only when it is, and a transfer is only tried then: across
\* errors, underruns and closings.
PreparedWhenUsed ==
    /\ fd = NoFd <=> drv = "closed"
    /\ running => drv \in {"prepared", "running", "xrun"}
    /\ call \in {"first", "start", "move"} => drv \in {"prepared", "running", "xrun"}

\* A transfer that returns 0 moved its frames once, one that failed not at
\* all, whatever was retried in between.
MovedOnce == call = "none" => moved = IF ret = "ok" THEN 1 ELSE 0

\* An open PCM asked the driver for the periods its caller wanted, and counts
\* on a buffer that holds them.
GeometryKept ==
    fd = "open" => /\ hw.period_min = PCM_PERIOD_SZ_MIN * want.mult /\ hw.periods = want.cnt
                   /\ buffer_size = hw.period_min * hw.periods

(* The inductive invariant *)

Types ==
    /\ want \in Opens /\ flags = Packed(want)
    /\ fd \in {NoFd, "open"} /\ running \in BOOLEAN
    /\ call \in {"none", "prepare", "first", "start", "move"}
    /\ ret \in {"none", "ok", "error"} /\ moved \in Nat
    /\ drv \in {"closed", "setup", "prepared", "running", "xrun"}

\* A transfer under way has moved nothing yet, and nobody closes its PCM.
UnderWay == call # "none" => fd = "open" /\ ret = "none" /\ moved = 0

IInv == Types /\ UnderWay /\ PreparedWhenUsed /\ MovedOnce /\ GeometryKept
=============================================================================
