--------------------------- MODULE AudioHardware ---------------------------
(***************************************************************************)
(* The audio HAL of libaudio/AudioHardware.cpp: one output stream, one     *)
(* input stream and the AudioHardware object that owns the shared output   *)
(* PCM and mixer.  Routes, volumes and the FM radio, which shares these    *)
(* devices, are in AudioRoute.                                             *)
(*                                                                         *)
(* Three mutexes (the mLock of each class) protect this state; the code    *)
(* releases and re-takes them in the middle of write(), read() and         *)
(* setMode() so as to respect the order out -> in -> hw, and then checks   *)
(* whether the world changed.  A step below is a stretch of code that no   *)
(* other thread can observe half-done: it ends where the thread releases   *)
(* or must wait for a mutex, and where a driver is opened or used.         *)
(*                                                                         *)
(* mStandbyCnt, which doStandby_l increments and a thread compares with    *)
(* the value prepareLock returned to it, is kept as the outcome of that    *)
(* comparison, one bit per waiting thread (cntSame).                       *)
(***************************************************************************)
EXTENDS Naturals

CONSTANTS
    Faults,            \* whose driver opens may fail: subset of {"out", "in", "call"}
    CloseDuringCalls   \* may a stream be closed while other calls are under way?

ASSUME FaultsAssumption == Faults \subseteq {"out", "in", "call"}
ASSUME CloseAssumption == CloseDuringCalls \in BOOLEAN

Streams == {"out", "in"}

\* AudioFlinger's playback and record threads, named as the stream they drive,
\* the thread that calls setMode and the one that opens and closes streams.
Threads == Streams \cup {"mode", "close"}

Locks == Streams \cup {"hw"}
Free == "free"
Modes == {"NORMAL", "RINGTONE", "IN_CALL"}

VARIABLES
    pc,                \* what each thread does next
    lock,              \* owner of each mutex
    sp,                \* streams each thread holds a local strong pointer to
    cntSame,           \* cnt == standbyCnt() still holds for the waiting thread
    hwRef,             \* AudioHardware's strong pointers: mOutput, mInputs
    mSleepReq,
    mStandby,
    wakeLock,          \* kernel wake locks AudioOutLock and AudioInLock
    strPcm, strMixer,  \* mPcm # NULL, mMixer # NULL of each stream
    mPcm, mMixer,      \* AudioHardware's devices, each with its open count
    mMode, mInCallAudioMode

threadVars == <<pc, lock, sp, cntSame>>
streamVars == <<mStandby, wakeLock, strPcm, strMixer>>
deviceVars == <<mPcm, mMixer>>
hwVars     == <<deviceVars, mMode, mInCallAudioMode>>
vars == <<threadVars, hwRef, mSleepReq, streamVars, hwVars>>

-----------------------------------------------------------------------------
(* The reference-counted output PCM and mixer; ok: the driver opened.      *)

Device(open, cnt) == [open |-> open, cnt |-> cnt]

Open(d, ok) ==
    IF d.cnt > 0 THEN Device(d.open, d.cnt + 1)
    ELSE IF ok /\ ~d.open THEN Device(TRUE, 1) ELSE d

Close(d) ==
    IF d.cnt > 1 THEN Device(d.open, d.cnt - 1)
    ELSE IF d.cnt = 1 THEN Device(FALSE, 0) ELSE d

\* The PCM and the mixer once the streams in S have given back what they hold.
PcmWithout(d, S) == IF "out" \in S /\ strPcm["out"] THEN Close(d) ELSE d

MixerWithout(d, S) ==
    LET o == IF "out" \in S /\ strMixer["out"] THEN Close(d) ELSE d
    IN  IF "in" \in S /\ strMixer["in"] THEN Close(o) ELSE o

\* Mutant: the mixer is not given back.
CloseLKeepsMixer(S) == mPcm' = PcmWithout(mPcm, S) /\ UNCHANGED mMixer

\* What close_l of the streams in S does to the shared devices.
CloseL(S) ==
    /\ mPcm' = PcmWithout(mPcm, S)
    /\ mMixer' = MixerWithout(mMixer, S)

\* The outcomes a driver open on behalf of who may have.
Outcomes(who) == IF who \in Faults THEN BOOLEAN ELSE {TRUE}

-----------------------------------------------------------------------------
(* Pieces of the stream classes, used by the steps below.                  *)

\* mStandby is false: what checkStandby and getActiveInput_l look for.
Active(s) == hwRef[s] /\ ~mStandby[s]

\* t drops its strong pointer to s, and it is the last one.
LastRef(t, s) == s \in sp[t] /\ ~hwRef[s] /\ \A u \in Threads \ {t} : s \notin sp[u]

\* close_l by a thread that keeps the stream out of standby.
CloseStream(s) ==
    /\ CloseL({s})
    /\ strPcm' = [strPcm EXCEPT ![s] = FALSE]
    /\ strMixer' = [strMixer EXCEPT ![s] = FALSE]

\* Mutant: mStandbyCnt is not incremented.
GoStandbyUncounted(t, S) ==
    /\ mStandby' = [s \in Streams |-> mStandby[s] \/ s \in S]
    /\ wakeLock' = [s \in Streams |-> wakeLock[s] /\ (s \in S => mStandby[s])]
    /\ strPcm' = [s \in Streams |-> strPcm[s] /\ s \notin S]
    /\ strMixer' = [s \in Streams |-> strMixer[s] /\ s \notin S]
    /\ UNCHANGED cntSame

\* Mutant: mStandby is set before it is tested, so the wake lock is never released.
GoStandbyAwake(t, S) ==
    /\ mStandby' = [s \in Streams |-> mStandby[s] \/ s \in S]
    /\ wakeLock' = wakeLock
    /\ strPcm' = [s \in Streams |-> strPcm[s] /\ s \notin S]
    /\ strMixer' = [s \in Streams |-> strMixer[s] /\ s \notin S]
    /\ cntSame' = [u \in Threads |-> u = t \/ (cntSame[u] /\ sp[u] \cap S = {})]

\* doStandby_l of the streams in S by thread t, but for what close_l does to the shared devices.
GoStandby(t, S) ==
    /\ mStandby' = [s \in Streams |-> mStandby[s] \/ s \in S]
    /\ wakeLock' = [s \in Streams |-> wakeLock[s] /\ (s \in S => mStandby[s])]
    /\ strPcm' = [s \in Streams |-> strPcm[s] /\ s \notin S]
    /\ strMixer' = [s \in Streams |-> strMixer[s] /\ s \notin S]
    /\ cntSame' = [u \in Threads |-> u = t \/ (cntSame[u] /\ sp[u] \cap S = {})]

\* What open_l gets from the PCM driver when the driver's answer is ok.
PcmOpens(s, ok) ==
    IF s = "in" THEN ok
    ELSE IF mPcm.cnt = 0 THEN ok /\ ~mPcm.open ELSE mPcm.open

\* open_l of a stream whose PCM opens; the mixer may still be refused.
OpenStream(s, mixerOk) ==
    /\ mPcm' = IF s = "out" THEN Open(mPcm, TRUE) ELSE mPcm
    /\ mMixer' = Open(mMixer, mixerOk)
    /\ strPcm' = [strPcm EXCEPT ![s] = TRUE]
    /\ strMixer' = [strMixer EXCEPT ![s] = mMixer'.open]

\* The thread's next piece of code, mutexes and strong pointers after the step;
\* KeepsHw: the step ends with hw's mutex held and those in L released.
Goes(t, from, to) == pc[t] = from /\ pc' = [pc EXCEPT ![t] = to]
Takes(t, l) == lock[l] = Free /\ lock' = [lock EXCEPT ![l] = t]
Releases(L) == lock' = [l \in Locks |-> IF l \in L THEN Free ELSE lock[l]]
KeepsHw(t, L) ==
    lock' = [l \in Locks |-> IF l = "hw" THEN t ELSE IF l \in L THEN Free ELSE lock[l]]
Points(t, S) == sp' = [sp EXCEPT ![t] = S]

\* prepareLock of s: ask the stream's thread to sleep, remember mStandbyCnt.
PrepareLock(t, s) ==
    /\ mSleepReq' = [mSleepReq EXCEPT ![s] = TRUE]
    /\ cntSame' = [cntSame EXCEPT ![t] = TRUE]

\* Mutant: mSleepReq is left set.
LockStreamSleepy(t, s) == Takes(t, s) /\ UNCHANGED mSleepReq

\* lock() of s, and the first two lines of every call that locks its own stream.
LockStream(t, s) ==
    /\ Takes(t, s)
    /\ mSleepReq' = [mSleepReq EXCEPT ![s] = FALSE]

\* A new call may start: the framework joins a stream's thread before it closes
\* the stream and, unless CloseDuringCalls, makes no other call meanwhile.
MayStart(t) == pc[t] = "idle" /\ (CloseDuringCalls \/ pc["close"] = "idle")

-----------------------------------------------------------------------------
(* AudioStreamOutALSA::write                                               *)

\* A set mSleepReq makes the thread sleep 10 ms before it competes for the mutex.
WriteStart ==
    /\ MayStart("out") /\ hwRef["out"]
    /\ pc' = [pc EXCEPT !["out"] = IF mSleepReq["out"] THEN "w_usleep" ELSE "w_lock"]
    /\ UNCHANGED <<lock, sp, cntSame, hwRef, mSleepReq, streamVars, hwVars>>

WriteWake ==
    /\ Goes("out", "w_usleep", "w_lock")
    /\ UNCHANGED <<lock, sp, cntSame, hwRef, mSleepReq, streamVars, hwVars>>

WriteLock ==
    /\ Goes("out", "w_lock", IF mStandby["out"] THEN "w_hw" ELSE "w_pcm")
    /\ Takes("out", "out")
    /\ UNCHANGED <<sp, cntSame, hwRef, mSleepReq, streamVars, hwVars>>

\* Mutant: an active input is left open.
WriteHwAlone ==
    /\ wakeLock' = [wakeLock EXCEPT !["out"] = TRUE]
    /\ Goes("out", "w_hw", "w_open") /\ Takes("out", "hw")
    /\ UNCHANGED <<sp, cntSame, mSleepReq, hwRef, mStandby, strPcm, strMixer, hwVars>>

\* Exit from standby: with an active input, wait for its mutex without hw's.
WriteHw ==
    /\ wakeLock' = [wakeLock EXCEPT !["out"] = TRUE]
    /\ lock["hw"] = Free
    /\ IF Active("in")
       THEN /\ Goes("out", "w_hw", "w_lockin")
            /\ Points("out", {"in"}) /\ PrepareLock("out", "in")
            /\ UNCHANGED lock
       ELSE /\ Goes("out", "w_hw", "w_open")
            /\ Takes("out", "hw")
            /\ UNCHANGED <<sp, cntSame, mSleepReq>>
    /\ UNCHANGED <<hwRef, mStandby, strPcm, strMixer, hwVars>>

WriteLockIn ==
    /\ Goes("out", "w_lockin", "w_recheck")
    /\ LockStream("out", "in")
    /\ UNCHANGED <<sp, cntSame, hwRef, streamVars, hwVars>>

\* The input is as it was: close it, to open the output before it.
WriteMatch ==
    /\ Goes("out", "w_recheck", "w_open")
    /\ Takes("out", "hw")
    /\ Active("in") /\ cntSame["out"]
    /\ CloseStream("in")
    /\ UNCHANGED <<sp, cntSame, hwRef, mSleepReq, mStandby, wakeLock, mMode, mInCallAudioMode>>

\* The input changed meanwhile: unlock it and look for an active input again.
WriteRetry ==
    /\ pc["out"] = "w_recheck" /\ lock["hw"] = Free
    /\ ~(Active("in") /\ cntSame["out"])
    /\ \/ /\ Active("in")
          /\ Goes("out", "w_recheck", "w_lockin")
          /\ Releases({"in"}) /\ PrepareLock("out", "in")
          /\ UNCHANGED sp
       \/ /\ ~Active("in")
          /\ KeepsHw("out", {"in"})
          /\ IF LastRef("out", "in")
             THEN /\ Goes("out", "w_recheck", "d_lock")
                  /\ mSleepReq' = [mSleepReq EXCEPT !["in"] = TRUE]
                  /\ UNCHANGED <<sp, cntSame>>
             ELSE /\ Goes("out", "w_recheck", "w_open")
                  /\ Points("out", {})
                  /\ cntSame' = [cntSame EXCEPT !["out"] = TRUE]
                  /\ UNCHANGED mSleepReq
    /\ UNCHANGED <<hwRef, streamVars, hwVars>>

WriteOpen ==
    /\ Goes("out", "w_open", IF sp["out"] = {} THEN "w_done" ELSE "w_reopen")
    /\ \E pcmOk, mixerOk \in Outcomes("out") :
         IF PcmOpens("out", pcmOk) THEN OpenStream("out", mixerOk)
                                   ELSE UNCHANGED <<deviceVars, strPcm, strMixer>>
    /\ UNCHANGED <<lock, sp, cntSame, hwRef, mSleepReq, mStandby, wakeLock, mMode, mInCallAudioMode>>

\* Mutant: an input whose PCM does not open again is left out of standby.
WriteReopenInUnchecked ==
    /\ Goes("out", "w_reopen", "w_done")
    /\ Releases({"in"}) /\ Points("out", {})
    /\ \E pcmOk, mixerOk \in Outcomes("in") :
         IF PcmOpens("in", pcmOk) THEN OpenStream("in", mixerOk)
                                  ELSE UNCHANGED <<deviceVars, strPcm, strMixer>>
    /\ UNCHANGED <<mStandby, wakeLock, cntSame, hwRef, mSleepReq, mMode, mInCallAudioMode>>

WriteReopenIn ==
    /\ Goes("out", "w_reopen", "w_done")
    /\ Releases({"in"}) /\ Points("out", {})
    /\ \E pcmOk, mixerOk \in Outcomes("in") :
         IF PcmOpens("in", pcmOk)
         THEN OpenStream("in", mixerOk) /\ UNCHANGED <<mStandby, wakeLock, cntSame>>
         ELSE GoStandby("out", {"in"}) /\ CloseL({"in"})
    /\ UNCHANGED <<hwRef, mSleepReq, mMode, mInCallAudioMode>>

\* Out of standby, or back to it (Error: standby()) when the PCM did not open.
WriteDone ==
    /\ IF strPcm["out"]
       THEN /\ Goes("out", "w_done", "w_pcm") /\ Releases({"hw"})
            /\ mStandby' = [mStandby EXCEPT !["out"] = FALSE]
            /\ UNCHANGED <<wakeLock, mSleepReq>>
       ELSE /\ Goes("out", "w_done", "sb_lock") /\ Releases({"out", "hw"})
            /\ wakeLock' = [wakeLock EXCEPT !["out"] = FALSE]
            /\ mSleepReq' = [mSleepReq EXCEPT !["out"] = TRUE]
            /\ UNCHANGED mStandby
    /\ UNCHANGED <<sp, cntSame, hwRef, strPcm, strMixer, hwVars>>

-----------------------------------------------------------------------------
(* AudioStreamInALSA::read                                                 *)

ReadStart ==
    /\ MayStart("in") /\ hwRef["in"]
    /\ pc' = [pc EXCEPT !["in"] = IF mSleepReq["in"] THEN "r_usleep" ELSE "r_lock"]
    /\ UNCHANGED <<lock, sp, cntSame, hwRef, mSleepReq, streamVars, hwVars>>

ReadWake ==
    /\ Goes("in", "r_usleep", "r_lock")
    /\ UNCHANGED <<lock, sp, cntSame, hwRef, mSleepReq, streamVars, hwVars>>

ReadLock ==
    /\ Goes("in", "r_lock", IF mStandby["in"] THEN "r_hw" ELSE "r_pcm")
    /\ Takes("in", "in")
    /\ UNCHANGED <<sp, cntSame, hwRef, mSleepReq, streamVars, hwVars>>

\* Mutant: the input's mutex is kept while waiting for the output's.
ReadHwHolding ==
    /\ wakeLock' = [wakeLock EXCEPT !["in"] = TRUE]
    /\ lock["hw"] = Free
    /\ IF Active("out")
       THEN /\ Goes("in", "r_hw", "r_lockout")
            /\ Points("in", {"out"}) /\ PrepareLock("in", "out")
            /\ UNCHANGED lock
       ELSE /\ Goes("in", "r_hw", "r_open") /\ Takes("in", "hw")
            /\ UNCHANGED <<sp, cntSame, mSleepReq>>
    /\ UNCHANGED <<hwRef, mStandby, strPcm, strMixer, hwVars>>

\* An active output comes before the input in the order: release both mutexes.
ReadHw ==
    /\ wakeLock' = [wakeLock EXCEPT !["in"] = TRUE]
    /\ lock["hw"] = Free
    /\ IF Active("out")
       THEN /\ Goes("in", "r_hw", "r_lockout")
            /\ Points("in", {"out"}) /\ PrepareLock("in", "out")
            /\ Releases({"in"})
       ELSE /\ Goes("in", "r_hw", "r_open")
            /\ Takes("in", "hw")
            /\ UNCHANGED <<sp, cntSame, mSleepReq>>
    /\ UNCHANGED <<hwRef, mStandby, strPcm, strMixer, hwVars>>

ReadLockOut ==
    /\ Goes("in", "r_lockout", "r_relock")
    /\ LockStream("in", "out")
    /\ UNCHANGED <<sp, cntSame, hwRef, streamVars, hwVars>>

ReadRelock ==
    /\ Goes("in", "r_relock", "r_recheck")
    /\ Takes("in", "in")
    /\ UNCHANGED <<sp, cntSame, hwRef, mSleepReq, streamVars, hwVars>>

\* The output is the same object and was not in standby meanwhile: close it.
ReadMatch ==
    /\ Goes("in", "r_recheck", "r_reopen")
    /\ Takes("in", "hw")
    /\ hwRef["out"] /\ cntSame["in"]
    /\ CloseStream("out")
    /\ UNCHANGED <<sp, cntSame, hwRef, mSleepReq, mStandby, wakeLock, mMode, mInCallAudioMode>>

ReadRetry ==
    /\ pc["in"] = "r_recheck" /\ lock["hw"] = Free
    /\ ~(hwRef["out"] /\ cntSame["in"])
    /\ \/ /\ Active("out")
          /\ Goes("in", "r_recheck", "r_lockout")
          /\ Releases({"in", "out"}) /\ PrepareLock("in", "out")
          /\ UNCHANGED sp
       \/ /\ ~Active("out")
          /\ KeepsHw("in", {"out"})
          /\ IF LastRef("in", "out")
             THEN /\ Goes("in", "r_recheck", "d_lock")
                  /\ mSleepReq' = [mSleepReq EXCEPT !["out"] = TRUE]
                  /\ UNCHANGED <<sp, cntSame>>
             ELSE /\ Goes("in", "r_recheck", "r_open")
                  /\ Points("in", {})
                  /\ cntSame' = [cntSame EXCEPT !["in"] = TRUE]
                  /\ UNCHANGED mSleepReq
    /\ UNCHANGED <<hwRef, streamVars, hwVars>>

ReadReopenOut ==
    /\ Goes("in", "r_reopen", "r_open")
    /\ Releases({"out"}) /\ Points("in", {})
    /\ \E pcmOk, mixerOk \in Outcomes("out") :
         IF PcmOpens("out", pcmOk)
         THEN OpenStream("out", mixerOk) /\ UNCHANGED <<mStandby, wakeLock, cntSame>>
         ELSE GoStandby("in", {"out"}) /\ CloseL({"out"})
    /\ UNCHANGED <<hwRef, mSleepReq, mMode, mInCallAudioMode>>

ReadOpen ==
    /\ Goes("in", "r_open", "r_done")
    /\ \E pcmOk, mixerOk \in Outcomes("in") :
         IF PcmOpens("in", pcmOk) THEN OpenStream("in", mixerOk)
                                  ELSE UNCHANGED <<deviceVars, strPcm, strMixer>>
    /\ UNCHANGED <<lock, sp, cntSame, hwRef, mSleepReq, mStandby, wakeLock, mMode, mInCallAudioMode>>

ReadDone ==
    /\ IF strPcm["in"]
       THEN /\ Goes("in", "r_done", "r_pcm") /\ Releases({"hw"})
            /\ mStandby' = [mStandby EXCEPT !["in"] = FALSE]
            /\ UNCHANGED <<wakeLock, mSleepReq>>
       ELSE /\ Goes("in", "r_done", "sb_lock") /\ Releases({"in", "hw"})
            /\ wakeLock' = [wakeLock EXCEPT !["in"] = FALSE]
            /\ mSleepReq' = [mSleepReq EXCEPT !["in"] = TRUE]
            /\ UNCHANGED mStandby
    /\ UNCHANGED <<sp, cntSame, hwRef, strPcm, strMixer, hwVars>>

-----------------------------------------------------------------------------
(* What both stream classes share.                                         *)

\* Mutant: standby() is called with the mutex still held.
TransferHolding(s) ==
    /\ \E to \in {"idle", "sb_lock"} :
         /\ Goes(s, IF s = "out" THEN "w_pcm" ELSE "r_pcm", to)
         /\ mSleepReq' = [mSleepReq EXCEPT ![s] = @ \/ to = "sb_lock"]
         /\ Releases(IF to = "idle" THEN {s} ELSE {})
    /\ UNCHANGED <<sp, cntSame, hwRef, streamVars, hwVars>>

\* pcm_write or pcm_read; an error sends the stream to standby.
Transfer(s) ==
    /\ \E to \in {"idle", "sb_lock"} :
         /\ Goes(s, IF s = "out" THEN "w_pcm" ELSE "r_pcm", to)
         /\ mSleepReq' = [mSleepReq EXCEPT ![s] = @ \/ to = "sb_lock"]
    /\ Releases({s})
    /\ UNCHANGED <<sp, cntSame, hwRef, streamVars, hwVars>>

\* standby() or setParameters() called by the framework.
StreamCall(s) ==
    /\ MayStart(s) /\ hwRef[s]
    /\ \E to \in {"sb_lock", "sp_lock"} : Goes(s, "idle", to)
    /\ mSleepReq' = [mSleepReq EXCEPT ![s] = TRUE]
    /\ UNCHANGED <<lock, sp, cntSame, hwRef, streamVars, hwVars>>

StandbyLock(s) ==
    /\ Goes(s, "sb_lock", "sb_hw")
    /\ LockStream(s, s)
    /\ UNCHANGED <<sp, cntSame, hwRef, streamVars, hwVars>>

StandbyHw(s) ==
    /\ Goes(s, "sb_hw", "idle")
    /\ lock["hw"] = Free
    /\ GoStandby(s, {s}) /\ CloseL({s})
    /\ Releases({s})
    /\ UNCHANGED <<sp, hwRef, mSleepReq, mMode, mInCallAudioMode>>

SetParametersLock(s) ==
    /\ Goes(s, "sp_lock", "sp_hw")
    /\ LockStream(s, s)
    /\ UNCHANGED <<sp, cntSame, hwRef, streamVars, hwVars>>

\* Routing to another device outside a call sends the stream to standby; without
\* a routing key, or with device 0, the hw mutex is not even taken.
SetParametersHw(s) ==
    /\ Goes(s, "sp_hw", "idle")
    /\ Releases({s})
    /\ \/ /\ lock["hw"] = Free /\ mMode # "IN_CALL"
          /\ GoStandby(s, {s}) /\ CloseL({s})
       \/ UNCHANGED <<cntSame, streamVars, deviceVars>>
    /\ UNCHANGED <<sp, hwRef, mSleepReq, mMode, mInCallAudioMode>>

-----------------------------------------------------------------------------
(* AudioHardware::setMode                                                  *)

ModeStart ==
    /\ MayStart("mode") /\ Goes("mode", "idle", "m_hw")
    /\ UNCHANGED <<lock, sp, cntSame, hwRef, mSleepReq, streamVars, hwVars>>

\* With spOut = S held, hw just locked or still locked: look for an active input.
ModeSeekInput(from, S, freed) ==
    IF Active("in")
    THEN /\ Goes("mode", from, "m_lockin")
         /\ Points("mode", S \cup {"in"}) /\ PrepareLock("mode", "in")
         /\ Releases(freed)
    ELSE /\ Goes("mode", from, "m_apply")
         /\ Points("mode", S)
         /\ KeepsHw("mode", freed)
         /\ cntSame' = [cntSame EXCEPT !["mode"] = TRUE]
         /\ UNCHANGED mSleepReq

\* The first loop of setMode, freed being the mutexes its iteration releases.
ModeSeekOutput(from, freed) ==
    IF Active("out")
    THEN /\ Goes("mode", from, "m_lockout")
         /\ Points("mode", {"out"}) /\ PrepareLock("mode", "out")
         /\ Releases(freed)
    ELSE ModeSeekInput(from, {}, freed)

ModeHw ==
    /\ pc["mode"] = "m_hw" /\ lock["hw"] = Free
    /\ ModeSeekOutput("m_hw", {})
    /\ UNCHANGED <<hwRef, streamVars, hwVars>>

ModeLockOut ==
    /\ Goes("mode", "m_lockout", "m_recheckout")
    /\ LockStream("mode", "out")
    /\ UNCHANGED <<sp, cntSame, hwRef, streamVars, hwVars>>

ModeRecheckOut ==
    /\ pc["mode"] = "m_recheckout" /\ lock["hw"] = Free
    /\ \/ /\ hwRef["out"] /\ cntSame["mode"]
          /\ ModeSeekInput("m_recheckout", {"out"}, {})
       \/ /\ LastRef("mode", "out")
          /\ Goes("mode", "m_recheckout", "d_lock")
          /\ KeepsHw("mode", {"out"})
          /\ mSleepReq' = [mSleepReq EXCEPT !["out"] = TRUE]
          /\ UNCHANGED <<sp, cntSame>>
       \/ /\ ~(hwRef["out"] /\ cntSame["mode"]) /\ ~LastRef("mode", "out")
          /\ ModeSeekOutput("m_recheckout", {"out"})
    /\ UNCHANGED <<hwRef, streamVars, hwVars>>

ModeLockIn ==
    /\ Goes("mode", "m_lockin", "m_recheckin")
    /\ LockStream("mode", "in")
    /\ UNCHANGED <<sp, cntSame, hwRef, streamVars, hwVars>>

ModeRecheckIn ==
    /\ pc["mode"] = "m_recheckin" /\ lock["hw"] = Free
    /\ \/ /\ Active("in") /\ cntSame["mode"]
          /\ Goes("mode", "m_recheckin", "m_apply")
          /\ Takes("mode", "hw")
          /\ UNCHANGED <<sp, cntSame, mSleepReq>>
       \/ /\ LastRef("mode", "in")
          /\ Goes("mode", "m_recheckin", "d_lock")
          /\ KeepsHw("mode", {"in"})
          /\ mSleepReq' = [mSleepReq EXCEPT !["in"] = TRUE]
          /\ UNCHANGED <<sp, cntSame>>
       \/ /\ ~(Active("in") /\ cntSame["mode"]) /\ ~LastRef("mode", "in")
          /\ ModeSeekInput("m_recheckin", sp["mode"] \ {"in"}, {"in"})
    /\ UNCHANGED <<hwRef, streamVars, hwVars>>

\* Mutant: every stream is sent to standby, the ones setMode has not locked too.
EnterCallAll ==
    /\ GoStandby("mode", Streams)
    /\ \E pcmOk, mixerOk \in Outcomes("call") :
         /\ mPcm' = Open(PcmWithout(mPcm, Streams), pcmOk)
         /\ mMixer' = Open(MixerWithout(mMixer, Streams), mixerOk)
    /\ mInCallAudioMode' = TRUE

\* Entering a call: the active streams give their devices back, then the call
\* takes its own reference on each, whether or not that succeeds.
EnterCall ==
    /\ GoStandby("mode", sp["mode"])
    /\ \E pcmOk, mixerOk \in Outcomes("call") :
         /\ mPcm' = Open(PcmWithout(mPcm, sp["mode"]), pcmOk)
         /\ mMixer' = Open(MixerWithout(mMixer, sp["mode"]), mixerOk)
    /\ mInCallAudioMode' = TRUE

LeaveCall ==
    /\ GoStandby("mode", sp["mode"])
    /\ mPcm' = PcmWithout(Close(mPcm), sp["mode"])
    /\ mMixer' = MixerWithout(Close(mMixer), sp["mode"])
    /\ mInCallAudioMode' = FALSE

\* Mutant: a mode out of range is taken.
AcceptsAny(mode) == mode # mMode

\* AudioHardwareBase::setMode refuses a mode out of range and the current one.
Accepts(mode) == mode \in Modes /\ mode # mMode

ModeApply ==
    /\ Goes("mode", "m_apply", "m_drop")
    /\ \E mode \in Modes \cup {"INVALID"} :
         /\ mMode' = IF Accepts(mode) THEN mode ELSE mMode
         /\ IF Accepts(mode) /\ mode = "IN_CALL" /\ ~mInCallAudioMode THEN EnterCall
            ELSE IF Accepts(mode) /\ mode # "IN_CALL" /\ mInCallAudioMode THEN LeaveCall
            ELSE UNCHANGED <<cntSame, streamVars, deviceVars, mInCallAudioMode>>
    /\ Releases({"hw"} \cup sp["mode"])
    /\ UNCHANGED <<sp, hwRef, mSleepReq>>

-----------------------------------------------------------------------------
(* Closing and opening a stream; destruction with its last strong pointer. *)

\* spOut and spIn of setMode, or the pointer of closeXxxStream, go out of scope.
Drop(t, from) ==
    /\ pc[t] = from
    /\ IF \E s \in Streams : LastRef(t, s)
       THEN \E s \in Streams :
              /\ LastRef(t, s)
              /\ Goes(t, from, "d_lock")
              /\ mSleepReq' = [mSleepReq EXCEPT ![s] = TRUE]
              /\ UNCHANGED sp
       ELSE Goes(t, from, "idle") /\ Points(t, {}) /\ UNCHANGED mSleepReq
    /\ UNCHANGED <<lock, cntSame, hwRef, streamVars, hwVars>>

\* The destructor calls standby(), which takes the stream's mutex, then hw's.
DestroyLock(t) ==
    /\ Goes(t, "d_lock", "d_hw")
    /\ \E s \in Streams : LastRef(t, s) /\ LockStream(t, s)
    /\ UNCHANGED <<sp, cntSame, hwRef, streamVars, hwVars>>

DestroyHw(t) ==
    /\ Goes(t, "d_hw", IF t = "mode" THEN "m_drop" ELSE "c_drop")
    /\ lock["hw"] = Free
    /\ \E s \in Streams :
         /\ LastRef(t, s) /\ lock[s] = t
         /\ GoStandby(t, {s}) /\ CloseL({s})
         /\ Releases({s}) /\ Points(t, sp[t] \ {s})
    /\ UNCHANGED <<hwRef, mSleepReq, mMode, mInCallAudioMode>>

\* No call may be in progress when the framework closes or opens a stream,
\* unless CloseDuringCalls: then only the stream's own thread has stopped.
Quiet(s) == IF CloseDuringCalls THEN pc[s] = "idle"
            ELSE \A t \in Threads : pc[t] = "idle"

CloseStreamCall(s) ==
    /\ Quiet(s) /\ hwRef[s] /\ lock["hw"] = Free
    /\ Goes("close", "idle", "c_drop")
    /\ Points("close", {s})
    /\ hwRef' = [hwRef EXCEPT ![s] = FALSE]
    /\ UNCHANGED <<lock, cntSame, mSleepReq, streamVars, hwVars>>

\* A new object; the previous one is gone before it is created.
OpenStreamCall(s) ==
    /\ Quiet(s) /\ ~hwRef[s] /\ lock["hw"] = Free /\ pc["close"] = "idle"
    /\ \A t \in Threads : s \notin sp[t]
    /\ hwRef' = [hwRef EXCEPT ![s] = TRUE]
    /\ mStandby' = [mStandby EXCEPT ![s] = TRUE]
    /\ mSleepReq' = [mSleepReq EXCEPT ![s] = FALSE]
    /\ UNCHANGED <<threadVars, wakeLock, strPcm, strMixer, hwVars>>

-----------------------------------------------------------------------------

Init ==
    /\ pc = [t \in Threads |-> "idle"]
    /\ lock = [l \in Locks |-> Free]
    /\ sp = [t \in Threads |-> {}]
    /\ cntSame = [t \in Threads |-> TRUE]
    /\ hwRef = [s \in Streams |-> FALSE]
    /\ mSleepReq = [s \in Streams |-> FALSE]
    /\ mStandby = [s \in Streams |-> TRUE]
    /\ wakeLock = [s \in Streams |-> FALSE]
    /\ strPcm = [s \in Streams |-> FALSE]
    /\ strMixer = [s \in Streams |-> FALSE]
    /\ mPcm = Device(FALSE, 0)
    /\ mMixer = Device(FALSE, 0)
    /\ mMode = "NORMAL"
    /\ mInCallAudioMode = FALSE

\* A call starts: nothing obliges the framework to make it.
Start ==
    \/ WriteStart \/ ReadStart \/ ModeStart
    \/ \E s \in Streams : StreamCall(s) \/ CloseStreamCall(s) \/ OpenStreamCall(s)

WriteStep ==
    \/ WriteWake \/ WriteLock \/ WriteHw \/ WriteLockIn \/ WriteMatch \/ WriteRetry
    \/ WriteOpen \/ WriteReopenIn \/ WriteDone

ReadStep ==
    \/ ReadWake \/ ReadLock \/ ReadHw \/ ReadLockOut \/ ReadRelock \/ ReadMatch
    \/ ReadRetry \/ ReadReopenOut \/ ReadOpen \/ ReadDone

StreamStep(s) ==
    \/ Transfer(s) \/ StandbyLock(s) \/ StandbyHw(s)
    \/ SetParametersLock(s) \/ SetParametersHw(s)

ModeStep ==
    \/ ModeHw \/ ModeLockOut \/ ModeRecheckOut \/ ModeLockIn \/ ModeRecheckIn \/ ModeApply
    \/ Drop("mode", "m_drop")

DestroyStep(t) == DestroyLock(t) \/ DestroyHw(t)

\* The rest of the call thread t is in.
Continue(t) ==
    \/ t = "out" /\ (WriteStep \/ StreamStep("out"))
    \/ t = "in" /\ (ReadStep \/ StreamStep("in"))
    \/ t = "mode" /\ ModeStep
    \/ t = "close" /\ Drop("close", "c_drop")
    \/ DestroyStep(t)

Next == Start \/ \E t \in Threads : Continue(t)

Spec == Init /\ [][Next]_vars

\* Every thread that is inside a call goes on, and a mutex it waits for is not
\* withheld from it forever: what thread priorities and mSleepReq are there for.
FairSpec == Spec /\ \A t \in Threads : SF_vars(Continue(t))

-----------------------------------------------------------------------------
(* Properties                                                              *)

Labels ==
    {"idle", "d_lock", "d_hw", "c_drop", "sb_lock", "sb_hw", "sp_lock", "sp_hw",
     "w_usleep", "w_lock", "w_hw", "w_lockin", "w_recheck", "w_open", "w_reopen", "w_done", "w_pcm",
     "r_usleep", "r_lock", "r_hw", "r_lockout", "r_relock", "r_recheck", "r_reopen", "r_open",
     "r_done", "r_pcm",
     "m_hw", "m_lockout", "m_recheckout", "m_lockin", "m_recheckin", "m_apply", "m_drop"}

Devices == [open : BOOLEAN, cnt : Nat]

\* Every variable holds a value of its type.
TypeOK ==
    /\ pc \in [Threads -> Labels]
    /\ lock \in [Locks -> Threads \cup {Free}]
    /\ sp \in [Threads -> SUBSET Streams]
    /\ cntSame \in [Threads -> BOOLEAN]
    /\ hwRef \in [Streams -> BOOLEAN]
    /\ mSleepReq \in [Streams -> BOOLEAN]
    /\ mStandby \in [Streams -> BOOLEAN]
    /\ wakeLock \in [Streams -> BOOLEAN]
    /\ strPcm \in [Streams -> BOOLEAN]
    /\ strMixer \in [Streams -> BOOLEAN]
    /\ mPcm \in Devices /\ mMixer \in Devices
    /\ mMode \in Modes
    /\ mInCallAudioMode \in BOOLEAN

\* The mutex thread t is blocked on, or about to take.
WaitsFor(t, l) ==
    CASE l = "hw" -> pc[t] \in {"w_hw", "w_recheck", "r_hw", "r_recheck", "sb_hw", "sp_hw",
                                "m_hw", "m_recheckout", "m_recheckin", "d_hw"}
      [] OTHER -> \/ t = l /\ pc[t] \in {"w_lock", "r_lock", "r_relock", "sb_lock", "sp_lock"}
                  \/ l = "in" /\ pc[t] \in {"w_lockin", "m_lockin"}
                  \/ l = "out" /\ pc[t] \in {"r_lockout", "m_lockout"}
                  \/ pc[t] = "d_lock" /\ LastRef(t, l)

Rank == [out |-> 1, in |-> 2, hw |-> 3]

\* "Mutex acquisition order is always out -> in -> hw": a thread waits for a mutex only
\* while every mutex it holds comes before it, so no set of threads can block each other.
LockOrder ==
    \A t \in Threads, l, k \in Locks :
        WaitsFor(t, l) /\ lock[k] = t => Rank[k] < Rank[l]

Bit(b) == IF b THEN 1 ELSE 0

HeldBy(d, n) == d.cnt = n /\ (d.open <=> n > 0)

\* The shared PCM and mixer are open exactly while somebody holds them: each count is the
\* number of holders (the streams' handles and the call's), through every handover of the
\* devices between write(), read(), standby() and setMode().
RefCounts ==
    /\ HeldBy(mPcm, Bit(strPcm["out"]) + Bit(mInCallAudioMode))
    /\ HeldBy(mMixer, Bit(strMixer["out"]) + Bit(strMixer["in"]) + Bit(mInCallAudioMode))

\* A stream holds its PCM, as seen by whoever locks it, exactly when it is not in standby;
\* and a transfer runs on a PCM that nobody closed under it.
StandbyMeansClosed ==
    /\ \A s \in Streams : lock[s] = Free =>
          /\ strPcm[s] = ~mStandby[s]
          /\ strMixer[s] => strPcm[s]
    /\ pc["out"] = "w_pcm" => strPcm["out"] /\ mPcm.open
    /\ pc["in"] = "r_pcm" => strPcm["in"]

\* Thread s is in the part of write() or read() that leaves standby.
Waking(s) ==
    pc[s] \in {"w_lockin", "w_recheck", "w_open", "w_reopen", "w_done",
               "r_lockout", "r_relock", "r_recheck", "r_reopen", "r_open", "r_done",
               "d_lock", "d_hw"}

\* The kernel wake lock of a stream is held while it is out of standby, and otherwise only
\* while its own thread is on the way out: it is never leaked, never dropped early.
WakeLocks ==
    \A s \in Streams :
        /\ ~mStandby[s] => wakeLock[s]
        /\ wakeLock[s] => ~mStandby[s] \/ Waking(s)

\* What a stream holds is accounted for, in the counts of the shared devices, in its
\* handles and in its wake lock, whichever thread last sent it to standby or woke it.
DevicesAccounted == RefCounts /\ StandbyMeansClosed /\ WakeLocks

\* "spOut is not 0 here only if the output is active" (and its three siblings): where the
\* mutex dance ends, a stream kept in a strong pointer is locked by this thread, still out
\* of standby and, in write() and read(), closed.
KeptStreamIsActive ==
    /\ pc["mode"] = "m_apply" =>
          \A s \in sp["mode"] : lock[s] = "mode" /\ ~mStandby[s]
    /\ pc["out"] \in {"w_open", "w_reopen"} =>
          \A s \in sp["out"] : lock[s] = "out" /\ ~mStandby[s] /\ ~strPcm[s]
    /\ pc["in"] = "r_reopen" =>
          \A s \in sp["in"] : lock[s] = "in" /\ ~mStandby[s] /\ ~strPcm[s]

\* A stream's thread is asked to sleep only while some thread that asked waits for the
\* stream's mutex ("the only condition when mSleepReq would be true").
SleepReqHasWaiter ==
    \A s \in Streams : mSleepReq[s] =>
        \E t \in Threads : WaitsFor(t, s) /\ pc[t] \notin {"w_lock", "r_lock", "r_relock"}

\* Threads that need each other's stream agree on it: one that keeps the other's stream
\* finds it as it needs it, and one that sleeps for another is not woken by nobody.
Handshake == KeptStreamIsActive /\ SleepReqHasWaiter

\* "open output before input": the output PCM is never opened while the capture PCM is.
OutputBeforeInput ==
    [][~mPcm.open /\ mPcm'.open => ~strPcm["in"]']_vars

\* A stream's standby flag and handles change only under its mutex and hw's: no other
\* thread holds either when they do.
StateChangesLocked ==
    [][\A s \in Streams :
         <<mStandby[s], strPcm[s], strMixer[s]>>' # <<mStandby[s], strPcm[s], strMixer[s]>> =>
            \E t \in Threads : /\ pc'[t] # pc[t]
                               /\ lock[s] = t
                               /\ lock["hw"] \in {t, Free}]_vars

\* "closePcmOut_l() mPcmOpenCnt == 0" is an error the code logs: leaving a call gives back
\* the PCM and mixer that entering it took.
CallGivesBackItsOwn ==
    [][mInCallAudioMode /\ ~mInCallAudioMode' =>
         mPcm.cnt > Bit(strPcm["out"]) /\ mMixer.cnt > Bit(strMixer["out"]) + Bit(strMixer["in"])]_vars

\* Every call of the HAL returns, once streams stop going to standby just while a thread
\* waits for them (each time, that thread has to start its search again).
CallsReturn ==
    (<>[](\A t \in Threads : cntSame[t])) =>
        \A t \in Threads : (pc[t] # "idle") ~> (pc[t] = "idle")

=============================================================================
