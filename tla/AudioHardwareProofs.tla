------------------------ MODULE AudioHardwareProofs ------------------------
(***************************************************************************)
(* Theorems about AudioHardware, for every set of failing drivers.         *)
(***************************************************************************)
EXTENDS AudioHardwareInvariant, TLAPS

-----------------------------------------------------------------------------
(* Types of the helpers.                                                   *)

LEMMA DeviceTypes ==
    ASSUME NEW d \in Devices, NEW ok \in BOOLEAN
    PROVE  Open(d, ok) \in Devices /\ Close(d) \in Devices
BY DEF Devices, Open, Close, Device

LEMMA GiveBackTypes ==
    ASSUME NEW d \in Devices, NEW S
    PROVE  PcmWithout(d, S) \in Devices /\ MixerWithout(d, S) \in Devices
<1>1. \A e \in Devices : Close(e) \in Devices
  BY DeviceTypes
<1> QED BY <1>1 DEF PcmWithout, MixerWithout

LEMMA StandbyTypes ==
    ASSUME TypeOK, NEW t \in Threads, NEW S \in SUBSET Streams, GoStandby(t, S)
    PROVE  /\ mStandby' \in [Streams -> BOOLEAN]
           /\ wakeLock' \in [Streams -> BOOLEAN]
           /\ strPcm' \in [Streams -> BOOLEAN]
           /\ strMixer' \in [Streams -> BOOLEAN]
           /\ cntSame' \in [Threads -> BOOLEAN]
BY DEF TypeOK, GoStandby

LEMMA CloseTypes ==
    ASSUME TypeOK, NEW S, CloseL(S)
    PROVE  mPcm' \in Devices /\ mMixer' \in Devices
BY GiveBackTypes DEF TypeOK, CloseL

LEMMA OpenTypes ==
    ASSUME TypeOK, NEW s \in Streams, NEW ok \in BOOLEAN, OpenStream(s, ok)
    PROVE  /\ mPcm' \in Devices /\ mMixer' \in Devices
           /\ strPcm' \in [Streams -> BOOLEAN]
           /\ strMixer' \in [Streams -> BOOLEAN]
<1>1. mPcm' \in Devices /\ mMixer' \in Devices
  BY DeviceTypes DEF TypeOK, OpenStream
<1>2. mMixer'.open \in BOOLEAN
  BY <1>1 DEF Devices
<1> QED BY <1>1, <1>2 DEF TypeOK, OpenStream

LEMMA OutcomeTypes == \A who : Outcomes(who) \subseteq BOOLEAN
BY DEF Outcomes

LEMMA MoveTypes ==
    ASSUME TypeOK, NEW t \in Threads
    PROVE  /\ \A from, to : Goes(t, from, to) /\ to \in Labels => pc' \in [Threads -> Labels]
           /\ \A l \in Locks : Takes(t, l) => lock' \in [Locks -> Threads \cup {Free}]
           /\ \A L : Releases(L) => lock' \in [Locks -> Threads \cup {Free}]
           /\ \A L : KeepsHw(t, L) => lock' \in [Locks -> Threads \cup {Free}]
           /\ \A S \in SUBSET Streams : Points(t, S) => sp' \in [Threads -> SUBSET Streams]
           /\ \A s \in Streams : LockStream(t, s) =>
                 /\ lock' \in [Locks -> Threads \cup {Free}]
                 /\ mSleepReq' \in [Streams -> BOOLEAN]
           /\ \A s \in Streams : PrepareLock(t, s) =>
                 /\ mSleepReq' \in [Streams -> BOOLEAN]
                 /\ cntSame' \in [Threads -> BOOLEAN]
<1> USE DEF TypeOK
<1>1. \A from, to : Goes(t, from, to) /\ to \in Labels => pc' \in [Threads -> Labels]
  BY DEF Goes
<1>2. \A l \in Locks : Takes(t, l) => lock' \in [Locks -> Threads \cup {Free}]
  BY DEF Takes
<1>3. \A L : Releases(L) => lock' \in [Locks -> Threads \cup {Free}]
  BY DEF Releases
<1>4. \A L : KeepsHw(t, L) => lock' \in [Locks -> Threads \cup {Free}]
  BY DEF KeepsHw
<1>5. \A S \in SUBSET Streams : Points(t, S) => sp' \in [Threads -> SUBSET Streams]
  BY DEF Points
<1>6. \A s \in Streams : LockStream(t, s) => mSleepReq' \in [Streams -> BOOLEAN]
  BY DEF LockStream
<1>7. \A s \in Streams : LockStream(t, s) => lock' \in [Locks -> Threads \cup {Free}]
  BY <1>2 DEF LockStream, Locks
<1>8. \A s \in Streams : PrepareLock(t, s) =>
                 /\ mSleepReq' \in [Streams -> BOOLEAN]
                 /\ cntSame' \in [Threads -> BOOLEAN]
  BY DEF PrepareLock
<1> QED BY <1>1, <1>2, <1>3, <1>4, <1>5, <1>6, <1>7, <1>8

-----------------------------------------------------------------------------

LEMMA WriteTypes == TypeOK /\ WriteStep => TypeOK'
<1> SUFFICES ASSUME TypeOK, WriteStep PROVE TypeOK'
  OBVIOUS
<1> USE DEF TypeOK, streamVars, hwVars, deviceVars
<1>t. {"in", "out", "mode", "close"} \subseteq Threads /\ {"in", "out"} \subseteq Streams
  BY DEF Threads, Streams
<1>l. Streams \subseteq Locks /\ "hw" \in Locks
  BY DEF Locks
<1>1. CASE WriteWake
  BY <1>1, <1>t, <1>l, MoveTypes DEF WriteWake, Labels
<1>2. CASE WriteLock
  BY <1>2, <1>t, <1>l, MoveTypes DEF WriteLock, Labels
<1>3. CASE WriteHw
  BY <1>3, <1>t, <1>l, MoveTypes DEF WriteHw, Labels
<1>4. CASE WriteLockIn
  BY <1>4, <1>t, <1>l, MoveTypes DEF WriteLockIn, Labels
<1>5. CASE WriteMatch
  BY <1>5, <1>t, <1>l, MoveTypes, CloseTypes DEF WriteMatch, CloseStream, Labels
<1>6. CASE WriteRetry
  BY <1>6, <1>t, <1>l, MoveTypes DEF WriteRetry, Labels
<1>7. CASE WriteOpen
  BY <1>7, <1>t, <1>l, MoveTypes, OpenTypes, OutcomeTypes DEF WriteOpen, Labels
<1>8. CASE WriteReopenIn
  BY <1>8, <1>t, <1>l, MoveTypes, OpenTypes, StandbyTypes, CloseTypes, OutcomeTypes DEF WriteReopenIn, Labels
<1>9. CASE WriteDone
  BY <1>9, <1>t, <1>l, MoveTypes, ZenonT(60) DEF WriteDone, Labels
<1> QED BY <1>1, <1>2, <1>3, <1>4, <1>5, <1>6, <1>7, <1>8, <1>9 DEF WriteStep

LEMMA ReadTypes == TypeOK /\ ReadStep => TypeOK'
<1> SUFFICES ASSUME TypeOK, ReadStep PROVE TypeOK'
  OBVIOUS
<1> USE DEF TypeOK, streamVars, hwVars, deviceVars
<1>t. {"in", "out", "mode", "close"} \subseteq Threads /\ {"in", "out"} \subseteq Streams
  BY DEF Threads, Streams
<1>l. Streams \subseteq Locks /\ "hw" \in Locks
  BY DEF Locks
<1>1. CASE ReadWake
  BY <1>1, <1>t, <1>l, MoveTypes DEF ReadWake, Labels
<1>2. CASE ReadLock
  BY <1>2, <1>t, <1>l, MoveTypes DEF ReadLock, Labels
<1>3. CASE ReadHw
  BY <1>3, <1>t, <1>l, MoveTypes DEF ReadHw, Labels
<1>4. CASE ReadLockOut
  BY <1>4, <1>t, <1>l, MoveTypes DEF ReadLockOut, Labels
<1>5. CASE ReadRelock
  BY <1>5, <1>t, <1>l, MoveTypes DEF ReadRelock, Labels
<1>6. CASE ReadMatch
  BY <1>6, <1>t, <1>l, MoveTypes, CloseTypes DEF ReadMatch, CloseStream, Labels
<1>7. CASE ReadRetry
  BY <1>7, <1>t, <1>l, MoveTypes DEF ReadRetry, Labels
<1>8. CASE ReadReopenOut
  BY <1>8, <1>t, <1>l, MoveTypes, OpenTypes, StandbyTypes, CloseTypes, OutcomeTypes DEF ReadReopenOut, Labels
<1>9. CASE ReadOpen
  BY <1>9, <1>t, <1>l, MoveTypes, OpenTypes, OutcomeTypes DEF ReadOpen, Labels
<1>10. CASE ReadDone
  BY <1>10, <1>t, <1>l, MoveTypes, ZenonT(60) DEF ReadDone, Labels
<1> QED BY <1>1, <1>2, <1>3, <1>4, <1>5, <1>6, <1>7, <1>8, <1>9, <1>10 DEF ReadStep

LEMMA StreamTypes == ASSUME NEW s \in Streams PROVE TypeOK /\ StreamStep(s) => TypeOK'
<1> SUFFICES ASSUME TypeOK, StreamStep(s) PROVE TypeOK'
  OBVIOUS
<1> USE DEF TypeOK, streamVars, hwVars, deviceVars
<1>t. {"in", "out", "mode", "close"} \subseteq Threads /\ {"in", "out"} \subseteq Streams
  BY DEF Threads, Streams
<1>l. Streams \subseteq Locks /\ "hw" \in Locks
  BY DEF Locks
<1>1. CASE Transfer(s)
  BY <1>1, <1>t, <1>l, MoveTypes DEF Transfer, Threads, Labels
<1>2. CASE StandbyLock(s)
  BY <1>2, <1>t, <1>l, MoveTypes DEF StandbyLock, Threads, Labels
<1>3. CASE StandbyHw(s)
  BY <1>3, <1>t, <1>l, MoveTypes, StandbyTypes, CloseTypes DEF StandbyHw, Threads, Labels
<1>4. CASE SetParametersLock(s)
  BY <1>4, <1>t, <1>l, MoveTypes DEF SetParametersLock, Threads, Labels
<1>5. CASE SetParametersHw(s)
  BY <1>5, <1>t, <1>l, MoveTypes, StandbyTypes, CloseTypes DEF SetParametersHw, Threads, Labels
<1> QED BY <1>1, <1>2, <1>3, <1>4, <1>5 DEF StreamStep

LEMMA CallTypes ==
    ASSUME TypeOK, EnterCall \/ LeaveCall
    PROVE  /\ mPcm' \in Devices /\ mMixer' \in Devices
           /\ mInCallAudioMode' \in BOOLEAN
<1>1. \A d \in Devices, S \in SUBSET Streams :
         /\ PcmWithout(d, S) \in Devices /\ MixerWithout(d, S) \in Devices
         /\ \A ok \in BOOLEAN : Open(d, ok) \in Devices
         /\ Close(d) \in Devices
  BY DeviceTypes, GiveBackTypes
<1>2. sp["mode"] \in SUBSET Streams
  BY DEF TypeOK, Threads
<1>3. mPcm \in Devices /\ mMixer \in Devices
  BY DEF TypeOK
<1>4. CASE EnterCall
  <2>1. PICK pcmOk \in BOOLEAN, mixerOk \in BOOLEAN :
          /\ mPcm' = Open(PcmWithout(mPcm, sp["mode"]), pcmOk)
          /\ mMixer' = Open(MixerWithout(mMixer, sp["mode"]), mixerOk)
    BY <1>4, OutcomeTypes DEF EnterCall
  <2> QED BY <1>1, <1>2, <1>3, <1>4, <2>1 DEF EnterCall
<1>5. CASE LeaveCall
  BY <1>1, <1>2, <1>3, <1>5 DEF LeaveCall
<1> QED BY <1>4, <1>5

LEMMA ModeTypes == TypeOK /\ ModeStep => TypeOK'
<1> SUFFICES ASSUME TypeOK, ModeStep PROVE TypeOK'
  OBVIOUS
<1> USE DEF TypeOK, streamVars, hwVars, deviceVars
<1>t. {"in", "out", "mode", "close"} \subseteq Threads /\ {"in", "out"} \subseteq Streams
  BY DEF Threads, Streams
<1>l. Streams \subseteq Locks /\ "hw" \in Locks
  BY DEF Locks
<1>1. CASE ModeHw
  BY <1>1, <1>t, <1>l, MoveTypes DEF ModeHw, ModeSeekOutput, ModeSeekInput, Labels
<1>2. CASE ModeLockOut
  BY <1>2, <1>t, <1>l, MoveTypes DEF ModeLockOut, Labels
<1>3. CASE ModeRecheckOut
  BY <1>3, <1>t, <1>l, MoveTypes, ZenonT(60) DEF ModeRecheckOut, ModeSeekOutput, ModeSeekInput, Labels
<1>4. CASE ModeLockIn
  BY <1>4, <1>t, <1>l, MoveTypes DEF ModeLockIn, Labels
<1>5. CASE ModeRecheckIn
  BY <1>5, <1>t, <1>l, MoveTypes, ZenonT(60) DEF ModeRecheckIn, ModeSeekInput, Labels
<1>6. CASE ModeApply
  BY <1>6, <1>t, <1>l, MoveTypes, CallTypes, StandbyTypes DEF ModeApply, EnterCall, LeaveCall, Accepts, Labels
<1>7. CASE Drop("mode", "m_drop")
  BY <1>7, <1>t, <1>l, MoveTypes DEF Drop, Labels
<1> QED BY <1>1, <1>2, <1>3, <1>4, <1>5, <1>6, <1>7 DEF ModeStep

LEMMA DestroyTypes == ASSUME NEW t \in Threads PROVE TypeOK /\ DestroyStep(t) => TypeOK'
<1> SUFFICES ASSUME TypeOK, DestroyStep(t) PROVE TypeOK'
  OBVIOUS
<1> USE DEF TypeOK, streamVars, hwVars, deviceVars
<1>t. {"in", "out", "mode", "close"} \subseteq Threads /\ {"in", "out"} \subseteq Streams
  BY DEF Threads, Streams
<1>l. Streams \subseteq Locks /\ "hw" \in Locks
  BY DEF Locks
<1>1. CASE DestroyLock(t)
  BY <1>1, <1>t, <1>l, MoveTypes DEF DestroyLock, Labels
<1>2. CASE DestroyHw(t)
  BY <1>2, <1>t, <1>l, MoveTypes, StandbyTypes, CloseTypes DEF DestroyHw, Labels
<1> QED BY <1>1, <1>2 DEF DestroyStep

LEMMA StartTypes == TypeOK /\ Start => TypeOK'
<1> SUFFICES ASSUME TypeOK, Start PROVE TypeOK'
  OBVIOUS
<1> USE DEF TypeOK, streamVars, hwVars, deviceVars
<1>t. {"in", "out", "mode", "close"} \subseteq Threads /\ {"in", "out"} \subseteq Streams
  BY DEF Threads, Streams
<1>l. Streams \subseteq Locks /\ "hw" \in Locks
  BY DEF Locks
<1>1. CASE WriteStart
  BY <1>1, <1>t, <1>l, MoveTypes DEF WriteStart, Labels
<1>2. CASE ReadStart
  BY <1>2, <1>t, <1>l, MoveTypes DEF ReadStart, Labels
<1>3. CASE ModeStart
  BY <1>3, <1>t, <1>l, MoveTypes DEF ModeStart, Labels
<1>4. CASE \E s \in Streams : StreamCall(s)
  BY <1>4, <1>t, <1>l, MoveTypes DEF StreamCall, Threads, Labels
<1>5. CASE \E s \in Streams : CloseStreamCall(s)
  BY <1>5, <1>t, <1>l, MoveTypes DEF CloseStreamCall, Labels
<1>6. CASE \E s \in Streams : OpenStreamCall(s)
  BY <1>6, <1>t, <1>l, MoveTypes DEF OpenStreamCall, threadVars, Labels
<1> QED BY <1>1, <1>2, <1>3, <1>4, <1>5, <1>6 DEF Start

LEMMA TypeStep == TypeOK /\ [Next]_vars => TypeOK'
<1> SUFFICES ASSUME TypeOK, [Next]_vars PROVE TypeOK'
  OBVIOUS
<1>1. CASE Start
  BY <1>1, StartTypes
<1>2. CASE \E t \in Threads : Continue(t)
  <2>1. PICK t \in Threads : Continue(t)
    BY <1>2
  <2>2. CASE DestroyStep(t)
    BY <2>2, DestroyTypes
  <2>3. CASE WriteStep \/ ReadStep \/ ModeStep
    BY <2>3, WriteTypes, ReadTypes, ModeTypes
  <2>4. CASE \E s \in Streams : StreamStep(s)
    BY <2>4, StreamTypes
  <2>5. CASE Drop("close", "c_drop")
    BY <2>5, MoveTypes DEF Drop, TypeOK, Threads, Labels, streamVars, hwVars, deviceVars
  <2> QED BY <2>1, <2>2, <2>3, <2>4, <2>5 DEF Continue, Streams
<1>3. CASE UNCHANGED vars
  BY <1>3 DEF TypeOK, vars, threadVars, streamVars, hwVars, deviceVars
<1> QED BY <1>1, <1>2, <1>3 DEF Next

\* Every variable keeps its type, whatever the drivers refuse.
THEOREM TypeCorrect == Spec => []TypeOK
<1>1. Init => TypeOK
  <2> SUFFICES ASSUME Init PROVE TypeOK
    OBVIOUS
  <2>1. Device(FALSE, 0) \in Devices
    BY DEF Device, Devices
  <2>2. "idle" \in Labels /\ "NORMAL" \in Modes
    BY DEF Labels, Modes
  <2> QED BY <2>1, <2>2 DEF Init, TypeOK
<1> QED BY <1>1, TypeStep, PTL DEF Spec

-----------------------------------------------------------------------------
(* The inductive invariant of AudioHardwareInvariant is preserved by every *)
(* step, and gives the safety properties for every set of failing streams. *)

-----------------------------------------------------------------------------
(* The control part: mutual exclusion, and where the pointers point.       *)

LEMMA WriteControl ==
    ASSUME Control, TypeOK', WriteStep
    PROVE  Control'
<1> USE DEF Control, Owned, Owns, Pointers, TypeOK, Goes, Takes, Releases, Points, KeepsHw,
            LockStream, Threads, Streams, Locks, Free
<1>1. CASE WriteWake
  BY <1>1 DEF WriteWake
<1>2. CASE WriteLock
  BY <1>2 DEF WriteLock
<1>3. CASE WriteHw
  BY <1>3 DEF WriteHw
<1>4. CASE WriteLockIn
  BY <1>4 DEF WriteLockIn
<1>5. CASE WriteMatch
  BY <1>5 DEF WriteMatch
<1>6. CASE WriteRetry
  BY <1>6 DEF WriteRetry
<1>7. CASE WriteOpen
  BY <1>7 DEF WriteOpen
<1>8. CASE WriteReopenIn
  BY <1>8 DEF WriteReopenIn
<1>9. CASE WriteDone
  BY <1>9 DEF WriteDone
<1> QED BY <1>1, <1>2, <1>3, <1>4, <1>5, <1>6, <1>7, <1>8, <1>9 DEF WriteStep

LEMMA ReadControl ==
    ASSUME Control, TypeOK', ReadStep
    PROVE  Control'
<1> USE DEF Control, Owned, Owns, Pointers, TypeOK, Goes, Takes, Releases, Points, KeepsHw,
            LockStream, Threads, Streams, Locks, Free
<1>1. CASE ReadWake
  BY <1>1 DEF ReadWake
<1>2. CASE ReadLock
  BY <1>2 DEF ReadLock
<1>3. CASE ReadHw
  BY <1>3 DEF ReadHw
<1>4. CASE ReadLockOut
  BY <1>4 DEF ReadLockOut
<1>5. CASE ReadRelock
  BY <1>5 DEF ReadRelock
<1>6. CASE ReadMatch
  BY <1>6 DEF ReadMatch
<1>7. CASE ReadRetry
  BY <1>7 DEF ReadRetry
<1>8. CASE ReadReopenOut
  BY <1>8 DEF ReadReopenOut
<1>9. CASE ReadOpen
  BY <1>9 DEF ReadOpen
<1>10. CASE ReadDone
  BY <1>10 DEF ReadDone
<1> QED BY <1>1, <1>2, <1>3, <1>4, <1>5, <1>6, <1>7, <1>8, <1>9, <1>10 DEF ReadStep

LEMMA StreamControl ==
    ASSUME Control, TypeOK', NEW s \in Streams, StreamStep(s)
    PROVE  Control'
<1> USE DEF Control, Owned, Owns, Pointers, TypeOK, Goes, Takes, Releases, Points, KeepsHw,
            LockStream, Threads, Streams, Locks, Free
<1>1. CASE Transfer(s)
  BY <1>1 DEF Transfer
<1>2. CASE StandbyLock(s)
  BY <1>2 DEF StandbyLock
<1>3. CASE StandbyHw(s)
  BY <1>3 DEF StandbyHw
<1>4. CASE SetParametersLock(s)
  BY <1>4 DEF SetParametersLock
<1>5. CASE SetParametersHw(s)
  BY <1>5 DEF SetParametersHw
<1> QED BY <1>1, <1>2, <1>3, <1>4, <1>5 DEF StreamStep

LEMMA ModeControl ==
    ASSUME Control, TypeOK', ModeStep
    PROVE  Control'
<1> USE DEF Control, Owned, Owns, Pointers, TypeOK, Goes, Takes, Releases, Points, KeepsHw,
            LockStream, Threads, Streams, Locks, Free
<1>1. CASE ModeHw
  BY <1>1 DEF ModeHw, ModeSeekOutput, ModeSeekInput
<1>2. CASE ModeLockOut
  BY <1>2 DEF ModeLockOut
<1>3. CASE ModeRecheckOut
  BY <1>3 DEF ModeRecheckOut, ModeSeekOutput, ModeSeekInput
<1>4. CASE ModeLockIn
  BY <1>4 DEF ModeLockIn
<1>5. CASE ModeRecheckIn
  BY <1>5 DEF ModeRecheckIn, ModeSeekInput
<1>6. CASE ModeApply
  BY <1>6 DEF ModeApply
<1>7. CASE Drop("mode", "m_drop")
  BY <1>7 DEF Drop
<1> QED BY <1>1, <1>2, <1>3, <1>4, <1>5, <1>6, <1>7 DEF ModeStep

LEMMA DestroyControl ==
    ASSUME Control, TypeOK', NEW t \in Threads, DestroyStep(t)
    PROVE  Control'
<1> USE DEF Control, Owned, Owns, Pointers, TypeOK, Goes, Takes, Releases, Points, KeepsHw,
            LockStream, Threads, Streams, Locks, Free
<1>1. CASE DestroyLock(t)
  BY <1>1 DEF DestroyLock
<1>2. CASE DestroyHw(t)
  BY <1>2 DEF DestroyHw
<1> QED BY <1>1, <1>2 DEF DestroyStep

LEMMA StartControl ==
    ASSUME Control, TypeOK', Start
    PROVE  Control'
<1> USE DEF Control, Owned, Owns, Pointers, TypeOK, Goes, Takes, Releases, Points, KeepsHw,
            LockStream, Threads, Streams, Locks, Free
<1>1. CASE WriteStart
  BY <1>1 DEF WriteStart, MayStart
<1>2. CASE ReadStart
  BY <1>2 DEF ReadStart, MayStart
<1>3. CASE ModeStart
  BY <1>3 DEF ModeStart, MayStart
<1>4. CASE \E s \in Streams : StreamCall(s)
  BY <1>4 DEF StreamCall, MayStart
<1>5. CASE \E s \in Streams : CloseStreamCall(s)
  BY <1>5 DEF CloseStreamCall, Quiet
<1>6. CASE \E s \in Streams : OpenStreamCall(s)
  BY <1>6 DEF OpenStreamCall, Quiet, threadVars
<1> QED BY <1>1, <1>2, <1>3, <1>4, <1>5, <1>6, ZenonT(60) DEF Start

LEMMA ControlStep ==
    ASSUME Control, TypeOK', [Next]_vars
    PROVE  Control'
<1>1. CASE Start
  BY <1>1, StartControl
<1>2. CASE \E t \in Threads : Continue(t)
  <2>1. PICK t \in Threads : Continue(t)
    BY <1>2
  <2>2. CASE DestroyStep(t)
    BY <2>2, DestroyControl
  <2>3. CASE WriteStep \/ ReadStep \/ ModeStep
    BY <2>3, WriteControl, ReadControl, ModeControl
  <2>4. CASE \E s \in Streams : StreamStep(s)
    BY <2>4, StreamControl
  <2>5. CASE Drop("close", "c_drop")
    BY <2>5 DEF Drop, Control, Owned, Owns, Pointers, TypeOK, Goes, Points, Threads, Streams,
                Locks
  <2> QED BY <2>1, <2>2, <2>3, <2>4, <2>5 DEF Continue, Streams
<1>3. CASE UNCHANGED vars
  BY <1>3 DEF vars, threadVars, streamVars, hwVars, deviceVars, Control, TypeOK, Owned, Owns, Pointers
<1> QED BY <1>1, <1>2, <1>3 DEF Next

-----------------------------------------------------------------------------
(* The streams: standby flags, handles and wake locks.                     *)

OpenTo(s, b) == strPcm' = [strPcm EXCEPT ![s] = TRUE] /\ strMixer' = [strMixer EXCEPT ![s] = b]

LEMMA OpenFacts ==
    ASSUME TypeOK', NEW s \in Streams, NEW ok, OpenStream(s, ok)
    PROVE  \E b \in BOOLEAN : OpenTo(s, b)
<1>1. mMixer'.open \in BOOLEAN
  BY DEF TypeOK, Devices
<1> QED BY <1>1 DEF OpenStream, OpenTo

LEMMA WriteStreams ==
    ASSUME Control, StreamInv, Awake, TypeOK', WriteStep
    PROVE  (StreamInv /\ Awake)'
<1> USE DEF Control, StreamInv, TypeOK, Goes, Takes, Releases, Points, KeepsHw, LockStream, Threads,
            Streams, Locks, Free, streamVars, Owned, Owns, Pointers
<1>1. CASE WriteWake
  BY <1>1 DEF WriteWake, Flags, Alive, Unchanged, Handles, Opening, Lent, Awake, WakeLocks,
         Waking
<1>2. CASE WriteLock
  BY <1>2 DEF WriteLock, Flags, Alive, Unchanged, Handles, Opening, Lent, Awake, WakeLocks,
         Waking
<1>3. CASE WriteHw
  BY <1>3 DEF WriteHw, Active, PrepareLock, Flags, Alive, Unchanged, Handles, Opening, Lent,
         Awake, WakeLocks, Waking
<1>4. CASE WriteLockIn
  BY <1>4 DEF WriteLockIn, Flags, Alive, Unchanged, Handles, Opening, Lent, Awake, WakeLocks,
         Waking
<1>5. CASE WriteMatch
  BY <1>5 DEF WriteMatch, Active, CloseStream, Flags, Alive, Unchanged, Handles, Opening, Lent,
         Awake, WakeLocks, Waking
<1>6. CASE WriteRetry
  BY <1>6 DEF WriteRetry, Active, LastRef, PrepareLock, Flags, Alive, Unchanged, Handles,
         Opening, Lent, Awake, WakeLocks, Waking
<1>7. CASE WriteOpen
  <2>o. \/ \E b \in BOOLEAN : OpenTo("out", b)
        \/ UNCHANGED <<strPcm, strMixer>>
    BY <1>7, OpenFacts DEF WriteOpen
  <2> QED BY <1>7, <2>o DEF WriteOpen, OpenTo, Flags, Alive, Unchanged, Handles, Opening, Lent, Awake,
        WakeLocks, Waking
<1>8. CASE WriteReopenIn
  <2>o. \/ (\E b \in BOOLEAN : OpenTo("in", b)) /\ UNCHANGED <<mStandby, wakeLock, cntSame>>
        \/ GoStandby("out", {"in"})
    BY <1>8, OpenFacts DEF WriteReopenIn
  <2> QED BY <1>8, <2>o DEF WriteReopenIn, GoStandby, OpenTo, Flags, Alive, Unchanged, Handles, Opening,
        Lent, Awake, WakeLocks, Waking
<1>9. CASE WriteDone
  BY <1>9 DEF WriteDone, Flags, Alive, Unchanged, Handles, Opening, Lent, Awake, WakeLocks,
         Waking
<1> QED BY <1>1, <1>2, <1>3, <1>4, <1>5, <1>6, <1>7, <1>8, <1>9 DEF WriteStep

LEMMA ReadStreams ==
    ASSUME Control, StreamInv, Awake, TypeOK', ReadStep
    PROVE  (StreamInv /\ Awake)'
<1> USE DEF Control, StreamInv, TypeOK, Goes, Takes, Releases, Points, KeepsHw, LockStream, Threads,
            Streams, Locks, Free, streamVars, Owned, Owns, Pointers
<1>1. CASE ReadWake
  BY <1>1 DEF ReadWake, Flags, Alive, Unchanged, Handles, Opening, Lent, Awake, WakeLocks,
         Waking
<1>2. CASE ReadLock
  BY <1>2 DEF ReadLock, Flags, Alive, Unchanged, Handles, Opening, Lent, Awake, WakeLocks,
         Waking
<1>3. CASE ReadHw
  BY <1>3 DEF ReadHw, Active, PrepareLock, Flags, Alive, Unchanged, Handles, Opening, Lent,
         Awake, WakeLocks, Waking
<1>4. CASE ReadLockOut
  BY <1>4 DEF ReadLockOut, Flags, Alive, Unchanged, Handles, Opening, Lent, Awake, WakeLocks,
         Waking
<1>5. CASE ReadRelock
  BY <1>5 DEF ReadRelock, Flags, Alive, Unchanged, Handles, Opening, Lent, Awake, WakeLocks,
         Waking
<1>6. CASE ReadMatch
  BY <1>6 DEF ReadMatch, CloseStream, Flags, Alive, Unchanged, Handles, Opening, Lent, Awake,
         WakeLocks, Waking
<1>7. CASE ReadRetry
  BY <1>7 DEF ReadRetry, Active, LastRef, PrepareLock, Flags, Alive, Unchanged, Handles,
         Opening, Lent, Awake, WakeLocks, Waking
<1>8. CASE ReadReopenOut
  <2>o. \/ (\E b \in BOOLEAN : OpenTo("out", b)) /\ UNCHANGED <<mStandby, wakeLock, cntSame>>
        \/ GoStandby("in", {"out"})
    BY <1>8, OpenFacts DEF ReadReopenOut
  <2> QED BY <1>8, <2>o DEF ReadReopenOut, GoStandby, OpenTo, Flags, Alive, Unchanged, Handles, Opening,
        Lent, Awake, WakeLocks, Waking
<1>9. CASE ReadOpen
  <2>o. \/ \E b \in BOOLEAN : OpenTo("in", b)
        \/ UNCHANGED <<strPcm, strMixer>>
    BY <1>9, OpenFacts DEF ReadOpen
  <2> QED BY <1>9, <2>o DEF ReadOpen, OpenTo, Flags, Alive, Unchanged, Handles, Opening, Lent, Awake,
        WakeLocks, Waking
<1>10. CASE ReadDone
  BY <1>10 DEF ReadDone, Flags, Alive, Unchanged, Handles, Opening, Lent, Awake, WakeLocks,
         Waking
<1> QED BY <1>1, <1>2, <1>3, <1>4, <1>5, <1>6, <1>7, <1>8, <1>9, <1>10 DEF ReadStep

LEMMA StreamStreams ==
    ASSUME Control, StreamInv, Awake, TypeOK', NEW s \in Streams, StreamStep(s)
    PROVE  (StreamInv /\ Awake)'
<1> USE DEF Control, StreamInv, TypeOK, Goes, Takes, Releases, Points, KeepsHw, LockStream, Threads,
            Streams, Locks, Free, streamVars, Owned, Owns, Pointers
<1>1. CASE Transfer(s)
  BY <1>1 DEF Transfer, Flags, Alive, Unchanged, Handles, Opening, Lent, Awake, WakeLocks,
         Waking
<1>2. CASE StandbyLock(s)
  BY <1>2 DEF StandbyLock, Flags, Alive, Unchanged, Handles, Opening, Lent, Awake, WakeLocks,
         Waking
<1>3. CASE StandbyHw(s)
  BY <1>3 DEF StandbyHw, GoStandby, Flags, Alive, Unchanged, Handles, Opening, Lent, Awake,
         WakeLocks, Waking
<1>4. CASE SetParametersLock(s)
  BY <1>4 DEF SetParametersLock, Flags, Alive, Unchanged, Handles, Opening, Lent, Awake,
         WakeLocks, Waking
<1>5. CASE SetParametersHw(s)
  BY <1>5 DEF SetParametersHw, GoStandby, Flags, Alive, Unchanged, Handles, Opening, Lent,
         Awake, WakeLocks, Waking
<1> QED BY <1>1, <1>2, <1>3, <1>4, <1>5 DEF StreamStep

LEMMA ModeStreams ==
    ASSUME Control, StreamInv, Awake, TypeOK', ModeStep
    PROVE  (StreamInv /\ Awake)'
<1> USE DEF Control, StreamInv, TypeOK, Goes, Takes, Releases, Points, KeepsHw, LockStream, Threads,
            Streams, Locks, Free, streamVars, Owned, Owns, Pointers
<1>1. CASE ModeHw
  BY <1>1 DEF ModeHw, ModeSeekOutput, ModeSeekInput, Active, PrepareLock, Flags, Alive,
         Unchanged, Handles, Opening, Lent, Awake, WakeLocks, Waking
<1>2. CASE ModeLockOut
  BY <1>2 DEF ModeLockOut, Flags, Alive, Unchanged, Handles, Opening, Lent, Awake, WakeLocks,
         Waking
<1>3. CASE ModeRecheckOut
  BY <1>3 DEF ModeRecheckOut, ModeSeekOutput, ModeSeekInput, Active, LastRef, PrepareLock,
         Flags, Alive, Unchanged, Handles, Opening, Lent, Awake, WakeLocks, Waking
<1>4. CASE ModeLockIn
  BY <1>4 DEF ModeLockIn, Flags, Alive, Unchanged, Handles, Opening, Lent, Awake, WakeLocks,
         Waking
<1>5. CASE ModeRecheckIn
  BY <1>5 DEF ModeRecheckIn, ModeSeekInput, Active, LastRef, PrepareLock, Flags, Alive,
         Unchanged, Handles, Opening, Lent, Awake, WakeLocks, Waking
<1>6. CASE ModeApply
  BY <1>6 DEF ModeApply, EnterCall, GoStandby, LeaveCall, Flags, Alive, Unchanged, Handles,
         Opening, Lent, Awake, WakeLocks, Waking
<1>7. CASE Drop("mode", "m_drop")
  BY <1>7 DEF Drop, LastRef, Flags, Alive, Unchanged, Handles, Opening, Lent, Awake, WakeLocks,
         Waking
<1> QED BY <1>1, <1>2, <1>3, <1>4, <1>5, <1>6, <1>7 DEF ModeStep

LEMMA DestroyStreams ==
    ASSUME Control, StreamInv, Awake, TypeOK', NEW t \in Threads, DestroyStep(t)
    PROVE  (StreamInv /\ Awake)'
<1> USE DEF Control, StreamInv, TypeOK, Goes, Takes, Releases, Points, KeepsHw, LockStream, Threads,
            Streams, Locks, Free, streamVars, Owned, Owns, Pointers
<1>1. CASE DestroyLock(t)
  BY <1>1 DEF DestroyLock, LastRef, Flags, Alive, Unchanged, Handles, Opening, Lent, Awake,
         WakeLocks, Waking
<1>2. CASE DestroyHw(t)
  BY <1>2 DEF DestroyHw, GoStandby, LastRef, Flags, Alive, Unchanged, Handles, Opening, Lent,
         Awake, WakeLocks, Waking
<1> QED BY <1>1, <1>2 DEF DestroyStep

LEMMA StartStreams ==
    ASSUME Control, StreamInv, Awake, TypeOK', Start
    PROVE  (StreamInv /\ Awake)'
<1> USE DEF Control, StreamInv, TypeOK, Goes, Takes, Releases, Points, KeepsHw, LockStream, Threads,
            Streams, Locks, Free, streamVars, Owned, Owns, Pointers
<1>1. CASE WriteStart
  BY <1>1 DEF WriteStart, MayStart, Flags, Alive, Unchanged, Handles, Opening, Lent, Awake,
         WakeLocks, Waking
<1>2. CASE ReadStart
  BY <1>2 DEF ReadStart, MayStart, Flags, Alive, Unchanged, Handles, Opening, Lent, Awake,
         WakeLocks, Waking
<1>3. CASE ModeStart
  BY <1>3 DEF ModeStart, MayStart, Flags, Alive, Unchanged, Handles, Opening, Lent, Awake,
         WakeLocks, Waking
<1>4. CASE \E s \in Streams : StreamCall(s)
  BY <1>4 DEF StreamCall, MayStart, Flags, Alive, Unchanged, Handles, Opening, Lent, Awake,
         WakeLocks, Waking
<1>5. CASE \E s \in Streams : CloseStreamCall(s)
  BY <1>5 DEF CloseStreamCall, Quiet, Flags, Alive, Unchanged, Handles, Opening, Lent, Awake,
         WakeLocks, Waking
<1>6. CASE \E s \in Streams : OpenStreamCall(s)
  BY <1>6 DEF OpenStreamCall, Quiet, threadVars, Flags, Alive, Unchanged, Handles, Opening,
         Lent, Awake, WakeLocks, Waking
<1> QED BY <1>1, <1>2, <1>3, <1>4, <1>5, <1>6 DEF Start

LEMMA StreamsStep ==
    ASSUME Control, StreamInv, Awake, TypeOK', [Next]_vars
    PROVE  (StreamInv /\ Awake)'
<1>1. CASE Start
  BY <1>1, StartStreams
<1>2. CASE \E t \in Threads : Continue(t)
  <2>1. PICK t \in Threads : Continue(t)
    BY <1>2
  <2>2. CASE DestroyStep(t)
    BY <2>2, DestroyStreams
  <2>3. CASE WriteStep \/ ReadStep \/ ModeStep
    BY <2>3, WriteStreams, ReadStreams, ModeStreams
  <2>4. CASE \E s \in Streams : StreamStep(s)
    BY <2>4, StreamStreams
  <2>5. CASE Drop("close", "c_drop")
    BY <2>5 DEF Drop, Control, Pointers, TypeOK, Goes, Points, Threads, Streams, LastRef,
                StreamInv, Flags, Alive, Unchanged, Handles, Lent, Opening, Awake, WakeLocks,
                Waking, streamVars
  <2> QED BY <2>1, <2>2, <2>3, <2>4, <2>5 DEF Continue, Streams
<1>3. CASE UNCHANGED vars
  BY <1>3 DEF vars, threadVars, streamVars, hwVars, deviceVars, Control, TypeOK, StreamInv, Flags, Alive, Unchanged, Handles, Lent, Opening, Awake, WakeLocks, Waking
<1> QED BY <1>1, <1>2, <1>3 DEF Next

-----------------------------------------------------------------------------
(* The open counts of the shared devices.                                  *)

LEMMA OpenCount ==
    ASSUME NEW d \in Devices, NEW n \in Nat, HeldBy(d, n), NEW ok \in BOOLEAN
    PROVE  /\ HeldBy(Open(d, TRUE), n + 1)
           /\ HeldBy(Open(d, ok), n + Bit(Open(d, ok).open))
BY DEF HeldBy, Open, Device, Bit, Devices

LEMMA CloseCount ==
    ASSUME NEW d \in Devices, NEW n \in Nat, HeldBy(d, n), NEW b \in BOOLEAN, b => n > 0
    PROVE  HeldBy(IF b THEN Close(d) ELSE d, n - Bit(b))
BY DEF HeldBy, Close, Device, Bit, Devices
\* n counts the other holders of d.
LEMMA WithoutCount ==
    ASSUME TypeOK, NEW d \in Devices, NEW S \in SUBSET Streams, NEW n \in Nat
    PROVE  /\ HeldBy(d, Bit(strPcm["out"]) + n) =>
                HeldBy(PcmWithout(d, S), Bit(strPcm["out"] /\ "out" \notin S) + n)
           /\ HeldBy(d, Bit(strMixer["out"]) + Bit(strMixer["in"]) + n) =>
                HeldBy(MixerWithout(d, S), Bit(strMixer["out"] /\ "out" \notin S)
                                             + Bit(strMixer["in"] /\ "in" \notin S) + n)
<1> DEFINE a == "out" \in S /\ strMixer["out"]
           b == "in" \in S /\ strMixer["in"]
           c == "out" \in S /\ strPcm["out"]
           o == IF a THEN Close(d) ELSE d
<1>0. /\ a \in BOOLEAN /\ b \in BOOLEAN /\ c \in BOOLEAN
      /\ strPcm["out"] \in BOOLEAN /\ strMixer["out"] \in BOOLEAN /\ strMixer["in"] \in BOOLEAN
  BY DEF TypeOK, Streams
<1>1. ASSUME HeldBy(d, Bit(strPcm["out"]) + n)
      PROVE  HeldBy(PcmWithout(d, S), Bit(strPcm["out"] /\ "out" \notin S) + n)
  <2>1. HeldBy(IF c THEN Close(d) ELSE d, Bit(strPcm["out"]) + n - Bit(c))
    BY <1>0, <1>1, CloseCount DEF Bit
  <2>2. Bit(strPcm["out"]) + n - Bit(c) = Bit(strPcm["out"] /\ "out" \notin S) + n
    BY <1>0 DEF Bit
  <2> QED BY <2>1, <2>2 DEF PcmWithout
<1>2. ASSUME HeldBy(d, Bit(strMixer["out"]) + Bit(strMixer["in"]) + n)
      PROVE  HeldBy(MixerWithout(d, S), Bit(strMixer["out"] /\ "out" \notin S)
                                             + Bit(strMixer["in"] /\ "in" \notin S) + n)
  <2> DEFINE k == Bit(strMixer["out"]) + Bit(strMixer["in"]) + n
  <2>1. k \in Nat /\ (a => k > 0) /\ (b => k - Bit(a) > 0) /\ k - Bit(a) \in Nat
    BY <1>0 DEF Bit
  <2>2. HeldBy(o, k - Bit(a)) /\ o \in Devices
    BY <1>0, <1>2, <2>1, CloseCount, DeviceTypes
  <2>3. HeldBy(IF b THEN Close(o) ELSE o, k - Bit(a) - Bit(b))
    <3> HIDE DEF o, a, b, k
    <3> QED BY <1>0, <2>1, <2>2, CloseCount
  <2>4. k - Bit(a) - Bit(b) = Bit(strMixer["out"] /\ "out" \notin S)
                                             + Bit(strMixer["in"] /\ "in" \notin S) + n
    BY <1>0 DEF Bit
  <2> QED BY <2>3, <2>4 DEF MixerWithout
<1> QED BY <1>1, <1>2

LEMMA CloseCounts ==
    ASSUME TypeOK, RefCounts, NEW S \in SUBSET Streams, CloseL(S), UNCHANGED mInCallAudioMode,
           \A s \in Streams : /\ strPcm'[s] = (strPcm[s] /\ s \notin S)
                              /\ strMixer'[s] = (strMixer[s] /\ s \notin S)
    PROVE  RefCounts'
<1> DEFINE n == Bit(mInCallAudioMode)
<1>1. n \in Nat /\ mPcm \in Devices /\ mMixer \in Devices
  BY DEF Bit, TypeOK
<1>2. HeldBy(mPcm', Bit(strPcm["out"] /\ "out" \notin S) + n)
  BY <1>1, WithoutCount DEF RefCounts, CloseL
<1>3. HeldBy(mMixer', Bit(strMixer["out"] /\ "out" \notin S) + Bit(strMixer["in"] /\ "in" \notin S) + n)
  BY <1>1, WithoutCount DEF RefCounts, CloseL
<1> QED BY <1>2, <1>3 DEF RefCounts, Streams

LEMMA StandbyCounts ==
    ASSUME TypeOK, RefCounts, NEW S \in SUBSET Streams, NEW t, GoStandby(t, S), CloseL(S),
           UNCHANGED mInCallAudioMode
    PROVE  RefCounts'
BY CloseCounts DEF GoStandby

LEMMA OpenCounts ==
    ASSUME TypeOK, TypeOK', RefCounts, NEW s \in Streams, NEW ok \in BOOLEAN, OpenStream(s, ok),
           ~strPcm[s], ~strMixer[s], UNCHANGED mInCallAudioMode
    PROVE  RefCounts'
<1> DEFINE n == Bit(mInCallAudioMode)
           other == IF s = "out" THEN "in" ELSE "out"
           m == Bit(strMixer[other]) + n
<1>1. n \in Nat /\ m \in Nat /\ mPcm \in Devices /\ mMixer \in Devices
  BY DEF Bit, TypeOK
<1>2. HeldBy(mPcm, Bit(strPcm["out"]) + n) /\ HeldBy(mMixer, m)
  BY DEF RefCounts, Bit, Streams
<1>3. HeldBy(mMixer', m + Bit(mMixer'.open))
  BY <1>1, <1>2, OpenCount DEF OpenStream
<1>4. /\ strMixer'[s] = mMixer'.open /\ strMixer'[other] = strMixer[other]
      /\ strPcm'[s] = TRUE /\ strPcm'[other] = strPcm[other]
  BY DEF OpenStream, TypeOK, Streams
<1>5. HeldBy(mMixer', Bit(strMixer'["out"]) + Bit(strMixer'["in"]) + n)
  BY <1>1, <1>3, <1>4 DEF Streams, Bit
<1>6. HeldBy(mPcm', Bit(strPcm'["out"]) + n)
  <2>1. CASE s = "out"
    <3>1. mPcm' = Open(mPcm, TRUE) /\ HeldBy(mPcm, n)
      BY <2>1, <1>2 DEF OpenStream, Bit
    <3>2. HeldBy(mPcm', n + 1)
      <4> HIDE DEF n
      <4> QED BY <3>1, <1>1, OpenCount
    <3>3. Bit(strPcm'["out"]) + n = n + 1
      BY <2>1, <1>1, <1>4 DEF Bit
    <3> QED BY <3>2, <3>3
  <2>2. CASE s = "in"
    BY <2>2, <1>2, <1>4 DEF OpenStream
  <2> QED BY <2>1, <2>2 DEF Streams
<1> QED BY <1>5, <1>6 DEF RefCounts

LEMMA CallCounts ==
    ASSUME TypeOK, RefCounts, "call" \notin Faults,
           \/ EnterCall /\ ~mInCallAudioMode
           \/ LeaveCall /\ mInCallAudioMode
    PROVE  RefCounts'
<1> DEFINE S == sp["mode"]
           p(n) == Bit(strPcm["out"] /\ "out" \notin S) + n
           m(n) == Bit(strMixer["out"] /\ "out" \notin S) + Bit(strMixer["in"] /\ "in" \notin S) + n
<1>1. S \in SUBSET Streams /\ mPcm \in Devices /\ mMixer \in Devices
  BY DEF TypeOK, Threads
<1>2. p(0) \in Nat /\ m(0) \in Nat /\ p(1) = p(0) + 1 /\ m(1) = m(0) + 1
  BY DEF Bit
<1>3. strPcm'["out"] = (strPcm["out"] /\ "out" \notin S)
      /\ strMixer'["out"] = (strMixer["out"] /\ "out" \notin S)
      /\ strMixer'["in"] = (strMixer["in"] /\ "in" \notin S)
  BY DEF EnterCall, LeaveCall, GoStandby, Streams
<1>4. CASE EnterCall /\ ~mInCallAudioMode
  <2>1. HeldBy(PcmWithout(mPcm, S), p(0)) /\ HeldBy(MixerWithout(mMixer, S), m(0))
    BY <1>1, <1>4, WithoutCount DEF RefCounts, Bit
  <2>2. mPcm' = Open(PcmWithout(mPcm, S), TRUE) /\ mMixer' = Open(MixerWithout(mMixer, S), TRUE)
    BY <1>4 DEF EnterCall, Outcomes
  <2>3. PcmWithout(mPcm, S) \in Devices /\ MixerWithout(mMixer, S) \in Devices
    BY <1>1, GiveBackTypes
  <2>4. HeldBy(mPcm', p(0) + 1) /\ HeldBy(mMixer', m(0) + 1)
    <3> HIDE DEF p, m
    <3> QED BY <1>2, <2>1, <2>2, <2>3, OpenCount
  <2>5. mInCallAudioMode'
    BY <1>4 DEF EnterCall
  <2> QED BY <1>2, <1>3, <2>4, <2>5 DEF RefCounts, Bit
<1>5. CASE LeaveCall /\ mInCallAudioMode
  <2> DEFINE a == Bit(strPcm["out"]) + 0
             b == Bit(strMixer["out"]) + Bit(strMixer["in"]) + 0
  <2>1. a \in Nat /\ b \in Nat /\ HeldBy(mPcm, a + 1) /\ HeldBy(mMixer, b + 1)
    BY <1>5 DEF RefCounts, Bit
  <2>2. HeldBy(Close(mPcm), a) /\ HeldBy(Close(mMixer), b)
    <3> HIDE DEF a, b
    <3> QED BY <1>1, <2>1 DEF HeldBy, Close, Device, Devices
  <2>3. HeldBy(PcmWithout(Close(mPcm), S), p(0)) /\ HeldBy(MixerWithout(Close(mMixer), S), m(0))
    BY <1>1, <2>2, WithoutCount, DeviceTypes
  <2>4. HeldBy(mPcm', p(0)) /\ HeldBy(mMixer', m(0)) /\ ~mInCallAudioMode'
    BY <1>5, <2>3 DEF LeaveCall
  <2> QED BY <1>3, <2>4 DEF RefCounts, Bit
<1> QED BY <1>4, <1>5

LEMMA SameCounts ==
    ASSUME RefCounts, UNCHANGED <<strPcm, strMixer, mPcm, mMixer, mInCallAudioMode>>
    PROVE  RefCounts'
BY DEF RefCounts

LEMMA RefCountsStep ==
    ASSUME Control, StreamInv, RefCounts, TypeOK', "call" \notin Faults, [Next]_vars
    PROVE  RefCounts'
<1> USE DEF streamVars, hwVars, deviceVars
<1>1. TypeOK /\ "in" \in Streams /\ "out" \in Streams /\ SUBSET Streams # {}
  BY DEF Control, Streams
<1>2. CASE Start
  BY <1>2, SameCounts DEF Start, WriteStart, ReadStart, ModeStart, StreamCall, CloseStreamCall,
     OpenStreamCall
<1>3. CASE WriteStep
  <2>1. CASE WriteMatch
    BY <2>1, <1>1, CloseCounts, ZenonT(60) DEF WriteMatch, CloseStream, TypeOK
  <2>2. CASE WriteOpen
    <3>1. ~strPcm["out"] /\ ~strMixer["out"]
      BY <2>2, <1>1 DEF WriteOpen, Goes, StreamInv, Handles, Flags, Opening, TypeOK
    <3> QED BY <2>2, <3>1, <1>1, OpenCounts, OutcomeTypes, SameCounts DEF WriteOpen
  <2>3. CASE WriteReopenIn
    <3>1. ~strPcm["in"] /\ ~strMixer["in"]
      BY <2>3, <1>1 DEF WriteReopenIn, Goes, StreamInv, Handles, Lent, Control, Pointers
    <3> QED BY <2>3, <3>1, <1>1, OpenCounts, StandbyCounts, OutcomeTypes DEF WriteReopenIn, Streams
  <2>4. CASE WriteWake \/ WriteLock \/ WriteHw \/ WriteLockIn \/ WriteRetry \/ WriteDone
    BY <2>4, SameCounts DEF WriteWake, WriteLock, WriteHw, WriteLockIn, WriteRetry, WriteDone
  <2> QED BY <1>3, <2>1, <2>2, <2>3, <2>4 DEF WriteStep
<1>4. CASE ReadStep
  <2>1. CASE ReadMatch
    BY <2>1, <1>1, CloseCounts, ZenonT(60) DEF ReadMatch, CloseStream, TypeOK
  <2>2. CASE ReadOpen
    <3>1. ~strPcm["in"] /\ ~strMixer["in"]
      BY <2>2, <1>1 DEF ReadOpen, Goes, StreamInv, Handles, Flags, Opening, TypeOK
    <3> QED BY <2>2, <3>1, <1>1, OpenCounts, OutcomeTypes, SameCounts DEF ReadOpen
  <2>3. CASE ReadReopenOut
    <3>1. ~strPcm["out"] /\ ~strMixer["out"]
      BY <2>3, <1>1 DEF ReadReopenOut, Goes, StreamInv, Handles, Lent
    <3> QED BY <2>3, <3>1, <1>1, OpenCounts, StandbyCounts, OutcomeTypes DEF ReadReopenOut, Streams
  <2>4. CASE ReadWake \/ ReadLock \/ ReadHw \/ ReadLockOut \/ ReadRelock \/ ReadRetry \/ ReadDone
    BY <2>4, SameCounts DEF ReadWake, ReadLock, ReadHw, ReadLockOut, ReadRelock, ReadRetry, ReadDone
  <2> QED BY <1>4, <2>1, <2>2, <2>3, <2>4 DEF ReadStep
<1>5. CASE \E s \in Streams : StreamStep(s)
  <2>1. PICK s \in Streams : StreamStep(s)
    BY <1>5
  <2>2. CASE Transfer(s) \/ StandbyLock(s) \/ SetParametersLock(s)
    BY <2>2, SameCounts DEF Transfer, StandbyLock, SetParametersLock
  <2>3. CASE StandbyHw(s)
    BY <2>3, <1>1, StandbyCounts DEF StandbyHw
  <2>4. CASE SetParametersHw(s)
    BY <2>4, <1>1, StandbyCounts, SameCounts DEF SetParametersHw
  <2> QED BY <2>1, <2>2, <2>3, <2>4 DEF StreamStep
<1>6. CASE ModeStep
  <2>1. CASE ModeApply
    BY <2>1, <1>1, CallCounts, SameCounts DEF ModeApply
  <2>2. CASE ModeHw \/ ModeLockOut \/ ModeRecheckOut \/ ModeLockIn \/ ModeRecheckIn
    BY <2>2, SameCounts DEF ModeHw, ModeLockOut, ModeRecheckOut, ModeLockIn, ModeRecheckIn
  <2>3. CASE Drop("mode", "m_drop")
    BY <2>3, SameCounts DEF Drop
  <2> QED BY <1>6, <2>1, <2>2, <2>3 DEF ModeStep
<1>7. CASE Drop("close", "c_drop")
  BY <1>7, SameCounts DEF Drop
<1>8. CASE \E t \in Threads : DestroyStep(t)
  <2>1. PICK t \in Threads : DestroyStep(t)
    BY <1>8
  <2>2. CASE DestroyLock(t)
    BY <2>2, SameCounts DEF DestroyLock
  <2>3. CASE DestroyHw(t)
    BY <2>3, <1>1, StandbyCounts DEF DestroyHw
  <2> QED BY <2>1, <2>2, <2>3 DEF DestroyStep
<1>9. CASE UNCHANGED vars
  BY <1>9, SameCounts DEF vars
<1> QED BY <1>2, <1>3, <1>4, <1>5, <1>6, <1>7, <1>8, <1>9 DEF Next, Continue, Streams

-----------------------------------------------------------------------------

LEMMA InitInv == Init => IInv
<1> SUFFICES ASSUME Init PROVE IInv
  OBVIOUS
<1> USE DEF Init
<1>1. TypeOK
  <2>1. Device(FALSE, 0) \in Devices
    BY DEF Device, Devices
  <2> QED BY <2>1 DEF TypeOK, Labels, Modes
<1>2. Owned /\ Pointers
  BY DEF Owned, Owns, Pointers, Threads, Streams
<1>3. Flags /\ Alive /\ Unchanged /\ Handles
  BY DEF Flags, Alive, Unchanged, Handles, Lent, Opening, Threads, Streams
<1>4. Awake
  BY DEF Awake, WakeLocks, Threads, Streams
<1>5. RefCounts
  BY DEF RefCounts, HeldBy, Device, Bit, Streams
<1> QED BY <1>1, <1>2, <1>3, <1>4, <1>5 DEF IInv, Control, StreamInv

\* When a call always gets its devices, IInv is an invariant: the mutexes, the pointers and
\* the flags a thread relies on in the middle of write(), read() and setMode() are as it
\* left them, whatever the other threads do.
THEOREM Inductive == ASSUME "call" \notin Faults PROVE Spec => []IInv
<1>1. IInv /\ [Next]_vars => IInv'
  <2> SUFFICES ASSUME IInv, [Next]_vars PROVE IInv'
    OBVIOUS
  <2>1. TypeOK'
    BY TypeStep DEF IInv, Control
  <2> QED BY <2>1, ControlStep, StreamsStep, RefCountsStep DEF IInv
<1> QED BY <1>1, InitInv, PTL DEF Spec

\* What the threads know of each other needs no such assumption.
THEOREM ThreadingInductive == Spec => []Threading
<1>1. Init => Threading
  BY InitInv DEF IInv, Threading
<1>2. Threading /\ [Next]_vars => Threading'
  <2> SUFFICES ASSUME Threading, [Next]_vars PROVE Threading'
    OBVIOUS
  <2>1. TypeOK'
    BY TypeStep DEF Threading, Control
  <2> QED BY <2>1, ControlStep, StreamsStep DEF Threading
<1> QED BY <1>1, <1>2, PTL DEF Spec

\* The open counts of the shared PCM and mixer are the number of their holders.
THEOREM CountsAreHolders == ASSUME "call" \notin Faults PROVE Spec => []RefCounts
<1>1. IInv => RefCounts
  BY DEF IInv
<1> QED BY <1>1, Inductive, PTL

\* A stream holds its PCM exactly when it is not in standby, as seen by whoever locks it,
\* and no transfer runs on a PCM that was closed under it.
THEOREM StandbyIsClosed == ASSUME "call" \notin Faults PROVE Spec => []StandbyMeansClosed
<1>1. IInv => StandbyMeansClosed
  <2> SUFFICES ASSUME IInv PROVE StandbyMeansClosed
    OBVIOUS
  <2> USE DEF IInv, Control, StreamInv, Owned, Owns, Pointers, Threads, Streams, Locks
  <2>1. \A s \in Streams : lock[s] = Free => /\ strPcm[s] = ~mStandby[s]
                                             /\ strMixer[s] => strPcm[s]
    <3>1. \A s \in Streams : lock[s] = Free => ~Lent(s) /\ ~Opening(s)
      BY DEF Lent, Opening, Free
    <3> QED BY <3>1 DEF Handles, TypeOK
  <2>2. pc["out"] = "w_pcm" => strPcm["out"] /\ mPcm.open
    <3> SUFFICES ASSUME pc["out"] = "w_pcm" PROVE strPcm["out"] /\ mPcm.open
      OBVIOUS
    <3>1. ~Lent("out")
      BY DEF Lent
    <3>2. strPcm["out"]
      BY <3>1 DEF Handles, Flags
    <3> QED BY <3>2 DEF RefCounts, HeldBy, Bit
  <2>3. pc["in"] = "r_pcm" => strPcm["in"]
    BY DEF Lent, Handles, Flags
  <2> QED BY <2>1, <2>2, <2>3 DEF StandbyMeansClosed
<1> QED BY <1>1, Inductive, PTL

\* A stream's kernel wake lock is neither leaked nor dropped early.
THEOREM WakeLocksBalance == Spec => []WakeLocks
<1>1. Threading => WakeLocks
  BY DEF Threading, Awake
<1> QED BY <1>1, ThreadingInductive, PTL

\* Where the search for the active streams ends, a stream that is kept is locked, active and,
\* in write() and read(), closed.
THEOREM KeptStreams == Spec => []KeptStreamIsActive
<1>1. Threading => KeptStreamIsActive
  <2> SUFFICES ASSUME Threading PROVE KeptStreamIsActive
    OBVIOUS
  <2> USE DEF Threading, Control, StreamInv, TypeOK, Owned, Owns, Pointers, Threads, Streams, Locks
  <2>1. pc["mode"] = "m_apply" => \A s \in sp["mode"] : lock[s] = "mode" /\ ~mStandby[s]
    BY DEF Unchanged
  <2>2. pc["out"] \in {"w_open", "w_reopen"} =>
          \A s \in sp["out"] : lock[s] = "out" /\ ~mStandby[s] /\ ~strPcm[s]
    BY DEF Handles, Lent
  <2>3. pc["in"] = "r_reopen" =>
          \A s \in sp["in"] : lock[s] = "in" /\ ~mStandby[s] /\ ~strPcm[s]
    BY DEF Handles, Lent
  <2> QED BY <2>1, <2>2, <2>3 DEF KeptStreamIsActive
<1> QED BY <1>1, ThreadingInductive, PTL

\* Counts, handles, standby flags and wake locks agree, together.
THEOREM Accounts == ASSUME "call" \notin Faults PROVE Spec => []DevicesAccounted
<1>1. Spec => []RefCounts
  BY CountsAreHolders
<1>2. Spec => []StandbyMeansClosed
  BY StandbyIsClosed
<1>3. Spec => []WakeLocks
  BY WakeLocksBalance
<1>4. RefCounts /\ StandbyMeansClosed /\ WakeLocks => DevicesAccounted
  BY DEF DevicesAccounted
<1> QED BY <1>1, <1>2, <1>3, <1>4, PTL

-----------------------------------------------------------------------------
(* What holds when streams are closed only while no other call is under    *)
(* way: the mutexes are taken in their order, a stream is asked to sleep   *)
(* only for a waiting thread, and the output PCM opens before the capture  *)
(* PCM.                                                                    *)

LEMMA WriteOrder ==
    ASSUME ~CloseDuringCalls, Threading, OrderInv, TypeOK', WriteStep
    PROVE  OrderInv'
<1> USE DEF Threading, Control, StreamInv, TypeOK, Goes, Takes, Releases, Points, KeepsHw, LockStream,
            Threads, Streams, Locks, Free, streamVars, Owned, Owns, Pointers, OrderInv
<1>1. CASE WriteWake
  BY <1>1 DEF WriteWake, ClosesAlone, OwnsOnly, InputFirstClosed, SleepReqHasWaiter, Alive,
         Handles, Flags, Opening, Lent, LastRef, WaitsFor
<1>2. CASE WriteLock
  BY <1>2 DEF WriteLock, ClosesAlone, OwnsOnly, InputFirstClosed, SleepReqHasWaiter, Alive,
         Handles, Flags, Opening, Lent, LastRef, WaitsFor
<1>3. CASE WriteHw
  BY <1>3 DEF WriteHw, Active, PrepareLock, ClosesAlone, OwnsOnly, InputFirstClosed,
         SleepReqHasWaiter, Alive, Handles, Flags, Opening, Lent, LastRef, WaitsFor
<1>4. CASE WriteLockIn
  BY <1>4 DEF WriteLockIn, ClosesAlone, OwnsOnly, InputFirstClosed, SleepReqHasWaiter, Alive,
         Handles, Flags, Opening, Lent, LastRef, WaitsFor
<1>5. CASE WriteMatch
  BY <1>5 DEF WriteMatch, Active, CloseStream, ClosesAlone, OwnsOnly, InputFirstClosed,
         SleepReqHasWaiter, Alive, Handles, Flags, Opening, Lent, LastRef, WaitsFor
<1>6. CASE WriteRetry
  BY <1>6 DEF WriteRetry, Active, LastRef, PrepareLock, ClosesAlone, OwnsOnly, InputFirstClosed,
         SleepReqHasWaiter, Alive, Handles, Flags, Opening, Lent, WaitsFor
<1>7. CASE WriteOpen
  <2>o. \/ \E b \in BOOLEAN : OpenTo("out", b)
        \/ UNCHANGED <<strPcm, strMixer>>
    BY <1>7, OpenFacts DEF WriteOpen
  <2> QED BY <1>7, <2>o DEF WriteOpen, OpenTo, ClosesAlone, OwnsOnly, InputFirstClosed,
        SleepReqHasWaiter, Alive, Handles, Flags, Opening, Lent, LastRef, WaitsFor
<1>8. CASE WriteReopenIn
  <2>o. \/ (\E b \in BOOLEAN : OpenTo("in", b)) /\ UNCHANGED <<mStandby, wakeLock, cntSame>>
        \/ GoStandby("out", {"in"})
    BY <1>8, OpenFacts DEF WriteReopenIn
  <2> QED BY <1>8, <2>o DEF WriteReopenIn, GoStandby, OpenTo, ClosesAlone, OwnsOnly, InputFirstClosed,
        SleepReqHasWaiter, Alive, Handles, Flags, Opening, Lent, LastRef, WaitsFor
<1>9. CASE WriteDone
  BY <1>9 DEF WriteDone, ClosesAlone, OwnsOnly, InputFirstClosed, SleepReqHasWaiter, Alive,
         Handles, Flags, Opening, Lent, LastRef, WaitsFor
<1> QED BY <1>1, <1>2, <1>3, <1>4, <1>5, <1>6, <1>7, <1>8, <1>9 DEF WriteStep

LEMMA ReadOrder ==
    ASSUME ~CloseDuringCalls, Threading, OrderInv, TypeOK', ReadStep
    PROVE  OrderInv'
<1> USE DEF Threading, Control, StreamInv, TypeOK, Goes, Takes, Releases, Points, KeepsHw, LockStream,
            Threads, Streams, Locks, Free, streamVars, Owned, Owns, Pointers, OrderInv
<1>1. CASE ReadWake
  BY <1>1 DEF ReadWake, ClosesAlone, OwnsOnly, InputFirstClosed, SleepReqHasWaiter, Alive,
         Handles, Flags, Opening, Lent, LastRef, WaitsFor
<1>2. CASE ReadLock
  BY <1>2 DEF ReadLock, ClosesAlone, OwnsOnly, InputFirstClosed, SleepReqHasWaiter, Alive,
         Handles, Flags, Opening, Lent, LastRef, WaitsFor
<1>3. CASE ReadHw
  BY <1>3 DEF ReadHw, Active, PrepareLock, ClosesAlone, OwnsOnly, InputFirstClosed,
         SleepReqHasWaiter, Alive, Handles, Flags, Opening, Lent, LastRef, WaitsFor
<1>4. CASE ReadLockOut
  BY <1>4 DEF ReadLockOut, ClosesAlone, OwnsOnly, InputFirstClosed, SleepReqHasWaiter, Alive,
         Handles, Flags, Opening, Lent, LastRef, WaitsFor
<1>5. CASE ReadRelock
  BY <1>5 DEF ReadRelock, ClosesAlone, OwnsOnly, InputFirstClosed, SleepReqHasWaiter, Alive,
         Handles, Flags, Opening, Lent, LastRef, WaitsFor
<1>6. CASE ReadMatch
  BY <1>6 DEF ReadMatch, CloseStream, ClosesAlone, OwnsOnly, InputFirstClosed,
         SleepReqHasWaiter, Alive, Handles, Flags, Opening, Lent, LastRef, WaitsFor
<1>7. CASE ReadRetry
  BY <1>7 DEF ReadRetry, Active, LastRef, PrepareLock, ClosesAlone, OwnsOnly, InputFirstClosed,
         SleepReqHasWaiter, Alive, Handles, Flags, Opening, Lent, WaitsFor
<1>8. CASE ReadReopenOut
  <2>o. \/ (\E b \in BOOLEAN : OpenTo("out", b)) /\ UNCHANGED <<mStandby, wakeLock, cntSame>>
        \/ GoStandby("in", {"out"})
    BY <1>8, OpenFacts DEF ReadReopenOut
  <2> QED BY <1>8, <2>o, SMTT(40) DEF ReadReopenOut, GoStandby, OpenTo, ClosesAlone, OwnsOnly, InputFirstClosed,
        SleepReqHasWaiter, Alive, Handles, Flags, Opening, Lent, LastRef, WaitsFor
<1>9. CASE ReadOpen
  <2>o. \/ \E b \in BOOLEAN : OpenTo("in", b)
        \/ UNCHANGED <<strPcm, strMixer>>
    BY <1>9, OpenFacts DEF ReadOpen
  <2> QED BY <1>9, <2>o DEF ReadOpen, OpenTo, ClosesAlone, OwnsOnly, InputFirstClosed, SleepReqHasWaiter,
        Alive, Handles, Flags, Opening, Lent, LastRef, WaitsFor
<1>10. CASE ReadDone
  BY <1>10 DEF ReadDone, ClosesAlone, OwnsOnly, InputFirstClosed, SleepReqHasWaiter, Alive,
         Handles, Flags, Opening, Lent, LastRef, WaitsFor
<1> QED BY <1>1, <1>2, <1>3, <1>4, <1>5, <1>6, <1>7, <1>8, <1>9, <1>10 DEF ReadStep

LEMMA StreamOrder ==
    ASSUME ~CloseDuringCalls, Threading, OrderInv, TypeOK', NEW s \in Streams, StreamStep(s)
    PROVE  OrderInv'
<1> USE DEF Threading, Control, StreamInv, TypeOK, Goes, Takes, Releases, Points, KeepsHw, LockStream,
            Threads, Streams, Locks, Free, streamVars, Owned, Owns, Pointers, OrderInv
<1>1. CASE Transfer(s)
  BY <1>1, SMTT(40) DEF Transfer, ClosesAlone, OwnsOnly, InputFirstClosed, SleepReqHasWaiter, Alive,
         Handles, Flags, Opening, Lent, LastRef, WaitsFor
<1>2. CASE StandbyLock(s)
  BY <1>2 DEF StandbyLock, ClosesAlone, OwnsOnly, InputFirstClosed, SleepReqHasWaiter, Alive,
         Handles, Flags, Opening, Lent, LastRef, WaitsFor
<1>3. CASE StandbyHw(s)
  BY <1>3, SMTT(40) DEF StandbyHw, GoStandby, ClosesAlone, OwnsOnly, InputFirstClosed, SleepReqHasWaiter,
         Alive, Handles, Flags, Opening, Lent, LastRef, WaitsFor
<1>4. CASE SetParametersLock(s)
  BY <1>4, SMTT(40) DEF SetParametersLock, ClosesAlone, OwnsOnly, InputFirstClosed, SleepReqHasWaiter,
         Alive, Handles, Flags, Opening, Lent, LastRef, WaitsFor
<1>5. CASE SetParametersHw(s)
  BY <1>5, SMTT(40) DEF SetParametersHw, GoStandby, ClosesAlone, OwnsOnly, InputFirstClosed,
         SleepReqHasWaiter, Alive, Handles, Flags, Opening, Lent, LastRef, WaitsFor
<1> QED BY <1>1, <1>2, <1>3, <1>4, <1>5 DEF StreamStep

LEMMA ModeOrder ==
    ASSUME ~CloseDuringCalls, Threading, OrderInv, TypeOK', ModeStep
    PROVE  OrderInv'
<1> USE DEF Threading, Control, StreamInv, TypeOK, Goes, Takes, Releases, Points, KeepsHw, LockStream,
            Threads, Streams, Locks, Free, streamVars, Owned, Owns, Pointers, OrderInv
<1>1. CASE ModeHw
  BY <1>1 DEF ModeHw, ModeSeekOutput, ModeSeekInput, Active, PrepareLock, ClosesAlone, OwnsOnly,
         InputFirstClosed, SleepReqHasWaiter, Alive, Handles, Flags, Opening, Lent, LastRef,
         WaitsFor
<1>2. CASE ModeLockOut
  BY <1>2 DEF ModeLockOut, ClosesAlone, OwnsOnly, InputFirstClosed, SleepReqHasWaiter, Alive,
         Handles, Flags, Opening, Lent, LastRef, WaitsFor
<1>3. CASE ModeRecheckOut
  BY <1>3 DEF ModeRecheckOut, ModeSeekOutput, ModeSeekInput, Active, LastRef, PrepareLock,
         ClosesAlone, OwnsOnly, InputFirstClosed, SleepReqHasWaiter, Alive, Handles, Flags,
         Opening, Lent, WaitsFor
<1>4. CASE ModeLockIn
  BY <1>4 DEF ModeLockIn, ClosesAlone, OwnsOnly, InputFirstClosed, SleepReqHasWaiter, Alive,
         Handles, Flags, Opening, Lent, LastRef, WaitsFor
<1>5. CASE ModeRecheckIn
  BY <1>5 DEF ModeRecheckIn, ModeSeekInput, Active, LastRef, PrepareLock, ClosesAlone, OwnsOnly,
         InputFirstClosed, SleepReqHasWaiter, Alive, Handles, Flags, Opening, Lent, WaitsFor
<1>6. CASE ModeApply
  BY <1>6 DEF ModeApply, EnterCall, GoStandby, LeaveCall, ClosesAlone, OwnsOnly,
         InputFirstClosed, SleepReqHasWaiter, Alive, Handles, Flags, Opening, Lent, LastRef,
         WaitsFor
<1>7. CASE Drop("mode", "m_drop")
  BY <1>7 DEF Drop, LastRef, ClosesAlone, OwnsOnly, InputFirstClosed, SleepReqHasWaiter, Alive,
         Handles, Flags, Opening, Lent, WaitsFor
<1> QED BY <1>1, <1>2, <1>3, <1>4, <1>5, <1>6, <1>7 DEF ModeStep

LEMMA DestroyOrder ==
    ASSUME ~CloseDuringCalls, Threading, OrderInv, TypeOK', NEW t \in Threads, DestroyStep(t)
    PROVE  OrderInv'
<1> USE DEF Threading, Control, StreamInv, TypeOK, Goes, Takes, Releases, Points, KeepsHw, LockStream,
            Threads, Streams, Locks, Free, streamVars, Owned, Owns, Pointers, OrderInv
<1>1. CASE DestroyLock(t)
  BY <1>1 DEF DestroyLock, LastRef, ClosesAlone, OwnsOnly, InputFirstClosed, SleepReqHasWaiter,
         Alive, Handles, Flags, Opening, Lent, WaitsFor
<1>2. CASE DestroyHw(t)
  BY <1>2, SMTT(40) DEF DestroyHw, GoStandby, LastRef, ClosesAlone, OwnsOnly, InputFirstClosed,
         SleepReqHasWaiter, Alive, Handles, Flags, Opening, Lent, WaitsFor
<1> QED BY <1>1, <1>2 DEF DestroyStep

LEMMA StartOrder ==
    ASSUME ~CloseDuringCalls, Threading, OrderInv, TypeOK', Start
    PROVE  OrderInv'
<1> USE DEF Threading, Control, StreamInv, TypeOK, Goes, Takes, Releases, Points, KeepsHw, LockStream,
            Threads, Streams, Locks, Free, streamVars, Owned, Owns, Pointers, OrderInv
<1>1. CASE WriteStart
  BY <1>1 DEF WriteStart, MayStart, ClosesAlone, OwnsOnly, InputFirstClosed, SleepReqHasWaiter,
         Alive, Handles, Flags, Opening, Lent, LastRef, WaitsFor
<1>2. CASE ReadStart
  BY <1>2 DEF ReadStart, MayStart, ClosesAlone, OwnsOnly, InputFirstClosed, SleepReqHasWaiter,
         Alive, Handles, Flags, Opening, Lent, LastRef, WaitsFor
<1>3. CASE ModeStart
  BY <1>3 DEF ModeStart, MayStart, ClosesAlone, OwnsOnly, InputFirstClosed, SleepReqHasWaiter,
         Alive, Handles, Flags, Opening, Lent, LastRef, WaitsFor
<1>4. CASE \E s \in Streams : StreamCall(s)
  BY <1>4 DEF StreamCall, MayStart, ClosesAlone, OwnsOnly, InputFirstClosed, SleepReqHasWaiter,
         Alive, Handles, Flags, Opening, Lent, LastRef, WaitsFor
<1>5. CASE \E s \in Streams : CloseStreamCall(s)
  BY <1>5 DEF CloseStreamCall, Quiet, ClosesAlone, OwnsOnly, InputFirstClosed,
         SleepReqHasWaiter, Alive, Handles, Flags, Opening, Lent, LastRef, WaitsFor
<1>6. CASE \E s \in Streams : OpenStreamCall(s)
  BY <1>6 DEF OpenStreamCall, Quiet, threadVars, ClosesAlone, OwnsOnly, InputFirstClosed,
         SleepReqHasWaiter, Alive, Handles, Flags, Opening, Lent, LastRef, WaitsFor
<1> QED BY <1>1, <1>2, <1>3, <1>4, <1>5, <1>6 DEF Start

LEMMA OrderStep ==
    ASSUME ~CloseDuringCalls, Threading, OrderInv, TypeOK', [Next]_vars
    PROVE  OrderInv'
<1>1. CASE Start
  BY <1>1, StartOrder
<1>2. CASE \E t \in Threads : Continue(t)
  <2>1. PICK t \in Threads : Continue(t)
    BY <1>2
  <2>2. CASE DestroyStep(t)
    BY <2>2, DestroyOrder
  <2>3. CASE WriteStep \/ ReadStep \/ ModeStep
    BY <2>3, WriteOrder, ReadOrder, ModeOrder
  <2>4. CASE \E s \in Streams : StreamStep(s)
    BY <2>4, StreamOrder
  <2>5. CASE Drop("close", "c_drop")
    BY <2>5 DEF Drop, Threading, Control, Pointers, TypeOK, Goes, Points, Threads, Streams, Locks,
                LastRef, OrderInv, ClosesAlone, OwnsOnly, Owns, InputFirstClosed,
                SleepReqHasWaiter, WaitsFor, streamVars
  <2> QED BY <2>1, <2>2, <2>3, <2>4, <2>5 DEF Continue, Streams
<1>3. CASE UNCHANGED vars
  BY <1>3 DEF vars, threadVars, streamVars, OrderInv, ClosesAlone, OwnsOnly, Owns, InputFirstClosed,
              SleepReqHasWaiter, WaitsFor, LastRef
<1> QED BY <1>1, <1>2, <1>3 DEF Next

-----------------------------------------------------------------------------

\* Threading and OrderInv are invariants when streams are closed while nothing else is going
\* on.
THEOREM OrderInductive == ASSUME ~CloseDuringCalls PROVE Spec => [](Threading /\ OrderInv)
<1>1. Init => OrderInv
  BY DEF Init, OrderInv, ClosesAlone, OwnsOnly, InputFirstClosed, SleepReqHasWaiter, Threads,
         Streams, Locks, Free
<1>2. Init => Threading
  BY InitInv DEF IInv, Threading
<1>3. Threading /\ OrderInv /\ [Next]_vars => (Threading /\ OrderInv)'
  <2> SUFFICES ASSUME Threading, OrderInv, [Next]_vars PROVE Threading' /\ OrderInv'
    OBVIOUS
  <2>1. TypeOK'
    BY TypeStep DEF Threading, Control
  <2> QED BY <2>1, ControlStep, StreamsStep, OrderStep DEF Threading
<1> QED BY <1>1, <1>2, <1>3, PTL DEF Spec

\* "Mutex acquisition order is always out -> in -> hw": no thread waits for a mutex while it
\* holds one that comes after it.
THEOREM MutexOrder == ASSUME ~CloseDuringCalls PROVE Spec => []LockOrder
<1>1. Threading /\ OrderInv => LockOrder
  <2> SUFFICES ASSUME Threading, OrderInv, NEW t \in Threads, NEW l \in Locks, NEW k \in Locks,
                      WaitsFor(t, l), lock[k] = t
               PROVE  Rank[k] < Rank[l]
    BY DEF LockOrder
  <2>1. Owns(t, k) \/ (t = "close" /\ pc[t] = "d_hw" /\ k \in sp[t])
    BY DEF OrderInv, OwnsOnly
  <2>2. Rank["out"] = 1 /\ Rank["in"] = 2 /\ Rank["hw"] = 3
    BY DEF Rank
  <2>3. CASE l = "hw"
    BY <2>1, <2>2, <2>3 DEF WaitsFor, Owns, Locks, Streams, Threads, OrderInv, ClosesAlone, Threading,
                            Control, TypeOK
  <2>4. CASE l = "in"
    BY <2>1, <2>2, <2>4 DEF WaitsFor, Owns, Locks, Streams, Threads, OrderInv, ClosesAlone
  <2>5. CASE l = "out"
    BY <2>1, <2>2, <2>5 DEF WaitsFor, Owns, Locks, Streams, Threads, OrderInv, ClosesAlone
  <2> QED BY <2>3, <2>4, <2>5 DEF Locks, Streams
<1> QED BY <1>1, OrderInductive, PTL

\* A stream's thread is asked to sleep only while a thread that asked waits for its mutex.
THEOREM SleepRequests == ASSUME ~CloseDuringCalls PROVE Spec => []SleepReqHasWaiter
<1>1. OrderInv => SleepReqHasWaiter
  BY DEF OrderInv
<1> QED BY <1>1, OrderInductive, PTL

\* The streams' threads and the mode thread agree on a stream that one takes from another.
THEOREM Agreement == ASSUME ~CloseDuringCalls PROVE Spec => []Handshake
<1>1. Spec => []KeptStreamIsActive
  BY KeptStreams
<1>2. Spec => []SleepReqHasWaiter
  BY SleepRequests
<1>3. KeptStreamIsActive /\ SleepReqHasWaiter => Handshake
  BY DEF Handshake
<1> QED BY <1>1, <1>2, <1>3, PTL

-----------------------------------------------------------------------------
(* What a step may change, and with which mutexes.                         *)

\* Stream s is left as it is, or changed by thread t with its mutex and nobody else in hw's.
Kept(s) == mStandby'[s] = mStandby[s] /\ strPcm'[s] = strPcm[s] /\ strMixer'[s] = strMixer[s]
Guarded(t, s) == pc'[t] # pc[t] /\ lock[s] = t /\ lock["hw"] \in {t, Free}

\* Only the streams that are opened, or sent to standby, change.
LEMMA OthersKept ==
    ASSUME TypeOK, NEW t, NEW S \in SUBSET Streams, NEW s \in Streams, s \notin S,
           \/ GoStandby(t, S)
           \/ \E u \in S, ok \in BOOLEAN : OpenStream(u, ok) /\ mStandby' = mStandby
           \/ \E u \in S : CloseStream(u) /\ mStandby' = mStandby
    PROVE  Kept(s)
<1>1. CASE GoStandby(t, S)
  BY <1>1 DEF GoStandby, Kept, TypeOK
<1>2. ASSUME NEW u \in S, NEW ok \in BOOLEAN, OpenStream(u, ok), mStandby' = mStandby PROVE Kept(s)
  BY <1>2 DEF OpenStream, Kept, TypeOK
<1>3. ASSUME NEW u \in S, CloseStream(u), mStandby' = mStandby PROVE Kept(s)
  BY <1>3 DEF CloseStream, Kept, TypeOK
<1> QED BY <1>1, <1>2, <1>3

LEMMA WriteGuards ==
    ASSUME Threading, WriteStep, NEW s \in Streams
    PROVE  Kept(s) \/ Guarded("out", s)
<1> USE DEF Threading, Control, Goes, Threads, Streams, Locks, Free
<1>1. pc["out"] \in Labels /\ TypeOK
  BY DEF TypeOK
<1>2. CASE WriteWake \/ WriteLock \/ WriteHw \/ WriteLockIn \/ WriteRetry
  BY <1>2 DEF WriteWake, WriteLock, WriteHw, WriteLockIn, WriteRetry, streamVars, Kept
<1>3. CASE WriteMatch
  <2>1. lock["in"] = "out" /\ Guarded("out", "in")
    BY <1>1, <1>3 DEF WriteMatch, Takes, Owned, Owns, Guarded, TypeOK
  <2> QED BY <1>1, <1>3, <2>1, OthersKept DEF WriteMatch
<1>4. CASE WriteOpen
  <2>1. Guarded("out", "out")
    BY <1>1, <1>4 DEF WriteOpen, Owned, Owns, Guarded, TypeOK
  <2>2. \/ UNCHANGED <<mStandby, strPcm, strMixer>>
        \/ \E ok \in BOOLEAN : OpenStream("out", ok) /\ mStandby' = mStandby
    BY <1>4, OutcomeTypes DEF WriteOpen
  <2>3. CASE s = "in"
    BY <1>1, <2>2, <2>3, OthersKept DEF Kept
  <2> QED BY <2>1, <2>3
<1>5. CASE WriteReopenIn
  <2>1. Guarded("out", "in")
    BY <1>1, <1>5 DEF WriteReopenIn, Owned, Owns, Pointers, Guarded, TypeOK
  <2>2. \/ GoStandby("out", {"in"})
        \/ \E ok \in BOOLEAN : OpenStream("in", ok) /\ mStandby' = mStandby
    BY <1>5, OutcomeTypes DEF WriteReopenIn
  <2>3. CASE s = "out"
    BY <1>1, <2>2, <2>3, OthersKept
  <2> QED BY <2>1, <2>3
<1>6. CASE WriteDone
  <2>1. Guarded("out", "out")
    BY <1>1, <1>6 DEF WriteDone, Owned, Owns, Guarded, TypeOK
  <2>2. CASE s = "in"
    BY <1>1, <1>6, <2>2 DEF WriteDone, Kept, TypeOK
  <2> QED BY <2>1, <2>2
<1> QED BY <1>2, <1>3, <1>4, <1>5, <1>6 DEF WriteStep

LEMMA ReadGuards ==
    ASSUME Threading, ReadStep, NEW s \in Streams
    PROVE  Kept(s) \/ Guarded("in", s)
<1> USE DEF Threading, Control, Goes, Threads, Streams, Locks, Free
<1>1. pc["in"] \in Labels /\ TypeOK
  BY DEF TypeOK
<1>2. CASE ReadWake \/ ReadLock \/ ReadHw \/ ReadLockOut \/ ReadRelock \/ ReadRetry
  BY <1>2 DEF ReadWake, ReadLock, ReadHw, ReadLockOut, ReadRelock, ReadRetry, streamVars, Kept
<1>3. CASE ReadMatch
  <2>1. lock["out"] = "in" /\ Guarded("in", "out")
    BY <1>1, <1>3 DEF ReadMatch, Takes, Owned, Owns, Guarded, TypeOK
  <2> QED BY <1>1, <1>3, <2>1, OthersKept DEF ReadMatch
<1>4. CASE ReadReopenOut
  <2>1. Guarded("in", "out")
    BY <1>1, <1>4 DEF ReadReopenOut, Owned, Owns, Guarded, TypeOK
  <2>2. \/ GoStandby("in", {"out"})
        \/ \E ok \in BOOLEAN : OpenStream("out", ok) /\ mStandby' = mStandby
    BY <1>4, OutcomeTypes DEF ReadReopenOut
  <2>3. CASE s = "in"
    BY <1>1, <2>2, <2>3, OthersKept
  <2> QED BY <2>1, <2>3
<1>5. CASE ReadOpen
  <2>1. Guarded("in", "in")
    BY <1>1, <1>5 DEF ReadOpen, Owned, Owns, Guarded, TypeOK
  <2>2. \/ UNCHANGED <<mStandby, strPcm, strMixer>>
        \/ \E ok \in BOOLEAN : OpenStream("in", ok) /\ mStandby' = mStandby
    BY <1>5, OutcomeTypes DEF ReadOpen
  <2>3. CASE s = "out"
    BY <1>1, <2>2, <2>3, OthersKept DEF Kept
  <2> QED BY <2>1, <2>3
<1>6. CASE ReadDone
  <2>1. Guarded("in", "in")
    BY <1>1, <1>6 DEF ReadDone, Owned, Owns, Guarded, TypeOK
  <2>2. CASE s = "out"
    BY <1>1, <1>6, <2>2 DEF ReadDone, Kept, TypeOK
  <2> QED BY <2>1, <2>2
<1> QED BY <1>2, <1>3, <1>4, <1>5, <1>6 DEF ReadStep

LEMMA StreamGuards ==
    ASSUME Threading, NEW t \in Streams, StreamStep(t), NEW s \in Streams
    PROVE  Kept(s) \/ Guarded(t, s)
<1> USE DEF Threading, Control, Goes, Threads, Streams, Locks, Free
<1>1. TypeOK
  OBVIOUS
<1>2. CASE Transfer(t) \/ StandbyLock(t) \/ SetParametersLock(t)
  BY <1>2 DEF Transfer, StandbyLock, SetParametersLock, streamVars, Kept
<1>3. CASE StandbyHw(t)
  <2>1. Guarded(t, t)
    BY <1>1, <1>3 DEF StandbyHw, Owned, Owns, Guarded, TypeOK
  <2> QED BY <1>1, <1>3, <2>1, OthersKept DEF StandbyHw
<1>4. CASE SetParametersHw(t)
  <2>1. CASE UNCHANGED streamVars
    BY <2>1 DEF streamVars, Kept
  <2>2. CASE lock["hw"] = Free /\ GoStandby(t, {t})
    <3>1. Guarded(t, t)
      BY <1>1, <1>4, <2>2 DEF SetParametersHw, Owned, Owns, Guarded, TypeOK
    <3> QED BY <1>1, <2>2, <3>1, OthersKept
  <2> QED BY <1>4, <2>1, <2>2 DEF SetParametersHw
<1> QED BY <1>2, <1>3, <1>4 DEF StreamStep

LEMMA ModeGuards ==
    ASSUME Threading, ModeStep, NEW s \in Streams
    PROVE  Kept(s) \/ Guarded("mode", s)
<1> USE DEF Threading, Control, Goes, Threads, Streams, Locks, Free
<1>1. TypeOK
  OBVIOUS
<1>2. CASE ModeHw \/ ModeLockOut \/ ModeRecheckOut \/ ModeLockIn \/ ModeRecheckIn \/ Drop("mode", "m_drop")
  BY <1>2 DEF ModeHw, ModeLockOut, ModeRecheckOut, ModeLockIn, ModeRecheckIn, Drop, streamVars, Kept
<1>3. CASE ModeApply
  <2>1. UNCHANGED streamVars \/ GoStandby("mode", sp["mode"])
    BY <1>3 DEF ModeApply, EnterCall, LeaveCall
  <2>2. s \in sp["mode"] => Guarded("mode", s)
    BY <1>1, <1>3 DEF ModeApply, Owned, Owns, Guarded, TypeOK
  <2>3. sp["mode"] \in SUBSET Streams
    BY <1>1 DEF TypeOK
  <2> QED BY <1>1, <2>1, <2>2, <2>3, OthersKept DEF streamVars, Kept
<1> QED BY <1>2, <1>3 DEF ModeStep

LEMMA DestroyGuards ==
    ASSUME Threading, NEW t \in Threads, DestroyStep(t), NEW s \in Streams
    PROVE  Kept(s) \/ Guarded(t, s)
<1> USE DEF Threading, Control, Goes, Threads, Streams, Locks, Free
<1>1. TypeOK
  OBVIOUS
<1>2. CASE DestroyLock(t)
  BY <1>2 DEF DestroyLock, streamVars, Kept
<1>3. CASE DestroyHw(t)
  <2>1. PICK u \in Streams : lock[u] = t /\ GoStandby(t, {u})
    BY <1>3 DEF DestroyHw
  <2>2. Guarded(t, u)
    BY <1>1, <1>3, <2>1 DEF DestroyHw, Guarded, TypeOK
  <2> QED BY <1>1, <2>1, <2>2, OthersKept
<1> QED BY <1>2, <1>3 DEF DestroyStep

\* A stream is opened and closed by its class, but created by the framework: in standby, as
\* the one before it was left.
LEMMA StartGuards ==
    ASSUME Threading, Start, NEW s \in Streams
    PROVE  Kept(s)
<1>1. CASE WriteStart \/ ReadStart \/ ModeStart \/ \E u \in Streams : StreamCall(u) \/ CloseStreamCall(u)
  BY <1>1 DEF WriteStart, ReadStart, ModeStart, StreamCall, CloseStreamCall, streamVars, Kept
<1>2. ASSUME NEW u \in Streams, OpenStreamCall(u) PROVE Kept(s)
  <2>1. mStandby[u]
    BY <1>2 DEF OpenStreamCall, Threading, StreamInv, Alive
  <2>2. mStandby' = [mStandby EXCEPT ![u] = TRUE] /\ UNCHANGED <<strPcm, strMixer>>
    BY <1>2 DEF OpenStreamCall
  <2>3. mStandby' = mStandby
    BY <2>1, <2>2 DEF Threading, Control, TypeOK
  <2> QED BY <2>2, <2>3 DEF Kept
<1> QED BY <1>1, <1>2 DEF Start

\* A stream's standby flag and its handles change only under its mutex and hw's, whoever
\* changes them and whatever the drivers refuse.
THEOREM StateIsLocked == Spec => StateChangesLocked
<1>1. Threading /\ [Next]_vars =>
        \/ \A s \in Streams :
             <<mStandby[s], strPcm[s], strMixer[s]>>' # <<mStandby[s], strPcm[s], strMixer[s]>> =>
                \E t \in Threads : /\ pc'[t] # pc[t]
                                   /\ lock[s] = t
                                   /\ lock["hw"] \in {t, Free}
        \/ UNCHANGED vars
  <2> SUFFICES ASSUME Threading, Next, NEW s \in Streams,
                      <<mStandby[s], strPcm[s], strMixer[s]>>' # <<mStandby[s], strPcm[s], strMixer[s]>>
               PROVE  \E t \in Threads : Guarded(t, s)
    BY DEF Guarded
  <2>1. ~Kept(s)
    BY DEF Kept
  <2>2. "out" \in Threads /\ "in" \in Threads /\ "mode" \in Threads
        /\ "out" \in Streams /\ "in" \in Streams /\ Streams \subseteq Threads
    BY DEF Threads, Streams
  <2>3. ~Start
    BY <2>1, StartGuards
  <2>4. PICK t \in Threads : Continue(t)
    BY <2>3 DEF Next
  <2>5. CASE t = "out" /\ (WriteStep \/ StreamStep("out"))
    BY <2>1, <2>2, <2>5, WriteGuards, StreamGuards
  <2>6. CASE t = "in" /\ (ReadStep \/ StreamStep("in"))
    BY <2>1, <2>2, <2>6, ReadGuards, StreamGuards
  <2>7. CASE t = "mode" /\ ModeStep
    BY <2>1, <2>2, <2>7, ModeGuards
  <2>8. CASE DestroyStep(t)
    BY <2>1, <2>8, DestroyGuards
  <2>9. CASE Drop("close", "c_drop")
    BY <2>1, <2>9 DEF Drop, streamVars, Kept
  <2> QED BY <2>4, <2>5, <2>6, <2>7, <2>8, <2>9 DEF Continue
<1> QED BY <1>1, ThreadingInductive, PTL DEF Spec, StateChangesLocked

-----------------------------------------------------------------------------
(* The order in which the PCMs are opened.                                 *)

\* What lets go of the output PCM does not open it.
LEMMA NoneOpens ==
    ASSUME NEW d, NEW S
    PROVE  /\ Close(d).open => d.open
           /\ PcmWithout(d, S).open => d.open
           /\ PcmWithout(Close(d), S).open => d.open
<1>1. \A e : Close(e).open => e.open
  BY DEF Close, Device
<1>2. \A e : PcmWithout(e, S).open => e.open
  BY <1>1 DEF PcmWithout
<1> QED BY <1>1, <1>2

LEMMA ContinueOrdered ==
    ASSUME Threading, OrderInv, NEW t \in Threads, Continue(t), ~mPcm.open, mPcm'.open
    PROVE  ~strPcm'["in"]
<1> USE DEF hwVars, deviceVars
<1>1. CASE WriteOpen
  <2>1. ~strPcm["in"]
    BY <1>1 DEF WriteOpen, Goes, OrderInv, InputFirstClosed
  <2>2. strPcm' = strPcm \/ strPcm' = [strPcm EXCEPT !["out"] = TRUE]
    BY <1>1 DEF WriteOpen, OpenStream
  <2> QED BY <2>1, <2>2 DEF Threading, Control, TypeOK, Streams
<1>2. CASE WriteReopenIn
  BY <1>2, NoneOpens DEF WriteReopenIn, OpenStream, CloseL
<1>3. CASE ReadReopenOut
  <2>1. mStandby["in"] /\ ~Opening("in")
    BY <1>3 DEF ReadReopenOut, Goes, Threading, StreamInv, Flags, Opening
  <2>2. ~strPcm["in"]
    BY <2>1 DEF Threading, StreamInv, Handles, Streams
  <2>3. CASE GoStandby("in", {"out"})
    BY <2>2, <2>3 DEF GoStandby, Streams
  <2>4. CASE strPcm' = [strPcm EXCEPT !["out"] = TRUE]
    BY <2>2, <2>4 DEF Threading, Control, TypeOK, Streams
  <2> QED BY <1>3, <2>3, <2>4 DEF ReadReopenOut, OpenStream
<1>4. CASE ReadOpen
  BY <1>4 DEF ReadOpen, OpenStream
<1>5. CASE ModeApply
  <2>1. strPcm["in"] => "in" \in sp["mode"]
    BY <1>5 DEF ModeApply, Goes, OrderInv, InputFirstClosed
  <2>2. CASE GoStandby("mode", sp["mode"])
    BY <2>1, <2>2 DEF GoStandby, Streams
  <2>3. CASE UNCHANGED deviceVars
    BY <2>3
  <2> QED BY <1>5, <2>2, <2>3 DEF ModeApply, EnterCall, LeaveCall
<1>6. CASE WriteStep
  BY <1>1, <1>2, <1>6, NoneOpens DEF WriteStep, WriteWake, WriteLock, WriteHw, WriteLockIn, WriteMatch,
         WriteRetry, WriteDone, CloseStream, CloseL
<1>7. CASE ReadStep
  BY <1>3, <1>4, <1>7, NoneOpens DEF ReadStep, ReadWake, ReadLock, ReadHw, ReadLockOut, ReadRelock,
         ReadMatch, ReadRetry, ReadDone, CloseStream, CloseL
<1>8. ASSUME NEW s \in Streams, StreamStep(s) PROVE ~strPcm'["in"]
  BY <1>8, NoneOpens DEF StreamStep, Transfer, StandbyLock, StandbyHw, SetParametersLock, SetParametersHw,
         CloseL
<1>9. CASE ModeStep
  BY <1>5, <1>9 DEF ModeStep, ModeHw, ModeLockOut, ModeRecheckOut, ModeLockIn, ModeRecheckIn, Drop
<1>10. CASE DestroyStep(t) \/ Drop("close", "c_drop")
  BY <1>10, NoneOpens DEF DestroyStep, DestroyLock, DestroyHw, Drop, CloseL
<1> QED BY <1>6, <1>7, <1>8, <1>9, <1>10 DEF Continue, Streams

\* "open output before input": nobody opens the output PCM while the capture PCM is open,
\* when streams are closed only while nothing else is going on.
THEOREM OutputFirst == ASSUME ~CloseDuringCalls PROVE Spec => OutputBeforeInput
<1>1. Threading /\ OrderInv /\ [Next]_vars =>
          (~mPcm.open /\ mPcm'.open => ~strPcm["in"]') \/ UNCHANGED vars
  <2> SUFFICES ASSUME Threading, OrderInv, Next, ~mPcm.open, mPcm'.open
               PROVE  ~strPcm'["in"]
    OBVIOUS
  <2>1. ~Start
    BY DEF Start, WriteStart, ReadStart, ModeStart, StreamCall, CloseStreamCall, OpenStreamCall,
           hwVars, deviceVars
  <2> QED BY <2>1, ContinueOrdered DEF Next
<1> QED BY <1>1, OrderInductive, PTL DEF Spec, OutputBeforeInput

\* Leaving a call gives back what entering it took, when the drivers never refuse a call
\* its devices: the one case in which it does not (run call_fault) is that they do.
THEOREM CallsGiveBack == ASSUME "call" \notin Faults PROVE Spec => CallGivesBackItsOwn
<1>1. IInv /\ [Next]_vars =>
        \/ mInCallAudioMode /\ ~mInCallAudioMode' =>
             mPcm.cnt > Bit(strPcm["out"]) /\ mMixer.cnt > Bit(strMixer["out"]) + Bit(strMixer["in"])
        \/ UNCHANGED vars
  <2> SUFFICES ASSUME IInv, mInCallAudioMode
               PROVE  mPcm.cnt > Bit(strPcm["out"]) /\ mMixer.cnt > Bit(strMixer["out"]) + Bit(strMixer["in"])
    OBVIOUS
  <2>1. /\ mPcm.cnt = Bit(strPcm["out"]) + Bit(mInCallAudioMode)
        /\ mMixer.cnt = Bit(strMixer["out"]) + Bit(strMixer["in"]) + Bit(mInCallAudioMode)
    BY DEF IInv, RefCounts, HeldBy
  <2>2. \A d \in {0, 1}, e \in {0, 1} : d + 1 > d /\ d + e + 1 > d + e
    OBVIOUS
  <2>3. /\ mPcm.cnt = Bit(strPcm["out"]) + 1
        /\ mMixer.cnt = Bit(strMixer["out"]) + Bit(strMixer["in"]) + 1
    BY <2>1 DEF Bit
  <2>4. /\ Bit(strPcm["out"]) \in {0, 1}
        /\ Bit(strMixer["out"]) \in {0, 1} /\ Bit(strMixer["in"]) \in {0, 1}
    BY DEF Bit
  <2> HIDE DEF Bit
  <2> QED BY ONLY <2>2, <2>3, <2>4
<1> QED BY <1>1, Inductive, PTL DEF Spec, CallGivesBackItsOwn

=============================================================================
