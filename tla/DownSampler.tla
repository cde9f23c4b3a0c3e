---------------------------- MODULE DownSampler ----------------------------
(***************************************************************************)
(* The capture path of libaudio/AudioHardware.cpp behind the PCM: what     *)
(* AudioStreamInALSA::read does with the periods it captures.  The client  *)
(* asks for a rate and a number of channels; a period of 44.1 kHz stereo   *)
(* frames is kept in mPcmIn and handed out in pieces (getNextBuffer,       *)
(* releaseBuffer), to the DownSampler through the ChannelMixer, or to the  *)
(* ChannelMixer alone.  Each filter keeps the samples it could not use in  *)
(* its buffer, in front of those of the next call.                         *)
(*                                                                         *)
(* Samples are counted, not computed: left and right always move together. *)
(* A step is one call of the PCM, that is one round of the loop of         *)
(* resample or mix.                                                        *)
(***************************************************************************)
EXTENDS Naturals

CONSTANTS
    Period,      \* AUDIO_HW_IN_PERIOD_SZ: frames of a period and of each buffer
    Rates,       \* the sample rates clients ask for
    MaxPeriods   \* bound: periods captured between two openings

\* A buffer holds what the filter to 320 of 441 samples keeps, at most 463, and
\* half a period.
PeriodAssumption == Period \in Nat /\ Period > 906
BoundAssumption == MaxPeriods \in Nat

inputSamplingRates == {8000, 11025, 16000, 22050, 44100}
RatesAssumption == Rates \subseteq Nat

Gap(a, b) == IF a < b THEN b - a ELSE a - b

\* getInputSampleRate: the list, in order, until the gap grows.
NextRate == [r \in inputSamplingRates |->
    CASE r = 8000 -> 11025 [] r = 11025 -> 16000 [] r = 16000 -> 22050 [] OTHER -> 44100]

\* Mutant: the next rate below.
InputSampleRateBelow(want) ==
    CHOOSE r \in inputSamplingRates :
        /\ r <= want \/ r = 8000
        /\ \A q \in inputSamplingRates : q <= want => q <= r

InputSampleRate(want) ==
    CHOOSE r \in inputSamplingRates :
        /\ \A q \in inputSamplingRates : q < r => Gap(want, NextRate[q]) <= Gap(want, q)
        /\ r = 44100 \/ Gap(want, NextRate[r]) > Gap(want, r)

\* getBufferSize: the frames a client reads at a time.
BufferFrames(rate) ==
    Period \div (CASE rate \in {8000, 11025} -> 4 [] rate \in {16000, 22050} -> 2 [] OTHER -> 1)

-----------------------------------------------------------------------------
(* The two filters.  Of n samples in its buffer a filter uses some, in     *)
(* front, makes made(n) new ones of them and keeps left(n), which it moves *)
(* to the front.                                                           *)

NUM_COEFF_22KHZ == 20
OVERLAP_22KHZ == NUM_COEFF_22KHZ - 2
OVERLAP_16KHZ == 23

\* Mutant: an odd sample at the end is forgotten.
resample_2_1_drops(n) ==
    IF n < NUM_COEFF_22KHZ THEN [left |-> n, made |-> 0]
    ELSE [left |-> OVERLAP_22KHZ, made |-> (n - OVERLAP_22KHZ) \div 2]

resample_2_1(n) ==
    LET odd  == n % 2
        used == n - odd - OVERLAP_22KHZ
    IN  IF n < NUM_COEFF_22KHZ THEN [left |-> n, made |-> 0]
        ELSE [left |-> OVERLAP_22KHZ + odd, made |-> used \div 2]

\* num_blocks is computed unsigned: of fewer samples than the overlap it would
\* be 9739154, and the filter would run far past the end of its buffers.
Beyond(n) == [left |-> n, made |-> Period + 1]

\* Mutant: the overlap is not kept.
resample_441_320_all(n) == [left |-> n % 441, made |-> 320 * (n \div 441)]

resample_441_320(n) ==
    LET blocks == (n - OVERLAP_16KHZ) \div 441
    IN  IF n < OVERLAP_16KHZ THEN Beyond(n)
        ELSE [left |-> n - 441 * blocks, made |-> 320 * blocks]

VARIABLES
    rate, channels,             \* mSampleRate, mChannelCount
    pc,                         \* "standby", "idle", "pull" (in a call of read)
    mInPcmInBuf,                \* frames left in mPcmIn
    in,                         \* mInInBuf, mInTmpBuf, mInTmp2Buf: samples kept
    mOutBufPos, mInOutBuf,      \* the part of the last output not delivered yet
    remaining,                  \* frames the call still owes its client
    extent,                     \* history: how far the last round filled each buffer
    captured, got, delivered,   \* history, since the opening: frames read from the
                                \* PCM, taken from mPcmIn, given to the client
    outBase                     \* history: number of the first sample in the output

clientVars == <<rate, channels>>
filterVars == <<in, mOutBufPos, mInOutBuf, extent, outBase>>
vars == <<clientVars, pc, mInPcmInBuf, filterVars, remaining, captured, got, delivered>>

\* set: which objects stand between the PCM and the client.
HasDownSampler == rate # 44100
HasChannelMixer == channels = 1

Nothing == [in |-> 0, tmp |-> 0, tmp2 |-> 0]

\* The counters of the DownSampler are not initialised by its constructor: it
\* is reset at the opening of the PCM, before its first use.
Init ==
    /\ rate \in {InputSampleRate(r) : r \in Rates}
    /\ channels \in {1, 2}
    /\ pc = "standby"
    /\ mInPcmInBuf = 0
    /\ in = Nothing /\ extent = [tmp |-> 0, tmp2 |-> 0, out |-> 0]
    /\ mOutBufPos = 0 /\ mInOutBuf = 0 /\ outBase = 0
    /\ remaining = 0 /\ captured = 0 /\ got = 0 /\ delivered = 0

\* Mutant: what the second filter kept survives.
ResetKeepsTmp2 == in' = [Nothing EXCEPT !.tmp2 = in.tmp2] /\ mOutBufPos' = 0 /\ mInOutBuf' = 0

\* DownSampler::reset
Reset == in' = Nothing /\ mOutBufPos' = 0 /\ mInOutBuf' = 0

\* open_l, on the first read after standby.
OpenIn ==
    /\ pc = "standby" /\ pc' = "idle"
    /\ IF HasDownSampler THEN mInPcmInBuf' = 0 /\ Reset
       ELSE UNCHANGED <<mInPcmInBuf, in, mOutBufPos, mInOutBuf>>
    /\ captured' = 0 /\ got' = 0 /\ delivered' = 0 /\ outBase' = 0
    /\ UNCHANGED <<clientVars, remaining, extent>>

\* standby, between two reads or after an error.
Standby ==
    /\ pc = "idle" /\ pc' = "standby"
    /\ UNCHANGED <<clientVars, mInPcmInBuf, filterVars, remaining, captured, got, delivered>>

Least(a, b) == IF a < b THEN a ELSE b

\* Mutant: the position in the output is not moved on.
StartReadKeepsPos ==
    LET old == IF HasDownSampler THEN Least(BufferFrames(rate), mInOutBuf) ELSE 0
    IN  /\ pc = "idle"
        /\ mInOutBuf' = mInOutBuf - old
        /\ delivered' = delivered + old
        /\ remaining' = BufferFrames(rate) - old
        /\ pc' = IF BufferFrames(rate) = old THEN "idle" ELSE "pull"
        /\ UNCHANGED <<clientVars, mInPcmInBuf, in, mOutBufPos, extent, outBase, captured, got>>

\* The beginning of resample: first the samples the last call made too many.
StartRead ==
    LET frames == BufferFrames(rate)
        old    == IF HasDownSampler THEN Least(frames, mInOutBuf) ELSE 0
    IN  /\ pc = "idle"
        /\ mInOutBuf' = mInOutBuf - old
        /\ mOutBufPos' = mOutBufPos + old
        /\ delivered' = delivered + old
        /\ remaining' = frames - old
        /\ pc' = IF frames = old THEN "idle" ELSE "pull"
        /\ UNCHANGED <<clientVars, mInPcmInBuf, in, extent, outBase, captured, got>>

\* getNextBuffer and releaseBuffer of k frames, of which the PCM reads a
\* period when none is left; the ChannelMixer passes them on.
Take(k) ==
    /\ captured' = IF mInPcmInBuf = 0 THEN captured + Period ELSE captured
    /\ mInPcmInBuf' = (IF mInPcmInBuf = 0 THEN Period ELSE mInPcmInBuf) - k
    /\ got' = got + k

Available(k) == Least(k, IF mInPcmInBuf = 0 THEN Period ELSE mInPcmInBuf)
Bounded == mInPcmInBuf = 0 => captured < MaxPeriods * Period

\* What one round of the loop of resample makes of n samples in mInLeft: the
\* samples each buffer keeps, how far each was filled, the samples made.
Round(n) ==
    LET one   == resample_2_1(n)
        tmp   == in.tmp + one.made
        two   == resample_2_1(tmp)
        tmp2  == in.tmp2 + two.made
        at16  == resample_441_320(tmp)
        at8   == resample_441_320(tmp2)
        R(t, t2, x2, x, m) == [in |-> [in |-> one.left, tmp |-> t, tmp2 |-> t2],
                               extent |-> [tmp |-> tmp, tmp2 |-> x2, out |-> x], made |-> m]
    IN  CASE rate = 22050 -> R(0, in.tmp2, 0, 0, one.made)
          [] rate = 11025 -> R(two.left, 0, tmp2, 0, two.made)
          [] rate = 8000  -> R(two.left, at8.left, tmp2, at8.made, at8.made)
          [] OTHER        -> R(at16.left, in.tmp2, at16.made, 0, at16.made)

\* A round of the loop of DownSampler::resample.
Resample ==
    LET k     == Available(Period - in.in)
        round == Round(in.in + k)
        given == Least(remaining, round.made)
    IN  /\ pc = "pull" /\ HasDownSampler /\ Bounded
        /\ Take(k)
        /\ in' = round.in /\ extent' = round.extent
        /\ outBase' = outBase + mOutBufPos + mInOutBuf
        /\ mOutBufPos' = given
        /\ mInOutBuf' = round.made - given
        /\ delivered' = delivered + given
        /\ remaining' = remaining - given
        /\ pc' = IF remaining = given THEN "idle" ELSE "pull"
        /\ UNCHANGED clientVars

\* A round of the loop of ChannelMixer::mix; without a mixer, the pcm_read of
\* read, which goes to the client's buffer and takes a whole period.
Mix ==
    LET k == Available(remaining)
    IN  /\ pc = "pull" /\ ~HasDownSampler /\ Bounded
        /\ IF HasChannelMixer THEN Take(k)
           ELSE captured' = captured + k /\ got' = got + k /\ UNCHANGED mInPcmInBuf
        /\ delivered' = delivered + k
        /\ remaining' = remaining - k
        /\ pc' = IF remaining = k THEN "idle" ELSE "pull"
        /\ UNCHANGED <<clientVars, filterVars>>

\* pcm_read fails: read returns the error and puts the stream into standby.
ReadFails ==
    /\ pc = "pull" /\ (HasDownSampler \/ HasChannelMixer => mInPcmInBuf = 0)
    /\ pc' = "standby" /\ remaining' = 0
    /\ UNCHANGED <<clientVars, mInPcmInBuf, filterVars, captured, got, delivered>>

Next == OpenIn \/ Standby \/ StartRead \/ Resample \/ Mix \/ ReadFails

Spec == Init /\ [][Next]_vars

-----------------------------------------------------------------------------
(* One run of each filter over the n samples of a recording.               *)

Halved(n) == IF n < NUM_COEFF_22KHZ THEN 0 ELSE (n - OVERLAP_22KHZ) \div 2
Blocks(n) == IF n < OVERLAP_16KHZ THEN 0 ELSE (n - OVERLAP_16KHZ) \div 441
To320(n) == 320 * Blocks(n)

Ideal(n) ==
    CASE rate = 22050 -> Halved(n)
      [] rate = 11025 -> Halved(Halved(n))
      [] rate = 8000  -> To320(Halved(Halved(n)))
      [] rate = 16000 -> To320(Halved(n))
      [] OTHER        -> n

\* However a recording is cut into periods, rounds and reads, the samples the
\* client has got, and those waiting for it, are as many as one run of the
\* filters over all of it makes; it gets them in order, without a gap or a
\* repetition, and none of a recording from before the last opening.
CaptureIsContinuous ==
    pc # "standby" =>
        /\ channels = 1 \/ HasDownSampler => captured = got + mInPcmInBuf
        /\ delivered + mInOutBuf = Ideal(got)
        /\ HasDownSampler => delivered = outBase + mOutBufPos

\* No round writes past the end of a buffer of mFrameCount samples, nor asks
\* the PCM for no frame at all, which the loop would do for ever.
BuffersHold ==
    /\ extent.tmp <= Period /\ extent.tmp2 <= Period /\ extent.out <= Period
    /\ in.in < Period

\* The rate a client is offered is one of those nearest to what it asked for.
NearestRate ==
    \A asked \in Rates : \A q \in inputSamplingRates :
        Gap(asked, InputSampleRate(asked)) <= Gap(asked, q)

\* The inductive invariant.  What a filter keeps is what one run of it over all
\* its samples would not have used; the first round of a recording has a whole
\* period, so that no filter is short of samples; a call that reads on has been
\* given what was there; and without a filter nothing is left over.
Kept ==
    LET one == Halved(got)
        two == Halved(one)
    IN  /\ in.in = got - 2 * one
        /\ rate \in {11025, 8000} => in.tmp = one - 2 * two
        /\ rate = 16000 => in.tmp = one - 441 * Blocks(one)
        /\ rate = 8000 => in.tmp2 = two - 441 * Blocks(two)
        /\ rate = 22050 => in.tmp = 0
        /\ rate = 11025 => in.tmp2 = 0

Recording ==
    /\ HasDownSampler => Kept /\ (got >= Period \/ (got = 0 /\ mInPcmInBuf = 0))
    /\ ~HasDownSampler => mInPcmInBuf = 0 /\ mInOutBuf = 0
                            /\ (pc = "pull" => remaining = Period)
    /\ pc = "pull" => mInOutBuf = 0
    /\ CaptureIsContinuous

Typed ==
    /\ rate \in inputSamplingRates /\ channels \in {1, 2} /\ pc \in {"standby", "idle", "pull"}
    /\ in \in [in : Nat, tmp : Nat, tmp2 : Nat] /\ extent \in [tmp : Nat, tmp2 : Nat, out : Nat]
    /\ mInPcmInBuf \in Nat /\ mOutBufPos \in Nat /\ mInOutBuf \in Nat /\ remaining \in Nat
    /\ captured \in Nat /\ got \in Nat /\ delivered \in Nat /\ outBase \in Nat
    /\ ~HasDownSampler => mInPcmInBuf = 0 /\ mInOutBuf = 0

IInv ==
    /\ Typed /\ BuffersHold
    /\ pc # "standby" => Recording
=============================================================================
