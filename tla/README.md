# Samsung Jet device code: verification project

This directory specifies and checks the device-specific code of the Samsung
Jet port of Android: the hardware abstraction layers (HALs) that sit between
the Android framework and the S3C6410 kernel drivers. Everything is written in
TLA+, model-checked with TLC on small instances and, where marked, proved with
TLAPS for every value of the constants. Paths below are relative to `src/`.

## 1. The system

The HALs are libraries loaded into framework processes (mediaserver,
system_server, surfaceflinger and every client of graphics buffers). They are
called by several threads; their state is in C++ objects and in memory shared
between processes; below them are drivers reached by open, ioctl, read, write.

| Component | Code | State | Operations | Hard behaviour |
|---|---|---|---|---|
| Audio HAL | `libaudio/AudioHardware.cpp` | three mutexes, reference-counted PCM and mixer, standby flag and counter of each stream, call mode | write, read, standby, setParameters, setMode, open and close of streams | mutexes released and re-taken half-way, state re-checked; stream objects kept alive by strong pointers |
| Routes, volumes, FM radio | same, 100-310, 513-970 | current route of each class, mute flag, FM descriptor, resume flag | setAudioRoute, setMode, setMicMute, setVoiceVolume, enableFMRadio, disableFMRadio | saved values overwritten, uninitialised routes, shared counts |
| Resampler, channel mixer | same, 1940-2472 | capture buffer, filter overlap buffers | getNextBuffer, releaseBuffer, resample, mix | buffer arithmetic with leftovers |
| ALSA access | `libaudio/alsa_pcm.c`, `alsa_mixer.c` | running flag, underrun counter | pcm_open, pcm_write, pcm_read, pcm_close | underrun retry loops |
| Graphics allocator | `libgralloc/allocator.cpp`, `gralloc.cpp` | chunk list of the pmem area, mask of framebuffer pages | allocate, deallocate, gralloc_alloc, gralloc_free | splits and merges, roll-back of a half-made buffer, unlocked updates |
| Buffer lock | `libgralloc/mapper.cpp` | lock word of each process's copy of the handle, shared by its threads | gralloc_lock, gralloc_unlock, register, unregister | lock-free compare-and-swap, lazy mapping |
| Framebuffer | `libgralloc/framebuffer.cpp` | mapping, current buffer | fb_device_open, fb_post, fb_close, mapFrameBuffer | one-time initialisation, page flip against buffers being drawn |
| Camera HAL | `libcamera/V4L2CameraHardware.cpp` | preview, focus and picture threads, capture flag, parameters | startPreview, stopPreview, takePicture, autoFocus, startRecording, setParameters, release | condition variables, threads that outlive calls |
| Camera device | `libcamera/V4L2Camera.cpp`, `V4L2Device.cpp` | buffer allocations and streams of one capture node, sensor controls | startPreview, getPreview, startRecord, getJpeg, setControl | buffers owned in turn by driver and client; failures half-way |
| JPEG encoder | `libcamera/V4L2JpegEncoder.cpp` | two directions of a device, EXIF buffers | run, setThumbnail, EXIF writing | requests that fail or come late; offsets and sizes |
| Copybit | `libcopybit/copybit.cpp` | transform told to the engine | set_parameter, stretch, blit | rectangle arithmetic under rotation and clipping; device errors half-way |
| Sensors | `libsensors/sensors.c`, `sensors_all.c` | descriptors, active mask, samples being assembled | open, close, activate, wake, poll | control and data devices share a descriptor; frames of two devices merge |
| Lights | `liblights/lights.c` | mutex, sysfs file | open_lights, set_light_backlight | opened and set by several threads |
| Crash guard | `crashguard/crashguard.c` | guard file | start, signal handlers | a signal or crash between two steps |
| Boot logo, recovery | `show_logo.c`, `recovery/recovery_ui.c`, `releasetools` | none | - | sequential programs and build scripts |

How they interact: the audio HAL calls ALSA access and is driven by
AudioFlinger's threads; the camera HAL calls the camera device and the JPEG
encoder and is driven by CameraService and by its own preview thread; gralloc
calls the allocator, the framebuffer module posts buffers gralloc allocated,
and every process that writes or reads a buffer takes the lock of its own copy
of the handle.

## 2. Plan

The most important behaviour first. Everything in the table is done; each row
has a section of its own.

| | Module | Behaviour | State |
|---|---|---|---|
| 1 | `AudioHardware` | streams, mode, mutex order | checked, proved (section 3) |
| 2 | `ReadersWriter`, `GrallocLock` | the lock word of a buffer | checked, proved, refinement (section 4) |
| 3 | `Heap`, `Allocator` | the chunk list of the pmem area | checked, proved, refinement (section 5) |
| 4 | `Gralloc` | allocation and release of buffers, with roll-back | checked, proved (section 6) |
| 5 | `CameraHardware` | threads of the camera HAL, preview buffers, capture | checked, proved (section 7) |
| 6 | `CaptureNode` | preview and recording on one capture node | checked, proved (section 8) |
| 7 | `CameraSettings` | parameters, scenes and controls | checked, proved (section 9) |
| 8 | `JpegEncoder`, `JpegExif` | a picture, request by request and tag by tag | checked, proved (section 10) |
| 9 | `AudioRoute` | routes, mute, calls and FM radio | checked, proved (section 11) |
| 10 | `DownSampler`, `Pcm` | capture filters, PCM access | checked, proved (section 12) |
| 11 | `FbPost` | page flip under the lock word | checked, proved (section 13) |
| 12 | `Copybit` | rectangles under rotation and clipping | checked, proved (section 14) |
| 13 | `Sensors`, `SensorsControl`, `SensorsData` | both sensor modules | checked, proved (section 15) |
| 14 | `Lights`, `CrashGuard` | backlight, guard file | checked, proved (section 16) |

The parts of rows 3, 6, 7, 8, 10, 11, 12, 13 and 14 share no state with each
other. `Parts` instantiates all of them with the same variables `s1`, `s2`,
..., chooses one of them at the start and lets only that one move, so that the
run `parts` checks thirteen small systems in one pass. Each conjunct of its
properties begins with `part = "..." =>` and names the property of the module
it is about. The constants of the parts are constants of `Parts`, so that the
theorems about it (`PartsProofs`, `CameraPartsProofs`) hold for every value of them; `MCParts` gives
them values for the run. The run says CHECK_DEADLOCK FALSE because some of its parts stop:
a process that was killed, a recording at its bound. `audio_routes` says so
because the process may die (section 11).

How the proofs are laid out: a module with an inductive invariant states it
(`IInv`) behind its properties, named part by named part, in the module itself or, for the
audio HAL, in `AudioHardwareInvariant`, so that TLC can check it on the
instances before and after a change. Each proof module then has a lemma for the
initial state, one for each action or group of actions, one that puts them
together (`...Step`), and the theorems.

## 3. Audio HAL

`AudioHardware` models the streams and the mode thread. One variable per piece
of state of the code: `mStandby`, `mSleepReq`, `strPcm`, `strMixer` (the
`mPcm` and `mMixer` of a stream), `mPcm`, `mMixer` (those of `AudioHardware`
with their open counts), `mMode`, `mInCallAudioMode`, the mutexes (`lock`), the
strong pointers (`hwRef`, `sp`) and the position of each thread (`pc`). A step
is a stretch of code between two places where another thread can intervene:
the release of a mutex, the wait for one, and the opening of a driver.
`cntSame` stands for `cnt == standbyCnt()`: the counter itself is unbounded,
only the comparison matters.

Abstractions: one output and one input stream exist at a time (the framework's
policy manager allows one active input); routes, volumes and the FM radio are
the subject of `AudioRoute` (section 11), sample data of `DownSampler`.
`Faults` says on whose behalf a driver may refuse to open. `CloseDuringCalls`
says whether the framework closes a stream while setMode or the other stream's
thread is inside a call; AudioFlinger joins the stream's own thread first.

| Run | Question |
|---|---|
| `audio` | all interleavings with failing stream opens: mutex order (`LockOrder`); counts, standby and wake locks (`DevicesAccounted`); the standby counter and the sleep requests (`Handshake`); order of opening (`OutputBeforeInput`); no change of a stream without its mutex (`StateChangesLocked`); every call returns (`CallsReturn`) |
| `audio_close` | streams closed during calls: the mutex order is violated |
| `audio_call_fault` | `CallGivesBackItsOwn` fails: a call whose devices are refused closes devices it does not hold |

There is no counter to bound: the counts stay below 3 by themselves. Two
streams, one mode thread and one open/close thread are all the actors the code
has, so the instance is the system itself, not a sample of it.

Fairness (`FairSpec`): every thread inside a call keeps running, and a mutex it
waits for is not withheld for ever. It is strong fairness of each thread: the
code raises the thread priority and sets `mSleepReq`, which makes the stream's
thread sleep 10 ms between calls, exactly so that a waiting thread gets the
mutex. Nothing obliges the framework to start a call. `CallsReturn` also
assumes that streams eventually stop being sent to standby while a thread
waits for them, because each time the waiting thread starts its search again.

### Findings

- `audio_close`: a retry in setMode, write or read may drop the last pointer to
  a closed stream with the hw mutex held; the destructor's standby() takes the
  stream's mutex after hw's and then hw's again.
- `audio_call_fault`: setMode does not check whether the call's devices opened.

### Proofs

`AudioHardwareInvariant` states the inductive invariant `IInv`. The properties
are not inductive by themselves: that a count equals its holders needs that a
stream about to be opened holds nothing, which needs that it is in standby or
lent to this thread, which needs that nobody else changed it since it was
locked, which needs mutual exclusion for each stretch of code. `IInv` states
exactly these: `Owned` (who owns which mutex where), `Pointers`, `Flags`,
`Alive` (a stream nobody points to is closed), `Unchanged` (what an equal
counter implies), `Handles`, `Awake`, `RefCounts`.

What the threads know of each other does not depend on what the drivers refuse:
`Threading` is `IInv` without `RefCounts` and is inductive by itself.

| Theorem | Assumes | States |
|---|---|---|
| `TypeCorrect`, `ThreadingInductive`, `WakeLocksBalance`, `KeptStreams` | - | types, `Threading` and what it implies |
| `StateIsLocked` | - | the action property `StateChangesLocked` |
| `Inductive`, `CountsAreHolders`, `StandbyIsClosed`, `Accounts` | a call always gets its devices | `IInv`; `Accounts` is the run's `DevicesAccounted`; closing streams during calls is allowed |
| `OrderInductive`, `MutexOrder`, `SleepRequests`, `Agreement` | no close during calls | exact mutex ownership, hence the order out, in, hw; `Agreement` is the run's `Handshake` |
| `OutputFirst` | no close during calls | the action property `OutputBeforeInput`: who opens the output holds the mutex under which the input would be opened, and has closed it |
| `CallsGiveBack` | a call always gets its devices | what `audio_call_fault` finds violated without that assumption |

All of them are in `AudioHardwareProofs`. The assumptions are needed: each of the
two violation runs drops one of them and finds the property violated. `CallsReturn`
is model-checked only.

## 4. Buffer lock

`GrallocLock` models `gralloc_lock`, `gralloc_unlock` and the unregistering of
a buffer (`libgralloc/mapper.cpp`) as the threads of one process see it. Each
process has its own copy of the handle: `lockState` travels with the handle but
is not shared memory, so the threads that meet at one lock word are those of a
process. The word is modelled by its three parts: the count
(`LOCK_STATE_READ_MASK`), the WRITE bit and the MAPPED bit. Every atomic access
of the code is a step: reading the word, the compare-and-swap (which fails if
the word changed), the store of `writeOwner`, the test of MAPPED, the test
under `sMapLock` again, the mapping, the flush flag. A lease is one use of the
buffer, from a `gralloc_lock` to its `gralloc_unlock`; `MapMayFail` says whether
mmap may fail. The buffer is of any of the four kinds (imported, ashmem, pmem,
framebuffer), chosen when the handle is opened.

`ReadersWriter` says what the word promises: a set of uses, of which a writing
one is alone. `IsReadersWriter` is the refinement.

| Run | Question |
|---|---|
| `gralloc_lock` | two threads and three leases of a buffer of each kind, one thread with two leases: `Exclusion`; count and WRITE bit (`LockWord`); `OwnerIsWriter`; an address for every use and a single mapping (`MappedForUse`); `FlushBeforeNextUse`; refinement (`IsReadersWriter`) |
| `gralloc_lock_map_fault` | `UnlockedAtClose` fails: a lock whose mapping fails says so and keeps the lock |

Two threads are enough for every race on the word: each step of a thread
depends on another only through the word, `writeOwner` and the mapping.

**Proved** (`GrallocLockProofs`), for any number of threads and leases:
all the safety properties of the run (`WriterExcludes`, `LockWordExact`,
`OwnerNamed`, `MappingSound`, `FlushedInTime`) and the refinement (`Refinement`).
The count alone is not
inductive: a thread between its read of the word and its swap holds a value
that may be stale. `IInv` adds what such a thread may conclude: `Seen` (the
swap only succeeds if what was read is still true), `Owner` (a thread past the
swap is the only writer, and `writeOwner` is its own from the store on),
`OneCall`, `Mutex` (of `sMapLock`), `Mapped` (a mapped buffer has an address,
also between the two steps of mapping), `FlushHeld`, `ClosedIsIdle`. Each
action does one of four things to the granted uses (lemma `Effects`: it keeps
them, acquires, releases or forgets one), and that is what the refinement step
is made of.

## 5. Allocator

`Heap` is the abstract allocator: a set of disjoint blocks in an interval.
`Take` answers with a place on a page boundary that is free, `Refuse` is only
possible when there is none, `Return` gives back one block and `Reject` answers
for an offset that is not a block. `Allocator` is the chunk list of
`libgralloc/allocator.cpp`, a sequence of chunks with offset, size and a free
flag. `Look` is one round of the search loop and `Search` the whole loop, a
recursive function over the list; `Best` says in one line what it has to find,
and `BestFit` compares the two in every reachable state for every size. The
modules have no RECURSIVE operator, so that they can be proved about.

In `parts` the heap has 16 units, pages of 4 and sizes 1, 2, 4, 5 and 6: blocks
smaller than a page, of a page and larger, chunks that start inside a page,
exact fits with and without skipping to a page, and free chunks before and
behind a freed one all occur. `ListKept`: the chunks cover the heap without gap
or overlap (`Tiled`), no two free chunks touch (`Coalesced`), and the search is
a best fit; `ImplementsHeap` is the refinement.

**Proved** (`PartsProofs`), for every size of heap, page and requests, lists of any
length: `ListIsKept` and `AllocatorIsHeap`. A split and a merge are both the
replacement of a stretch of the list; the `Splice...` lemmas say what such a
replacement keeps of the tiling, of the neighbours and of the set of used
blocks, once for all of them. `IInv` adds that starts ascend and that a heap
without size has no chunks. That `Search` finds a best fit is an induction over
the rounds: the first round after which the best so far is not one (`LeastNumber`)
would have looked past a better chunk. The refusal of the refinement needs the
converse: a range in which `Heap` would still find room lies in one free chunk,
which `Fits` would have accepted.

## 6. Buffer allocation

`Gralloc` models `gralloc_alloc` and `gralloc_free` with the allocator taken as
an instance of `Heap`, the mask of framebuffer pages, the lazily made mapping
of the framebuffer and of the pmem area, and the roll-back after each of the
driver calls that may fail (`Faults`). A step ends where a lock is released or
taken and where a driver is called. `bufferMask` is read and written by
`gralloc_free` in two steps because it holds no lock there.

| Run | Question |
|---|---|
| `gralloc` | two threads, three handles, two pages, two screens, every driver call may fail: `MemoryAccounted` (every block has one owner, buffers are disjoint, pages have one owner, pmem is used only if mapped), `ExposedNeverReused`, every call returns |
| `gralloc_one_screen` | `NeverWaitsForItself` fails: with one screen, an allocation for the framebuffer waits for the mutex it holds |

Assumption `FbThreads`: one thread uses the framebuffer, as surfaceflinger, its
only client, does; with two the unlocked update of the mask loses a bit (see
the hazards). Blocks of one page are enough here because the sizes and the
alignment are the allocator's business. Fairness is strong fairness of each
thread: a pthread mutex that is released again and again is in the end given to
a thread that waits for it.

**Proved** (`GrallocProofs`), for any number of threads, handles, pages and
sizes and any set of failing drivers: `MemoryIsKept` and `ExposedIsKept`. The
assumption `OneFbThread` is that of the run: of the threads, at most one has to
do with framebuffer pages. It is used in exactly two steps, where a bit of the
mask is set and where it is cleared. That every block in use has an owner is
not inductive: a block passes from the allocator's answer to a call's local
variable to a buffer, and back. `Accounted` and `OneOwner` follow it, and six
lemmas (`SameOwners`, `Taken`, `HandedOver`, `GivenBackByCall`, `GivenUp` and
what they have in common) say what a step may do to it; `Targets` says that a
buffer is freed by one call, which knows what it is; `Blocked` that a call has a
block exactly between the allocator and the handle; `Mapped` that pmem is
mapped wherever a block is; `FbCalls` and `PagesMarked` that the mask is that of
the pages in use. 

Two more need no assumption on who uses the framebuffer: `TypeCorrect`, and
`TwoScreensNeverWait`, that with two screens no thread waits for the mutex it
holds, so that a single screen is the only way to what `gralloc_one_screen`
finds. The proof of the types showed that `TypeOK` was false where the pmem
area has no pages at all (a page of the framebuffer was given the type of a
block of pmem); it now says that such a page is one of the framebuffer's.
`CallsReturn` is model-checked only.

## 7. Camera HAL

`CameraHardware` models the client and the three threads of
`libcamera/V4L2CameraHardware.cpp`, and the part of `V4L2Camera.cpp` they share
without a lock. A thread is the label it stands at; a condition variable is the
label of the thread that sleeps on it, and a signal nobody waits for is lost.
`mStateLock` and `mPreviewLock` are variables because they are held over
several steps; `mFocusLock` and `mSkipFrameLock` are not.

The device keeps `previewStarted`, `prevBufIdx`, whether the driver has buffers
and which of them are queued. The driver itself is external: it takes any
queued buffer, refuses one it has already, and refuses to change its buffers
while it streams. `android::Thread` is external as well: it refuses to run a
running thread, may fail to create one, and ends a thread that was asked to exit before its first loop
without running it. Message flags and callback payloads are left out: each
place that tests one may go either way. A V4L2Camera function is one step,
which `CaptureExclusive` justifies: no two threads are ever inside the
functions that change the stream.

| Run | Question |
|---|---|
| `camera` | exclusion without a lock (`CaptureExclusive`), a stable frame under the callback (`FrameStable`), silence after stopPreview (`StoppedMeansQuiet`), an exact capture flag (`CaptureFlagExact`), every call returns |
| `camera_focus` | `FocusRunsWhenAsked` fails: an autoFocus call is forgotten when the focus thread is not asleep |

Assumptions of `camera`, each of which hides a behaviour listed under the
hazards: one call at a time (CameraService's lock, named in the comment at
`V4L2CameraHardware.cpp:646`); `EarlyRelease = FALSE`, no release before the
preview thread is in its loop (otherwise release's unlocked signal is lost and
it hangs); `StreamAlwaysStops`, the stream can be switched off (otherwise
`previewStarted` is stale even after the next open); no spurious wakeups
(stopPreview's wait is not in a loop). Three buffers let the driver own one
while one is filled and one shown; one skipped frame shows the countdown.

Fairness: each thread is scheduled; a mutex the preview thread takes in every
round is in the end given to the client that waits for it. Nothing obliges the
client to make a call. The poll for a frame has a timeout in the code, so a
silent sensor does not block the preview thread.

Proved in `CameraHardwareProofs`, for any number of buffers, any number of
frames to skip and every combination of faults: `TypeCorrect`,
`StoppedIsQuiet` and `CaptureFlagRight`. They need no assumption on when release
is called or on the device. The inductive invariant `SafeInv` adds to the types
which labels hold which mutex (`Locks`), what `mCaptureInProgress` says while
`startPreview` or `takePicture` holds `mStateLock` (`Flag`), that the preview
thread is past its test only while the flag is set or a stop waits for it
(`Quiet`), and that it has ended when the HAL is closed (`Ended`).
`DeviceExclusive` and `ShownFrameStable` assume `WellBehaved` (the two
assumptions of the run named above, `EarlyRelease` and the stream-off fault).
Their invariant `DeviceInv` follows the life of the preview thread (`Lifetime`:
it ends in release only), says that a stream is on only while the preview runs
or is being stopped (`StartedRuns`), and what a picture that has not reached the
device yet finds there (`Apart`). Each step of the model is one leaf of
`SafeStep` and one of `DeviceStep`; what a V4L2Camera function may do to the
device is stated once, in the `...Effect` lemmas. `CallsReturn` is model-checked
only: it is a liveness property.

## 8. The capture node

The preview and the recording stream from the same V4L2 capture node through
one `V4L2Device`. `CaptureNode` takes both apart request by request (S_FMT,
REQBUFS, QBUF, STREAMON, poll, STREAMOFF, REQBUFS(0)), with the call of the
client (`user`, `step`), the preview's thread, which stops the preview by itself
when no frame comes (`thread`), the allocations of `V4L2Camera` (`own`) and of
`V4L2Device` (`allocation`), and the driver (`streaming`, `queued`). Any request
may fail (`Faults`). The driver's rules are those of V4L2, external.

`NodeKept` in `parts`: no buffer is freed under the driver (`QueuedIsHeld`), and
preview and recording stream one at a time, each from its own buffers
(`OneStream`), as long as the driver stops when it is told to (`stuck`: a
refused STREAMOFF leaves `previewStarted` set over close and reopen, so that a
later start does nothing; that is a hazard of section 7).

What the model shows besides: with the preview running, a recording is always
refused at S_FMT, because the node streams; a recording that fails at REQBUFS
keeps its allocation; the frames of a recording are never fetched, since the
only caller of `getRecordFrame` is compiled out (`#if 0`).

**Proved** (`CameraPartsProofs`, theorem `CaptureNodeIsKept`): both, for every set
of failing requests. `NodeInv` adds what a starting call has found (`UseFinds`),
when the preview may be started at all in the life of its thread (`PreviewLives`),
and that a recording ends before the node is closed (`RecordLives`).

## 9. Camera parameters

`CameraSettings` is `setParameters`, section by section in the order of the
code, between what the client asks for, `mParameters` and the device: `camera`
(sizes, formats) and `control` (the sensor's controls). A client changes some
of the parameters it got, so an instance is a set of changes (`MCChanges`: one
parameter with its interesting values, or a scene with what it overrules) and
of refused controls; `MaxCalls` = 3 calls in a row are enough for a change, one
that overrules it and one that takes it back.

`SettingsKept` in `parts`:
- `DeviceAgrees`: sizes, thumbnail, picture format, quality, rotation and effect
  are in `mParameters` as in the camera and the sensor;
- `AcceptedIsKept`: a call without an error leaves every parameter as it was asked
  for, with the exceptions that `Ignored` names (values out of range, focus mode,
  frame rate, the white balance "auto");
- `SceneInSensor`: after a call with a scene that exists, the controls of that scene
  have its values but for those the sensor refused; in the scene "auto" without
  brightness and automatic white balance, which a client may set there.

So `getParameters` is known to tell the truth about the parameters of `DeviceAgrees`
and no others: the preview format is stored as any name and is RGB565 in the camera,
and exposure and white balance are the subject of a run of their own.

| Run | Question |
|---|---|
| `camera_settings` | `SettingsReachDevice` fails: in the scene "auto", where nothing is refused, the exposure compensation or fixed white balance of a call is kept in `mParameters` and not in the sensor |

The finding: `V4L2CameraHardware.cpp:278` says of `setParameters` "make sure
mV4L2Camera has all the settings we do", and 251-261 and 273-276 advertise fixed
white balances and an exposure compensation of -4 to 4. A call sets the exposure
(1224-1230) and the white balance (1263-1269), stores both, and then sets the scene,
also when it stays "auto"; the scene's list resets `BRIGHTNESS` to 0 and `AUTO_WB`
to 1 (`V4L2Camera.cpp:1077-1087`), and the call returns OK. The instance changes
exposure, white balance or scene in up to three calls, and refuses nothing; the
first call with a value of its own is enough.

What the model had to follow: "auto" white balance is set and never stored
(1262-1271); the focus mode asked for is never read (1311-1332); the frame rate is
reset before the scene is validated (1313); `setControl` caches a value before the
device has accepted it (`V4L2Camera.cpp:1055`), but `getControl` reads that copy
only for the controls that stay in `V4L2Camera` (`Internal`); any preview format
is stored although the device delivers RGB565; and the call goes on after a
section has failed.

**Proved** (`CameraPartsProofs`, theorem `SettingsAreKept`): the three conjuncts
of `SettingsKept`, for any changes, any sets of refused controls and any number of
calls. One lemma per section says which keys, fields of the camera and controls it
may change (`Changed`), what it leaves in them, and what it has kept if it does
not fail; `SectionsMake` puts them together in the order of the code, in which no
section undoes what `SettingsKept` says of one before it. The invariant adds the
sizes, thumbnail and effect that agree with the device already before the first
call (`Agrees`), and that the first parameters are `Defaults`, whose quality and
rotation are in range: otherwise the first call would leave them unset in the
device.

## 10. JPEG encoder

`JpegEncoder` is `run()`: the thumbnail, if there is one, and the picture, each
through S_FMT, REQBUFS, QBUF and STREAMON of both directions, poll, DQBUF,
STREAMOFF and REQBUFS(0). Any request may fail, and the poll may time out while
the conversion goes on. `JpegExif` is `buildExif`: where each tag and each value
goes, as cells with a place and a length, written in the order of the code.
`Lengths` (4 and 20) are values that fit into an entry and values that do not.

`PictureRight` in `parts`:
- `PictureIsInput`: what is reported as the picture was encoded from the input,
  not from the thumbnail that was in the same buffer, and between two runs the
  device is closed;
- `DequeueEnds`: a wait for the driver ends, except where the direction of the
  result was refused: then `cleanupDevice` of the input waits in VIDIOC_DQBUF for
  a conversion that can never happen (573), and the picture thread hangs;
- `TagsIntact`: every tag of a picture without a thumbnail is found, with its
  value, within the size of the EXIF data.

Not modelled is the length of the result: `dequeueBuf` stores it in `buf->used`
(`V4L2Device.cpp:457`) and `run()` returns it (803). When the VIDIOC_DQBUF of the
capture direction fails after a poll that succeeded, `cleanupDevice`'s error is
ignored and `run()` reports the length of an earlier use of the buffer; `PictureIsInput`
is about the content only and does not see that.

With a thumbnail the link to its directory would be written two bytes early
(60, 212) and its tags into the directory of the picture (690 ff.), but nobody
calls `setThumbnail`. A thumbnail refused at the input leaves its buffers
requested, so that the picture's S_FMT is refused as well. The content of tags
is left out: short GPS values are copied from the wrong memory, and
`V4L2Camera.cpp` takes the longitude's degrees from the latitude.

**Proved** (`CameraPartsProofs`, theorem `PictureIsRight`): all three, for every set
of failing requests and all lengths of the maker's names that `LengthsAssumption`
allows. Two arguments meet:
- of the driver, `Control` says at each step of `run()` what both directions have
  so far: what `initDevice` has got is of the image it is at and not left by the
  thumbnail (`Prepared`, `Polling`), what was polled for stays until the next image
  (`Polled`), and a wait for a buffer has one coming, unless the driver refuses to
  convert (`Waits`). Each handler is proved on `Flat`, the same statement over
  plain values instead of functions and records;
- of the tags, `DirectoryOf` says of a directory that it holds n tags of the list,
  all of them readable (`Reads`: an entry that nothing written later touches, whose
  value is where it points to), in the places between its start and its data.
  `PushKeeps` is one tag, `FilledKeeps` the whole list by induction over its
  length, `BehindEachOther` puts directories with disjoint places side by side, and
  `PictureExifRight` adds up their sizes: everything `buildExif` writes ends before
  `EXIF_SIZE`. `Built` carries that to the picture that was reported.

## 11. Routes, calls and the FM radio

`AudioRoute` has the control tables of `AudioHardware.cpp` as functions of a
class and a route, `setAudioRoute` and everything that calls it, on a codec that
is a set of switches, an input multiplexer and two volumes. An action is a whole
call: this state changes under AudioHardware's mutex or, for the radio, under
AudioFlinger's. `HAVE_FM_RADIO` is defined by `BoardConfig.mk:91-92`.

| Run | Question |
|---|---|
| `audio_routes` | three output and three input devices, from fresh memory, leavings and no route in the uninitialised `mRoute` (314): counts balance (`Balanced`), a muted microphone is off (`MuteIsOff`), nothing of a call outlives it (`CallLeavesNothing`) |

`CancelDelayed` = FALSE: the radio is not turned off while a call delays its
start; with TRUE `Balanced` fails, because `disableFMRadio` closes what was never
opened (964). What the model follows and no property condemns: unmuting restores
the route it has just read, that of muting, so the microphone stays off (651,
654); a device change during a call un-mutes; after a call the earpiece route
stays off until the next change (594-597); `setMicMute` with the mixer closed
passes NULL to the mixer and the process dies (`dead`); the radio passes a
device number for a route (954). The gains, of which each has one value, and the
tuner itself are left out.

**Proved** (`AudioRouteProofs`), for any number of calls and streams and any start of
`mRoute`, given ~`CancelDelayed` as in the run: `CountsBalance`, `MuteHolds`,
`CallIsOver`. The invariant that carries them is `SwitchesOwned`: outside of a call
every switch that is on is one of the current routes of input and output, during
one also of the voice route and the three GSM switches. A route that changes turns off
its own switches first, so what is on stays owned; what the tables have to say for that
(that the microphone's switches are those of no output route, that a voice route leaves nothing
that input and output have) are lemmas about the tables. `Delayed` says that the radio waits for the
end of a call only during one: that is where ~`CancelDelayed` is used.

## 12. Capture filters and PCM

`DownSampler` counts the samples of a recording on their way through
`mPcmIn`, `ChannelMixer` and the three filter stages, with the periods of the
code (1024 frames). `Ideal` is the reference: the number of samples one run of
the filters over the whole recording makes. `CaptureKept` in `parts`: whatever
the periods, rounds and reads, what the client has got plus what waits for it is
exactly that, in order, nothing from before the last opening, no round leaves a
buffer, and the rate offered is a nearest one. Twelve periods (`MaxPeriods`) pass
through every alignment of the 441:320 filter with the overlaps that the
requested rates can leave.

`Pcm` is `pcm_open`, `pcm_write`, `pcm_read` and `pcm_close` with the driver's
states. `TransfersRight`: a transfer that returns 0 moved its frames once and
one that failed did not, the PCM believes it is prepared only when it is, and it
has the geometry its caller asked for. The code retries a read for as long as
underruns repeat; `MaxUnderruns` = 2 bounds that. `pcm_close` never frees the
struct; memory is not modelled. What is set through `alsa_mixer.c` is the
codec of `AudioRoute`.

**Proved** (`PartsProofs`): `RecordingIsWhole`, for every rate of the list and any
number of periods, by arithmetic on the three filters (`Halved`, `Blocks`) and not on one
period: what a filter has made of two pieces is what it makes of the whole, and what
it keeps waiting is bounded (`HalvedStep`, `BlocksStep`, `FilterRound`). The proof gave the
assumption on `Period`: the 441:320 filter may keep 463 frames waiting, and they and half a
period must fit into the buffer, which holds from 907 frames on; the code has 1024. And
`TransfersAreRight`, for any number of underruns and any openings.

## 13. Framebuffer

`FbPost` is the framebuffer device: opening with its mapping, `fb_post` of a
page (lock, pan, wait for the blank, unlock) or of another buffer (lock both,
copy, unlock), `fb_close`, against threads that draw into the buffers under
their write lock, a display that shows a page from the next blank on, and
requests that fail. Of the lock word only count and write bit are kept;
`GrallocLock` has the rest.

`ScreenKept` in `parts`: a buffer has exactly the locks of its drawer and of the
screen (`LocksAccounted`), and nobody draws into the page on screen between
posts (`ShownIsStill`). It follows from the code that the old page is unlocked
before the new one is panned to (124), so that during a post it may be drawn
into; that a failed mapping leaves the framebuffer taken for mapped (359); that
`fb_close` leaves the current page locked. Left out: `fb_setSwapInterval` and the
update rectangle, which check and store.

**Proved** (`FbPostProofs`, theorem `ScreenIsKept`): both, for any number of
pages and buffers and any faults, given only that page, buffer and "no buffer"
differ (`BufferAssumption`). The invariant ties the count of each lock word to
the position of the post. `ScreenIsStill` in `PartsProofs` carries it over to
`ScreenKept`.

## 14. Copybit

`Copybit` is the arithmetic of `set_rects` and `set_rects_noscale` for each clip
of a region, and the transform that the engine was told. `Sample` is the
reference: the pixel of the source that belongs to a pixel of the destination if
it is drawn as a whole. `ClipsFit`: a call draws, clip by clip, what it would
draw as a whole, within the clips and all of them if it succeeds. `Exact` states
where the arithmetic is meant to be right, and with that where it is not: a
source off its image's corner is mis-scaled (the origin is scaled too) and, for
quarter turns, mixed up (left with top); flips are not clipped (that code is
commented out); an edge between pixels is rounded, down to an empty source when
a thin clip of an enlarged image is drawn. The calls of the instance have each
of these cases.

**Proved** (`PartsProofs`, theorem `ClipsAreRight`), for any calls and regions of
integer rectangles (`CallsAssumption`, `RegionsAssumption`: what the C types say, and
that a clip meets the destination). `ScaledPixel` is the arithmetic: if offset and
length of a clip scale without rest, then rounding within the clip is rounding
within the whole. `SampleFits` applies it to both directions of each transform, and
`DrawnAfter(n)` says that after n clips their pixels, and no others, are drawn as in
the whole.

## 15. Sensors

`sensors.c` is what Android.mk builds; `sensors_all.c` stands beside it for a
compass and an accelerometer, and is modelled as it is.

- `Sensors`: control and data device share the descriptor `sFD` without a lock,
  each opened and closed by its own thread. `SampleIsTrue` (in `SamplesRight`): a
  sample is what the device measured at the end of its frame in every axis that
  was reported; `OrientationOfSample`: each is followed by its own orientation.
- `SensorsControl`: `ActiveIsOn` (in `SamplesRight`): a sensor in the mask is on.
  The other way does not hold: a request for the compass drops the accelerometer
  from the mask while it stays on. `wake` leaks the accelerometer's descriptor;
  `MaxFds` bounds the leak.
- `SensorsData`: `PendingIsKept` and `PairMatches` (in `SamplesRight`): a sample is
  returned as it was when its frame ended and fits its orientation. The EV_SYN of
  one device ends the other's frame too, so that half frames are returned; and an
  ABS_Y right after an EV_SYN has the code of SYN_CONFIG and can end a poll
  (805-816).

**Proved** (`PartsProofs`), for any readings, axes, descriptors and length of the
queue: `SamplesAreRight` and `OrientationIsOfSample`. `QueuesTrue` of `Sensors` is the
invariant that needed most thought: what is in the queue of an open descriptor, read from
any frame on, tells for every axis that has been reported what the device measures there
(`Told`), so that the next sample is right whatever thread opens or closes meanwhile.
`InStep` of `SensorsData` says which of sample and orientation is owed.

Two values per reading and two axes are enough to tell a sample from the one
before. `open_sensors` of `sensors_all.c` always returns -EINVAL and its
`set_delay` an error on success; neither changes state.

## 16. Backlight and crash guard

`Lights`: threads set the backlight while others open lights. `LevelIsLast`: the
file has the level of the call that ended last without an error.

`CrashGuard`: any number of boots of a process that may be signalled, killed or
cut off between any two steps. `GuardTells`: a dump is made exactly after a run
that had made its file and was cut off before its handler ran. The process is
packaged by `jet.mk:82`; no init script in the repository starts it.

**Proved** (`PartsProofs`): `BacklightIsSet`, for any number of threads and levels
(`Written`: a thread between write and unlock has the file as it wrote it), and
`GuardIsTrue`, for any number of boots.

## 17. What is only model-checked

- Liveness (`CallsReturn` of the audio HAL, of gralloc and of the camera): out of
  the prover's reach.

Everything else that a passing run checks is a theorem. Two notes on the proofs:

- No RECURSIVE operator is used by a module with theorems. Where a function is
  defined recursively over numbers (`Search`), or a claim is about sequences of any
  length, the induction is the least number of a set (`LeastNumber`, `Climb` in
  `PartsProofs`, from the library's well-founded induction): the library's own
  induction theorems take an operator, which the provers cannot instantiate.
- The theorems of `PartsProofs` and of `CameraPartsProofs`, which extends it with
  the three parts of the camera, are about `PartsSpec`, the specification the run
  checks; those of the other proof modules about the specification of their
  component.

## 18. What is not modelled

- ALSA command line tools: sequential test programs without state of their own.
- `alsa_mixer.c`: a table read once. `scale_int64` divides by the percentage it is
  given (312), which may be 0 for a 64-bit integer control (`AudioHardware.cpp:602` passes
  0); whether the codec has one is the driver's business.
- Audio policy manager: a factory for a base class outside the repository.
- Registration of a buffer by another process and the duplication of GPU
  descriptors; opening and closing of the gralloc module.
- Overlay, payloads of the camera's callbacks, image conversion.
- The values of EXIF tags, gains of the codec, pixels, samples: data that no
  property depends on.
- Boot logo and recovery keys: drawing and key tables. Build and release
  scripts, overlays, kernel headers, binaries (radio, GPS, firmware): nothing to
  check.
