------------------------------- MODULE FbPost -------------------------------
(***************************************************************************)
(* libgralloc/framebuffer.cpp: the framebuffer device.  One thread opens   *)
(* it and posts buffers; others draw into the buffers, each of which they  *)
(* lock for writing meanwhile.  fb_post keeps the buffer on screen locked, *)
(* by the same lock word (of which only counts and the write bit are kept  *)
(* here; GrallocLock has the rest), so that nobody draws into it.          *)
(*                                                                         *)
(* External: the display driver, which shows the page it was panned to     *)
(* from the next vertical blank on, and the callers, who do not draw into  *)
(* a buffer between handing it over to be posted and the end of the post.  *)
(***************************************************************************)
EXTENDS Naturals

CONSTANTS
    Page,       \* buffers that are a page of the framebuffer
    Regular,    \* other buffers
    NoBuffer,
    Depths,     \* bits per pixel the driver may have
    Faults      \* what may fail

Buffer == Page \cup Regular
Whole == "framebuffer"      \* m->framebuffer, the handle of all its pages

BufferAssumption ==
    Page \cap Regular = {} /\ NoBuffer \notin Buffer /\ Whole \notin Buffer
DepthsAssumption == Depths \subseteq {16, 24, 32}
FaultsAssumption == Faults \subseteq {"open", "mmap", "pan", "vsync"}

VARIABLES
    framebuffer,    \* m->framebuffer: "null", "mapped", or made without a mapping
    fbFormat,
    opened,         \* devices that were opened
    currentBuffer,
    lockState,      \* per buffer: locks it has, whether one is for writing
    drawn,          \* buffers whose drawer has locked them
    pc, buffer,     \* the post under way
    locked,         \* history: whether lock() of the buffer granted it
    panned, screen, \* the driver: the page to show next, and the one shown
    held,           \* history: the post saw the vertical blank
    copied          \* history: what the last post of a regular buffer copied

moduleVars == <<framebuffer, fbFormat, opened>>
postVars == <<pc, buffer, locked, held, copied>>
driverVars == <<panned, screen>>
fbVars == <<moduleVars, currentBuffer, lockState, drawn, postVars, driverVars>>

Init ==
    /\ framebuffer = "null" /\ fbFormat = "none" /\ opened = 0
    /\ currentBuffer = NoBuffer
    /\ lockState = [b \in Buffer \cup {Whole} |-> [count |-> 0, write |-> FALSE]]
    /\ drawn = {}
    /\ pc = "idle" /\ buffer = NoBuffer /\ locked = FALSE /\ held = FALSE
    /\ copied = "none"
    /\ panned = NoBuffer /\ screen = NoBuffer

Lockable(b, write) == ~lockState[b].write /\ (write => lockState[b].count = 0)
Locked(locks, b, write) ==
    [locks EXCEPT ![b] = [count |-> @.count + 1, write |-> @.write \/ write]]
Unlocked(locks, b) ==
    [locks EXCEPT ![b] = [count |-> @.count - 1,
                          write |-> @.count > 1 /\ @.write]]

-----------------------------------------------------------------------------
(* Opening, with mapFrameBufferLocked *)

Format(bpp) == IF bpp = 16 THEN "RGB_565" ELSE "BGRA_8888"

\* The handle is made before the pages are mapped: the next open takes it for
\* mapped.
fb_device_open ==
    /\ opened = 0
    /\ \/ framebuffer # "null" /\ opened' = 1 /\ UNCHANGED <<framebuffer, fbFormat>>
       \/ framebuffer = "null" /\ "open" \in Faults
          /\ UNCHANGED <<framebuffer, fbFormat, opened>>
       \/ /\ framebuffer = "null"
          /\ \E bpp \in Depths : fbFormat' = Format(bpp)
          /\ \/ framebuffer' = "mapped" /\ opened' = 1
             \/ "mmap" \in Faults /\ framebuffer' = "unmapped" /\ UNCHANGED opened
    /\ UNCHANGED <<currentBuffer, lockState, drawn, postVars, driverVars>>

\* fb_close frees the device; the buffer on screen stays locked.
fb_close ==
    /\ opened = 1 /\ pc = "idle"
    /\ opened' = 0
    /\ UNCHANGED <<framebuffer, fbFormat, currentBuffer, lockState, drawn,
                   postVars, driverVars>>

-----------------------------------------------------------------------------
(* fb_post *)

\* Mutant: the buffer on screen is not forgotten.
PostStartKeeps(b) ==
    /\ opened = 1 /\ pc = "idle" /\ b \notin drawn
    /\ buffer' = b /\ pc' = "lock"
    /\ lockState' = IF currentBuffer = NoBuffer THEN lockState
                    ELSE Unlocked(lockState, currentBuffer)
    /\ UNCHANGED <<moduleVars, currentBuffer, drawn, locked, held, copied, driverVars>>

\* It starts by unlocking the buffer on screen.
PostStart(b) ==
    /\ opened = 1 /\ pc = "idle" /\ b \notin drawn
    /\ buffer' = b /\ pc' = "lock"
    /\ currentBuffer' = NoBuffer
    /\ lockState' = IF currentBuffer = NoBuffer THEN lockState
                    ELSE Unlocked(lockState, currentBuffer)
    /\ UNCHANGED <<moduleVars, drawn, locked, held, copied, driverVars>>

\* Mutant: only the page is noted.
PostLockNot ==
    /\ pc = "lock" /\ buffer \in Page
    /\ locked' = FALSE
    /\ pc' = "pan"
    /\ UNCHANGED <<moduleVars, currentBuffer, lockState, drawn, buffer, held, copied, driverVars>>

\* What lock() returns is not looked at.
PostLock ==
    /\ pc = "lock" /\ buffer \in Page
    /\ locked' = Lockable(buffer, FALSE)
    /\ lockState' = IF locked' THEN Locked(lockState, buffer, FALSE) ELSE lockState
    /\ pc' = "pan"
    /\ UNCHANGED <<moduleVars, currentBuffer, drawn, buffer, held, copied, driverVars>>

PostPan ==
    /\ pc = "pan"
    /\ \/ panned' = buffer /\ pc' = "vsync" /\ UNCHANGED <<lockState, buffer, locked>>
       \/ /\ "pan" \in Faults
          /\ lockState' = Unlocked(lockState, buffer)
          /\ pc' = "idle" /\ buffer' = NoBuffer /\ locked' = FALSE
          /\ UNCHANGED panned
    /\ UNCHANGED <<moduleVars, currentBuffer, drawn, held, copied, screen>>

\* A wait that fails is only logged.
PostVsync ==
    /\ pc = "vsync"
    /\ \/ screen = buffer /\ held' = TRUE
       \/ "vsync" \in Faults /\ held' = FALSE
    /\ currentBuffer' = buffer
    /\ pc' = "idle" /\ buffer' = NoBuffer /\ locked' = FALSE
    /\ UNCHANGED <<moduleVars, lockState, drawn, copied, driverVars>>

\* A regular buffer is copied by the 2D engine with both locked, if the format
\* is one it has a name for, and then as many pixels as the screen has
\* millimetres.
CopyLock ==
    /\ pc = "lock" /\ buffer \in Regular
    /\ lockState' = Locked(Locked(lockState, Whole, TRUE), buffer, FALSE)
    /\ pc' = "copy"
    /\ UNCHANGED <<moduleVars, currentBuffer, drawn, buffer, locked, held, copied, driverVars>>

s3c_g2d_copy_buffer ==
    IF fbFormat = "RGB_565" THEN "corner" ELSE "nothing"

\* Mutant: the buffer stays locked.
CopyKeeps ==
    /\ pc = "copy"
    /\ copied' = s3c_g2d_copy_buffer
    /\ lockState' = Unlocked(lockState, Whole)
    /\ pc' = "idle" /\ buffer' = NoBuffer
    /\ UNCHANGED <<moduleVars, currentBuffer, drawn, locked, held, driverVars>>

Copy ==
    /\ pc = "copy"
    /\ copied' = s3c_g2d_copy_buffer
    /\ lockState' = Unlocked(Unlocked(lockState, buffer), Whole)
    /\ pc' = "idle" /\ buffer' = NoBuffer
    /\ UNCHANGED <<moduleVars, currentBuffer, drawn, locked, held, driverVars>>

-----------------------------------------------------------------------------
(* The drawers and the display *)

Draw(b) ==
    /\ b # buffer /\ b \notin drawn /\ Lockable(b, TRUE)
    /\ drawn' = drawn \cup {b}
    /\ lockState' = Locked(lockState, b, TRUE)
    /\ UNCHANGED <<moduleVars, currentBuffer, postVars, driverVars>>

Drawn(b) ==
    /\ b \in drawn
    /\ drawn' = drawn \ {b}
    /\ lockState' = Unlocked(lockState, b)
    /\ UNCHANGED <<moduleVars, currentBuffer, postVars, driverVars>>

Vblank ==
    /\ screen # panned
    /\ screen' = panned
    /\ UNCHANGED <<moduleVars, currentBuffer, lockState, drawn, postVars, panned>>

Next ==
    \/ fb_device_open \/ fb_close
    \/ \E b \in Buffer : PostStart(b) \/ Draw(b) \/ Drawn(b)
    \/ PostLock \/ PostPan \/ PostVsync \/ CopyLock \/ Copy
    \/ Vblank

Spec == Init /\ [][Next]_fbVars

-----------------------------------------------------------------------------

If(p) == IF p THEN 1 ELSE 0

\* Between posts a buffer has exactly the locks of its drawer and of being on
\* screen, over failing pans and posts of buffers of either kind: fb_post never
\* drops a lock that a drawer holds, nor leaves one behind.
LocksAccounted ==
    \A b \in Buffer :
        lockState[b].count =
            If(b \in drawn) + If(b = currentBuffer)
            + If(b = buffer /\ (pc = "copy" \/ (pc \in {"pan", "vsync"} /\ locked)))

\* After a post that saw its page come on screen, nobody draws into that page
\* until the next post starts.
ShownIsStill ==
    pc = "idle" /\ currentBuffer # NoBuffer /\ held =>
        screen = currentBuffer /\ currentBuffer \notin drawn
=============================================================================
