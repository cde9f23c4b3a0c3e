---------------------------- MODULE FbPostProofs ----------------------------
(***************************************************************************)
(* Why nobody draws into the page on screen, for any buffers and whichever *)
(* requests of the display fail.                                           *)
(***************************************************************************)
EXTENDS FbPost, TLAPS

Handle == Buffer \cup {Whole}
LockWord == [count : Nat, write : BOOLEAN]

Types ==
    /\ framebuffer \in {"null", "mapped", "unmapped"}
    /\ opened \in {0, 1}
    /\ currentBuffer \in Page \cup {NoBuffer}
    /\ lockState \in [Handle -> LockWord]
    /\ drawn \in SUBSET Buffer
    /\ pc \in {"idle", "lock", "pan", "vsync", "copy"}
    /\ buffer \in Buffer \cup {NoBuffer}
    /\ locked \in BOOLEAN /\ held \in BOOLEAN

(* A buffer that is drawn into is locked by its drawer alone; the one that *)
(* is posted or on screen is not drawn into.                               *)

DrawerIsAlone ==
    /\ \A b \in Buffer : lockState[b].write <=> b \in drawn
    /\ buffer \notin drawn /\ currentBuffer \notin drawn

(* Whole is locked by a copy alone. *)

CopyLocksWhole == lockState[Whole].count = If(pc = "copy")

(* While a post is under way no buffer counts as being on screen; its own   *)
(* lock was granted, since its caller does not draw into it.               *)

Posting ==
    /\ pc = "idle" <=> buffer = NoBuffer
    /\ pc # "idle" => currentBuffer = NoBuffer
    /\ pc \in {"pan", "vsync"} => buffer \in Page /\ locked = TRUE
    /\ pc = "copy" => buffer \in Regular

(* The driver shows, or is about to show, the page posted last.            *)

Panned ==
    /\ pc = "vsync" => panned = buffer
    /\ pc = "idle" /\ currentBuffer # NoBuffer =>
           panned = currentBuffer /\ (held => screen = currentBuffer)

IInv ==
    Types /\ LocksAccounted /\ DrawerIsAlone /\ CopyLocksWhole /\ Posting /\ Panned

-----------------------------------------------------------------------------
(* The lock words.                                                          *)

LEMMA Word == ASSUME NEW n \in Nat, NEW w \in BOOLEAN
              PROVE  [count |-> n, write |-> w] \in LockWord
  BY DEF LockWord

\* Locking adds one to a buffer and leaves the others alone.
LEMMA LockingToWrite ==
    ASSUME NEW locks \in [Handle -> LockWord], NEW b \in Handle
    PROVE  /\ Locked(locks, b, TRUE) \in [Handle -> LockWord]
           /\ Locked(locks, b, TRUE)[b].count = locks[b].count + 1
           /\ Locked(locks, b, TRUE)[b].write
           /\ \A x \in Handle \ {b} : Locked(locks, b, TRUE)[x] = locks[x]
  <1>1. locks[b].count + 1 \in Nat /\ (locks[b].write \/ TRUE) \in BOOLEAN
    BY DEF LockWord
  <1>2. [count |-> locks[b].count + 1, write |-> locks[b].write \/ TRUE] \in LockWord
    BY <1>1, Word
  <1> QED
    BY <1>2 DEF Locked

LEMMA LockingToRead ==
    ASSUME NEW locks \in [Handle -> LockWord], NEW b \in Handle
    PROVE  /\ Locked(locks, b, FALSE) \in [Handle -> LockWord]
           /\ Locked(locks, b, FALSE)[b].count = locks[b].count + 1
           /\ Locked(locks, b, FALSE)[b].write <=> locks[b].write
           /\ \A x \in Handle \ {b} : Locked(locks, b, FALSE)[x] = locks[x]
  <1>1. locks[b].count + 1 \in Nat /\ (locks[b].write \/ FALSE) \in BOOLEAN
    BY DEF LockWord
  <1>2. [count |-> locks[b].count + 1, write |-> locks[b].write \/ FALSE] \in LockWord
    BY <1>1, Word
  <1> QED
    BY <1>2 DEF Locked

\* Unlocking takes one from a buffer; the last one takes the write bit along.
LEMMA Unlocking ==
    ASSUME NEW locks \in [Handle -> LockWord], NEW b \in Handle, locks[b].count > 0
    PROVE  /\ Unlocked(locks, b) \in [Handle -> LockWord]
           /\ Unlocked(locks, b)[b].count = locks[b].count - 1
           /\ Unlocked(locks, b)[b].write <=> locks[b].count > 1 /\ locks[b].write
           /\ \A x \in Handle \ {b} : Unlocked(locks, b)[x] = locks[x]
  <1>1. locks[b].count - 1 \in Nat /\ (locks[b].count > 1 /\ locks[b].write) \in BOOLEAN
    BY DEF LockWord
  <1>2. [count |-> locks[b].count - 1, write |-> locks[b].count > 1 /\ locks[b].write]
            \in LockWord
    BY <1>1, Word
  <1> QED
    BY <1>2 DEF Unlocked

-----------------------------------------------------------------------------
(* The invariant.                                                           *)

\* At the start nothing is locked, posted or drawn.
LEMMA Start == ASSUME BufferAssumption, Init PROVE IInv
  <1> USE DEF BufferAssumption, Buffer
  <1>1. \A b \in Handle : lockState[b] = [count |-> 0, write |-> FALSE]
    BY DEF Init, Handle
  <1>2. lockState \in [Handle -> LockWord]
    BY Word DEF Init, Handle
  <1>3. Types
    BY <1>2 DEF Types, Init
  <1>4. LocksAccounted
    BY <1>1 DEF LocksAccounted, If, Handle, Init
  <1>5. DrawerIsAlone
    BY <1>1 DEF DrawerIsAlone, Handle, Init
  <1>6. CopyLocksWhole /\ Posting /\ Panned
    BY <1>1 DEF CopyLocksWhole, If, Posting, Panned, Handle, Init
  <1> QED
    BY <1>3, <1>4, <1>5, <1>6 DEF IInv

\* Every step of fb_post, of a drawer and of the display keeps it.
LEMMA Step == ASSUME BufferAssumption, IInv, [Next]_fbVars PROVE IInv'
  <1> USE DEF BufferAssumption, Buffer, IInv, Types, LocksAccounted, If, Handle,
              DrawerIsAlone, CopyLocksWhole, Posting, Panned, moduleVars, postVars, driverVars
  <1>0. lockState \in [Handle -> LockWord]
    OBVIOUS
  <1>1. CASE fb_device_open
    BY <1>1 DEF fb_device_open
  <1>2. CASE fb_close
    BY <1>2 DEF fb_close
  <1>3. ASSUME NEW b \in Buffer, PostStart(b) PROVE IInv'
    <2>1. CASE currentBuffer = NoBuffer
      BY <1>3, <2>1 DEF PostStart
    <2>2. CASE currentBuffer # NoBuffer
      <3>1. /\ buffer' = b /\ b \notin drawn /\ pc = "idle" /\ pc' = "lock" /\ currentBuffer' = NoBuffer
            /\ UNCHANGED <<moduleVars, drawn, locked, held, driverVars>>
        BY <1>3, <2>2 DEF PostStart
      <3>2. /\ currentBuffer \in Handle /\ lockState[currentBuffer].count = 1
            /\ lockState[currentBuffer].count > 0
        BY <2>2, <3>1
      <3>3. lockState' = Unlocked(lockState, currentBuffer)
        BY <1>3, <2>2 DEF PostStart
      <3>4. /\ lockState' \in [Handle -> LockWord]
            /\ lockState'[currentBuffer].count = lockState[currentBuffer].count - 1
            /\ lockState'[currentBuffer].write <=> lockState[currentBuffer].count > 1 /\ lockState[currentBuffer].write
            /\ \A x \in Handle \ {currentBuffer} : lockState'[x] = lockState[x]
        BY ONLY <1>0, <3>2, <3>3, Unlocking
      <3>5. Types'
        BY <1>3, <2>2, <3>1, <3>2, <3>4
      <3>6. LocksAccounted'
        BY <1>3, <2>2, <3>1, <3>2, <3>4
      <3>7. DrawerIsAlone'
        BY <1>3, <2>2, <3>1, <3>2, <3>4
      <3>8. CopyLocksWhole'
        BY <1>3, <2>2, <3>1, <3>2, <3>4
      <3>9. Posting' /\ Panned'
        BY <1>3, <2>2, <3>1, <3>2, <3>4
      <3> QED
        BY <3>5, <3>6, <3>7, <3>8, <3>9
    <2> QED
      BY <2>1, <2>2
  <1>4. ASSUME NEW b \in Buffer, Draw(b) PROVE IInv'
    <2>1. /\ b # buffer /\ b \notin drawn /\ lockState[b].count = 0 /\ b \in Handle
          /\ drawn' = drawn \cup {b}
          /\ UNCHANGED <<moduleVars, currentBuffer, postVars, driverVars>>
      BY <1>4 DEF Draw, Lockable
    <2>2. lockState' = Locked(lockState, b, TRUE)
      BY <1>4 DEF Draw
    <2>3. /\ lockState' \in [Handle -> LockWord]
          /\ lockState'[b].count = lockState[b].count + 1
          /\ lockState'[b].write
          /\ \A x \in Handle \ {b} : lockState'[x] = lockState[x]
      BY ONLY <1>0, <1>4, <2>1, <2>2, LockingToWrite
    <2>4. Types'
      BY <1>4, <2>1, <2>3
    <2>5. LocksAccounted'
      BY <1>4, <2>1, <2>3
    <2>6. DrawerIsAlone'
      BY <1>4, <2>1, <2>3
    <2>7. CopyLocksWhole'
      BY <1>4, <2>1, <2>3
    <2>8. Posting' /\ Panned'
      BY <1>4, <2>1, <2>3
    <2> QED
      BY <2>4, <2>5, <2>6, <2>7, <2>8
  <1>5. ASSUME NEW b \in Buffer, Drawn(b) PROVE IInv'
    <2>1. /\ b \in drawn /\ b \in Handle /\ drawn' = drawn \ {b}
          /\ lockState[b].count = 1 /\ lockState[b].count > 0
          /\ UNCHANGED <<moduleVars, currentBuffer, postVars, driverVars>>
      BY <1>5 DEF Drawn
    <2>2. lockState' = Unlocked(lockState, b)
      BY <1>5 DEF Drawn
    <2>3. /\ lockState' \in [Handle -> LockWord]
          /\ lockState'[b].count = lockState[b].count - 1
          /\ lockState'[b].write <=> lockState[b].count > 1 /\ lockState[b].write
          /\ \A x \in Handle \ {b} : lockState'[x] = lockState[x]
      BY ONLY <1>0, <2>1, <2>2, Unlocking
    <2>4. Types'
      BY <1>5, <2>1, <2>3
    <2>5. LocksAccounted'
      BY <1>5, <2>1, <2>3
    <2>6. DrawerIsAlone'
      BY <1>5, <2>1, <2>3
    <2>7. CopyLocksWhole'
      BY <1>5, <2>1, <2>3
    <2>8. Posting' /\ Panned'
      BY <1>5, <2>1, <2>3
    <2> QED
      BY <2>4, <2>5, <2>6, <2>7, <2>8
  <1>6. CASE PostLock
    <2>1. /\ buffer \in Page /\ buffer \in Handle /\ pc = "lock" /\ pc' = "pan" /\ locked' = TRUE
          /\ UNCHANGED <<moduleVars, currentBuffer, drawn, buffer, held, driverVars>>
      BY <1>6 DEF PostLock, Lockable
    <2>2. lockState' = Locked(lockState, buffer, FALSE)
      BY <1>6, <2>1 DEF PostLock
    <2>3. /\ lockState' \in [Handle -> LockWord]
          /\ lockState'[buffer].count = lockState[buffer].count + 1
          /\ lockState'[buffer].write <=> lockState[buffer].write
          /\ \A x \in Handle \ {buffer} : lockState'[x] = lockState[x]
      BY ONLY <1>0, <2>1, <2>2, LockingToRead
    <2>4. Types'
      BY <2>1, <2>3
    <2>5. LocksAccounted'
      BY <2>1, <2>3
    <2>6. DrawerIsAlone'
      BY <2>1, <2>3
    <2>7. CopyLocksWhole'
      BY <2>1, <2>3
    <2>8. Posting' /\ Panned'
      BY <2>1, <2>3
    <2> QED
      BY <2>4, <2>5, <2>6, <2>7, <2>8
  <1>7. CASE PostPan
    <2>1. CASE panned' = buffer /\ pc' = "vsync" /\ UNCHANGED <<lockState, buffer, locked>>
      BY <1>7, <2>1 DEF PostPan
    <2>2. CASE /\ lockState' = Unlocked(lockState, buffer)
               /\ pc' = "idle" /\ buffer' = NoBuffer /\ locked' = FALSE
               /\ UNCHANGED panned
      <3>1. pc = "pan" /\ UNCHANGED <<moduleVars, currentBuffer, drawn, held, screen>>
        BY <1>7 DEF PostPan
      <3>2. buffer \in Handle /\ lockState[buffer].count = 1 /\ lockState[buffer].count > 0
        BY <3>1
      <3>3. /\ lockState' \in [Handle -> LockWord]
            /\ lockState'[buffer].count = lockState[buffer].count - 1
            /\ lockState'[buffer].write <=> lockState[buffer].count > 1 /\ lockState[buffer].write
            /\ \A x \in Handle \ {buffer} : lockState'[x] = lockState[x]
        BY ONLY <1>0, <2>2, <3>2, Unlocking
      <3>4. pc' = "idle" /\ buffer' = NoBuffer /\ locked' = FALSE /\ UNCHANGED panned
        BY <2>2
      <3>5. Types'
        BY <3>1, <3>2, <3>3, <3>4
      <3>6. LocksAccounted'
        BY <3>1, <3>2, <3>3, <3>4
      <3>7. DrawerIsAlone'
        BY <3>1, <3>2, <3>3, <3>4
      <3>8. CopyLocksWhole'
        BY <3>1, <3>2, <3>3, <3>4
      <3>9. Posting' /\ Panned'
        BY <3>1, <3>2, <3>3, <3>4
      <3> QED
        BY <3>5, <3>6, <3>7, <3>8, <3>9
    <2> QED
      BY <1>7, <2>1, <2>2 DEF PostPan
  <1>8. CASE PostVsync
    <2>1. Types'
      BY <1>8 DEF PostVsync
    <2>2. LocksAccounted'
      BY <1>8 DEF PostVsync
    <2>3. DrawerIsAlone' /\ CopyLocksWhole' /\ Posting'
      BY <1>8 DEF PostVsync
    <2>4. Panned'
      BY <1>8 DEF PostVsync
    <2> QED
      BY <2>1, <2>2, <2>3, <2>4
  <1>9. CASE CopyLock
    <2> DEFINE L == Locked(lockState, Whole, TRUE)
    <2>1. /\ buffer \in Regular /\ buffer \in Handle /\ Whole \in Handle
          /\ pc = "lock" /\ pc' = "copy" /\ lockState[Whole].count = 0
          /\ UNCHANGED <<moduleVars, currentBuffer, drawn, buffer, locked, held, driverVars>>
      BY <1>9 DEF CopyLock
    <2>2. lockState' = Locked(L, buffer, FALSE)
      BY <1>9 DEF CopyLock
    <2>3. /\ L \in [Handle -> LockWord]
          /\ L[Whole].count = lockState[Whole].count + 1
          /\ L[Whole].write
          /\ \A x \in Handle \ {Whole} : L[x] = lockState[x]
      BY ONLY <1>0, <2>1, LockingToWrite
    <2> HIDE DEF L
    <2>4. /\ lockState' \in [Handle -> LockWord]
          /\ lockState'[buffer].count = L[buffer].count + 1
          /\ lockState'[buffer].write <=> L[buffer].write
          /\ \A x \in Handle \ {buffer} : lockState'[x] = L[x]
      BY ONLY <1>0, <2>1, <2>2, <2>3, LockingToRead
    <2>5. /\ lockState'[buffer].count = lockState[buffer].count + 1
          /\ lockState'[buffer].write <=> lockState[buffer].write
          /\ \A x \in Buffer \ {buffer} : lockState'[x] = lockState[x]
          /\ lockState'[Whole].count = 1
      BY <2>1, <2>3, <2>4
    <2>6. Types'
      BY <2>1, <2>4, <2>5
    <2>7. LocksAccounted'
      BY <2>1, <2>4, <2>5
    <2>8. DrawerIsAlone'
      BY <2>1, <2>4, <2>5
    <2>9. CopyLocksWhole'
      BY <2>1, <2>4, <2>5
    <2>10. Posting' /\ Panned'
      BY <2>1, <2>4, <2>5
    <2> QED
      BY <2>6, <2>7, <2>8, <2>9, <2>10
  <1>10. CASE Copy
    <2> DEFINE L == Unlocked(lockState, buffer)
    <2>1. /\ buffer \in Handle /\ Whole \in Handle /\ buffer # Whole
          /\ lockState[buffer].count = 1 /\ lockState[buffer].count > 0
          /\ pc = "copy" /\ pc' = "idle" /\ buffer' = NoBuffer
          /\ UNCHANGED <<moduleVars, currentBuffer, drawn, locked, held, driverVars>>
      BY <1>10 DEF Copy
    <2>2. lockState' = Unlocked(L, Whole)
      BY <1>10 DEF Copy
    <2>3. /\ L \in [Handle -> LockWord]
          /\ L[buffer].count = lockState[buffer].count - 1
          /\ L[buffer].write <=> lockState[buffer].count > 1 /\ lockState[buffer].write
          /\ \A x \in Handle \ {buffer} : L[x] = lockState[x]
      BY ONLY <1>0, <2>1, Unlocking
    <2> HIDE DEF L
    <2>4. L[Whole].count = 1 /\ L[Whole].count > 0
      BY <2>1, <2>3
    <2>5. /\ lockState' \in [Handle -> LockWord]
          /\ lockState'[Whole].count = L[Whole].count - 1
          /\ lockState'[Whole].write <=> L[Whole].count > 1 /\ L[Whole].write
          /\ \A x \in Handle \ {Whole} : lockState'[x] = L[x]
      BY ONLY <1>0, <2>2, <2>3, <2>4, Unlocking, SMTT(40)
    <2>6. /\ lockState'[buffer].count = 0 /\ ~lockState'[buffer].write
          /\ lockState'[Whole].count = 0
          /\ \A x \in Buffer \ {buffer} : lockState'[x] = lockState[x]
      BY <2>1, <2>3, <2>4, <2>5
    <2>7. Types'
      BY <2>1, <2>5, <2>6
    <2>8. LocksAccounted'
      BY <2>1, <2>5, <2>6
    <2>9. DrawerIsAlone'
      BY <2>1, <2>5, <2>6
    <2>10. CopyLocksWhole'
      BY <2>1, <2>5, <2>6
    <2>11. Posting' /\ Panned'
      BY <2>1, <2>5, <2>6
    <2> QED
      BY <2>7, <2>8, <2>9, <2>10, <2>11
  <1>11. CASE Vblank
    BY <1>11 DEF Vblank
  <1>12. CASE UNCHANGED fbVars
    BY <1>12 DEF fbVars
  <1> QED
    BY <1>1, <1>2, <1>3, <1>4, <1>5, <1>6, <1>7, <1>8, <1>9, <1>10, <1>11, <1>12 DEF Next

LEMMA Safe == IInv => LocksAccounted /\ ShownIsStill
  BY DEF IInv, Types, ShownIsStill, DrawerIsAlone, Panned

\* fb_post neither drops a lock that a drawer holds nor leaves one behind, and
\* what it put on screen stays as it is until the next post.
THEOREM ScreenIsKept ==
    ASSUME BufferAssumption PROVE Spec => [](LocksAccounted /\ ShownIsStill)
  <1>1. Init => IInv
    BY Start
  <1>2. IInv /\ [Next]_fbVars => IInv'
    BY Step
  <1>3. IInv => LocksAccounted /\ ShownIsStill
    BY Safe
  <1> QED
    BY <1>1, <1>2, <1>3, PTL DEF Spec
=============================================================================
