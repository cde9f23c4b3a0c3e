---------------------------- MODULE GrallocLock ----------------------------
(***************************************************************************)
(* The lock of a graphics buffer, libgralloc/mapper.cpp, as one process    *)
(* sees it: the threads of the process share one private_handle_t, whose   *)
(* lockState they change by compare-and-swap and nothing else; writeOwner, *)
(* flags and base are plain fields.  Each process has its own copy of the  *)
(* handle and so its own lock.                                             *)
(*                                                                         *)
(* A lease is one use of the buffer: a gralloc_lock and, if it succeeds,   *)
(* the gralloc_unlock that the same thread calls later.  A thread may hold *)
(* several.  A step is one access to the handle that another thread can    *)
(* see, so a compare-and-swap can fail and stale values are used.          *)
(***************************************************************************)
EXTENDS Naturals, FiniteSets

CONSTANTS
    Lease,      \* uses of the buffer that may be under way at once
    Thread,
    ThreadOf,   \* the thread that makes each use
    NoThread,
    Usages,     \* the usages lock() is called with, subsets of UsageBits
    MapMayFail  \* may mmap refuse to map the buffer?

UsageBits == {"swRead", "swWrite", "hwRender"}

ASSUME LeaseAssumption == IsFiniteSet(Lease)
ASSUME ThreadAssumption == ThreadOf \in [Lease -> Thread] /\ NoThread \notin Thread
ASSUME UsageAssumption == Usages \subseteq SUBSET UsageBits
ASSUME MapAssumption == MapMayFail \in BOOLEAN

\* How this process came by the handle: received from another process and
\* registered, or allocated here in one of three ways.
Kinds == {"imported", "ashmem", "pmem", "framebuffer"}

VARIABLES
    open,        \* the handle is registered or allocated in this process
    kind,
    lockState,   \* the WRITE and MAPPED bits and the count of READ_MASK
    writeOwner,  \* a thread id
    needsFlush,  \* PRIV_FLAGS_NEEDS_FLUSH
    base,        \* base # 0: the address lock() returns is mapped
    maps,        \* mappings made by gralloc_map and not yet unmapped
    sMapLock,    \* owner of the mutex
    pc,          \* where each lease's call is
    use,         \* usage given to lock()
    seen,        \* current_value, read from lockState
    clears       \* new_value has lost the WRITE bit

handleVars == <<open, kind, lockState, writeOwner, needsFlush, base, maps>>
callVars == <<sMapLock, pc, use, seen, clears>>
vars == <<handleVars, callVars>>

State(write, mapped, count) == [write |-> write, mapped |-> mapped, count |-> count]

Unlocked == State(FALSE, FALSE, 0)

\* lockState and base of a handle when it is made.
Fresh(k) == State(FALSE, k = "pmem", 0)
HasBase(k) == k \in {"pmem", "framebuffer"}

Init ==
    /\ open = FALSE
    /\ kind = "imported"
    /\ lockState = Unlocked
    /\ writeOwner = NoThread
    /\ needsFlush = FALSE
    /\ base = FALSE
    /\ maps = 0
    /\ sMapLock = NoThread
    /\ pc = [l \in Lease |-> "idle"]
    /\ use = [l \in Lease |-> {}]
    /\ seen = [l \in Lease |-> Unlocked]
    /\ clears = [l \in Lease |-> FALSE]

-----------------------------------------------------------------------------
Writes(l) == use[l] \cap {"swWrite", "hwRender"} # {}
UsesCpu(l) == use[l] \cap {"swRead", "swWrite"} # {}

\* The lock was taken for l and not given back; the last one is a lock()
\* that took the lock and then returned an error.
GrantedAt == {"owner", "flag", "mapLock", "mapTest", "mapOr", "held",
              "flush", "unlockRead", "unlockOwner", "unlockCas", "stranded"}

Granted == {l \in Lease : pc[l] \in GrantedAt}

\* The thread of l is not inside another call.
Free(l) == \A k \in Lease :
    ThreadOf[k] = ThreadOf[l] => pc[k] \in {"idle", "held", "stranded"}

Goto(l, where) == pc' = [pc EXCEPT ![l] = where]

\* lock() or unlock() returns: its local variables are gone.
Return(l, where) ==
    /\ Goto(l, where)
    /\ use' = [use EXCEPT ![l] = IF where = "idle" THEN {} ELSE @]
    /\ seen' = [seen EXCEPT ![l] = Unlocked]
    /\ clears' = [clears EXCEPT ![l] = FALSE]

-----------------------------------------------------------------------------
(* gralloc_lock                                                            *)

Lock(l, u) ==
    /\ open
    /\ pc[l] = "idle"
    /\ Free(l)
    /\ use' = [use EXCEPT ![l] = u]
    /\ Goto(l, "lockRead")
    /\ UNCHANGED <<handleVars, sMapLock, seen, clears>>

\* Mutant: a writer does not look at the readers.
LockReadOnlyWrite(l) ==
    /\ pc[l] = "lockRead"
    /\ \/ lockState.write /\ Return(l, "idle")
       \/ /\ ~lockState.write
          /\ seen' = [seen EXCEPT ![l] = lockState]
          /\ Goto(l, "lockCas")
          /\ UNCHANGED <<use, clears>>
    /\ UNCHANGED <<handleVars, sMapLock>>

Busy(l) == lockState.write \/ (lockState.count > 0 /\ Writes(l))

\* current_value = lockState, and -EBUSY when it excludes this use.
LockRead(l) ==
    /\ pc[l] = "lockRead"
    /\ \/ Busy(l) /\ Return(l, "idle")
       \/ /\ ~Busy(l)
          /\ seen' = [seen EXCEPT ![l] = lockState]
          /\ Goto(l, "lockCas")
          /\ UNCHANGED <<use, clears>>
    /\ UNCHANGED <<handleVars, sMapLock>>

\* Mutant: a plain store in place of the compare-and-swap.
LockStore(l) ==
    /\ pc[l] = "lockCas"
    /\ lockState' = State(Writes(l), seen[l].mapped, seen[l].count + 1)
    /\ Goto(l, "owner")
    /\ UNCHANGED <<open, kind, writeOwner, needsFlush, base, maps, sMapLock, use, seen, clears>>

\* The compare-and-swap: on failure, start again.
LockCas(l) ==
    /\ pc[l] = "lockCas"
    /\ \/ /\ lockState = seen[l]
          /\ lockState' = State(Writes(l), seen[l].mapped, seen[l].count + 1)
          /\ Goto(l, "owner")
       \/ /\ lockState # seen[l]
          /\ Goto(l, "lockRead")
          /\ UNCHANGED lockState
    /\ UNCHANGED <<open, kind, writeOwner, needsFlush, base, maps, sMapLock, use, seen, clears>>

\* Mutant: the owner is stored for software writes only.
LockOwnerSoftware(l) ==
    /\ pc[l] = "owner"
    /\ writeOwner' = IF "swWrite" \in use[l] THEN ThreadOf[l] ELSE writeOwner
    /\ Goto(l, "flag")
    /\ UNCHANGED <<open, kind, lockState, needsFlush, base, maps, sMapLock, use, seen, clears>>

LockOwner(l) ==
    /\ pc[l] = "owner"
    /\ writeOwner' = IF Writes(l) THEN ThreadOf[l] ELSE writeOwner
    /\ Goto(l, "flag")
    /\ UNCHANGED <<open, kind, lockState, needsFlush, base, maps, sMapLock, use, seen, clears>>

\* The flush flag; then map if the CPU needs an address and the value the
\* compare-and-swap replaced was not mapped.
LockFlag(l) ==
    /\ pc[l] = "flag"
    /\ needsFlush' = (needsFlush \/ ("swWrite" \in use[l] /\ kind # "framebuffer"))
    /\ IF UsesCpu(l) /\ ~seen[l].mapped
       THEN Goto(l, "mapLock") /\ UNCHANGED <<use, seen, clears>>
       ELSE Return(l, "held")
    /\ UNCHANGED <<open, kind, lockState, writeOwner, base, maps, sMapLock>>

MapLock(l) ==
    /\ pc[l] = "mapLock"
    /\ sMapLock = NoThread
    /\ sMapLock' = ThreadOf[l]
    /\ Goto(l, "mapTest")
    /\ UNCHANGED <<handleVars, use, seen, clears>>

\* gralloc_map: the framebuffer keeps the mapping it was made with.
NewMaps == IF kind = "framebuffer" THEN maps ELSE maps + 1

\* Mutant: the MAPPED bit is not tested again under the mutex.
MapTestOnce(l) ==
    /\ pc[l] = "mapTest"
    /\ base' = TRUE
    /\ maps' = NewMaps
    /\ Goto(l, "mapOr")
    /\ UNCHANGED <<open, kind, lockState, writeOwner, needsFlush, sMapLock, use, seen, clears>>

\* Mutant: MAPPED is set whatever gralloc_map returned.
MapTestMarks(l) ==
    /\ pc[l] = "mapTest"
    /\ IF lockState.mapped
       THEN /\ sMapLock' = NoThread
            /\ Return(l, "held")
            /\ UNCHANGED <<base, maps>>
       ELSE /\ Goto(l, "mapOr")
            /\ \/ base' = TRUE /\ maps' = NewMaps
               \/ MapMayFail /\ base' = FALSE /\ UNCHANGED maps
            /\ UNCHANGED <<sMapLock, use, seen, clears>>
    /\ UNCHANGED <<open, kind, lockState, writeOwner, needsFlush>>

\* With the mutex: another thread mapped the buffer; or this one does; or the
\* mapping fails, and lock() returns the error with the lock still taken.
MapTest(l) ==
    /\ pc[l] = "mapTest"
    /\ \/ /\ lockState.mapped
          /\ sMapLock' = NoThread
          /\ Return(l, "held")
          /\ UNCHANGED <<base, maps>>
       \/ /\ ~lockState.mapped
          /\ base' = TRUE
          /\ maps' = NewMaps
          /\ Goto(l, "mapOr")
          /\ UNCHANGED <<sMapLock, use, seen, clears>>
       \/ /\ ~lockState.mapped
          /\ MapMayFail
          /\ kind # "framebuffer"
          /\ base' = FALSE
          /\ sMapLock' = NoThread
          /\ Return(l, "stranded")
          /\ UNCHANGED maps
    /\ UNCHANGED <<open, kind, lockState, writeOwner, needsFlush>>

\* android_atomic_or, then the mutex is released.
MapOr(l) ==
    /\ pc[l] = "mapOr"
    /\ lockState' = State(lockState.write, TRUE, lockState.count)
    /\ sMapLock' = NoThread
    /\ Return(l, "held")
    /\ UNCHANGED <<open, kind, writeOwner, needsFlush, base, maps>>

-----------------------------------------------------------------------------
(* gralloc_unlock                                                          *)

Unlock(l) ==
    /\ pc[l] = "held"
    /\ Free(l)
    /\ Goto(l, "flush")
    /\ UNCHANGED <<handleVars, sMapLock, use, seen, clears>>

\* Mutant: flushed, but the flag stays.
UnlockFlushAgain(l) ==
    /\ pc[l] = "flush"
    /\ Goto(l, "unlockRead")
    /\ UNCHANGED <<handleVars, sMapLock, use, seen, clears>>

UnlockFlush(l) ==
    /\ pc[l] = "flush"
    /\ needsFlush' = FALSE
    /\ Goto(l, "unlockRead")
    /\ UNCHANGED <<open, kind, lockState, writeOwner, base, maps, sMapLock, use, seen, clears>>

UnlockRead(l) ==
    /\ pc[l] = "unlockRead"
    /\ seen' = [seen EXCEPT ![l] = lockState]
    /\ Goto(l, "unlockOwner")
    /\ UNCHANGED <<handleVars, sMapLock, use, clears>>

\* Mutant: the WRITE bit is left to whoever locks next.
UnlockOwnerKeeps(l) ==
    /\ pc[l] = "unlockOwner"
    /\ Goto(l, "unlockCas")
    /\ UNCHANGED <<handleVars, sMapLock, use, seen, clears>>

\* The owner, and only it, takes the WRITE bit away; -EINVAL if not locked.
UnlockOwner(l) ==
    LET mine == seen[l].write /\ writeOwner = ThreadOf[l]
    IN  /\ pc[l] = "unlockOwner"
        /\ writeOwner' = IF mine THEN NoThread ELSE writeOwner
        /\ IF seen[l].count = 0
           THEN Return(l, "idle")
           ELSE /\ clears' = [clears EXCEPT ![l] = mine]
                /\ Goto(l, "unlockCas")
                /\ UNCHANGED <<use, seen>>
        /\ UNCHANGED <<open, kind, lockState, needsFlush, base, maps, sMapLock>>

UnlockCas(l) ==
    /\ pc[l] = "unlockCas"
    /\ \/ /\ lockState = seen[l]
          /\ lockState' = State(seen[l].write /\ ~clears[l], seen[l].mapped, seen[l].count - 1)
          /\ Return(l, "idle")
       \/ /\ lockState # seen[l]
          /\ Goto(l, "unlockRead")
          /\ UNCHANGED <<lockState, use, seen, clears>>
    /\ UNCHANGED <<open, kind, writeOwner, needsFlush, base, maps, sMapLock>>

-----------------------------------------------------------------------------
(* The life of the handle                                                  *)

\* gralloc_alloc made it, or another process sent it and it is registered.
Open(k) ==
    /\ ~open
    /\ open' = TRUE
    /\ kind' = k
    /\ lockState' = Fresh(k)
    /\ writeOwner' = NoThread
    /\ needsFlush' = FALSE
    /\ base' = HasBase(k)
    /\ UNCHANGED <<maps, callVars>>

\* Mutant: unmaps without looking at the MAPPED bit.
CloseAlwaysUnmaps ==
    /\ open
    /\ \A l \in Lease : pc[l] \in {"idle", "stranded"}
    /\ open' = FALSE
    /\ lockState' = Unlocked
    /\ writeOwner' = NoThread
    /\ base' = FALSE
    /\ maps' = IF kind \in {"imported", "ashmem"} THEN maps - 1 ELSE maps
    /\ pc' = [l \in Lease |-> "idle"]
    /\ use' = [l \in Lease |-> {}]
    /\ UNCHANGED <<kind, needsFlush, sMapLock, seen, clears>>

\* gralloc_unregister_buffer, or gralloc_free with its terminateBuffer, when
\* the process holds no lock that it knows of.  What lock() mapped is
\* unmapped; the handle is gone and the locks with it.
Close ==
    /\ open
    /\ \A l \in Lease : pc[l] \in {"idle", "stranded"}
    /\ open' = FALSE
    /\ lockState' = Unlocked
    /\ writeOwner' = NoThread
    /\ base' = FALSE
    /\ maps' = IF lockState.mapped /\ kind \in {"imported", "ashmem"} THEN maps - 1 ELSE maps
    /\ pc' = [l \in Lease |-> "idle"]
    /\ use' = [l \in Lease |-> {}]
    /\ UNCHANGED <<kind, needsFlush, sMapLock, seen, clears>>

Next ==
    \/ \E l \in Lease :
        \/ \E u \in Usages : Lock(l, u)
        \/ LockRead(l) \/ LockCas(l) \/ LockOwner(l) \/ LockFlag(l)
        \/ MapLock(l) \/ MapTest(l) \/ MapOr(l)
        \/ Unlock(l) \/ UnlockFlush(l)
        \/ UnlockRead(l) \/ UnlockOwner(l) \/ UnlockCas(l)
    \/ \E k \in Kinds : Open(k)
    \/ Close

Spec == Init /\ [][Next]_vars

-----------------------------------------------------------------------------
(* Properties                                                              *)

States == [write : BOOLEAN, mapped : BOOLEAN, count : Nat]

\* Every variable keeps its type (private_handle_t and the locals of lock and unlock).
TypeOK ==
    /\ open \in BOOLEAN
    /\ kind \in Kinds
    /\ lockState \in States
    /\ writeOwner \in Thread \cup {NoThread}
    /\ needsFlush \in BOOLEAN
    /\ base \in BOOLEAN
    /\ maps \in Nat
    /\ sMapLock \in Thread \cup {NoThread}
    /\ pc \in [Lease -> GrantedAt \cup {"idle", "lockRead", "lockCas"}]
    /\ use \in [Lease -> SUBSET UsageBits]
    /\ seen \in [Lease -> States]
    /\ clears \in [Lease -> BOOLEAN]

\* A use that may write excludes every other use, from the compare-and-swap
\* in lock() to the one in unlock(): no lost update lets two of them in.
Exclusion ==
    \A l, k \in Granted : Writes(l) => k = l

\* The count of READ_MASK is the number of uses; none is lost or counted twice.
CountIsUses == lockState.count = Cardinality(Granted)

\* The WRITE bit is set exactly while a writer has the buffer: it is never
\* left behind by unlock(), which would refuse every later lock().
WriteBitHasWriter == lockState.write <=> \E l \in Granted : Writes(l)

\* So the lock word says who has the buffer.
LockWord == CountIsUses /\ WriteBitHasWriter

\* writeOwner, which is stored after the lock is taken and cleared before it
\* is given back, names the writer whenever unlock() relies on it.
OwnerIsWriter ==
    \A l \in Lease :
        Writes(l) /\ pc[l] \in {"held", "flush", "unlockRead", "unlockOwner"}
            => writeOwner = ThreadOf[l]

\* A lock() for the CPU that succeeds returns a mapped address, also when
\* another thread is mapping the buffer or has failed to.
CpuAddressMapped == \A l \in Lease : pc[l] = "held" /\ UsesCpu(l) => base

\* Threads that find the buffer not mapped at the same time map it once, and
\* the mapping does not outlive the handle.
MappedOnce == maps <= (IF open THEN 1 ELSE 0)

\* The lazy mapping is there for whoever needs it and made once.
MappedForUse == CpuAddressMapped /\ MappedOnce

\* What the CPU wrote is flushed before anybody else gets the buffer: the
\* flag is only up while the writer that raised it has it.
FlushBeforeNextUse ==
    open /\ needsFlush => \E l \in Granted : "swWrite" \in use[l]

\* A process that gave back every lock it obtained may unregister the buffer:
\* "It's an error to be here with a locked buffer" (gralloc_unregister_buffer).
UnlockedAtClose ==
    open /\ (\A l \in Lease : pc[l] \in {"idle", "stranded"}) => lockState.count = 0

-----------------------------------------------------------------------------
(* Refinement: the lock word is a readers-writer lock.                     *)

readersOf == {l \in Granted : ~Writes(l)}
writersOf == {l \in Granted : Writes(l)}

RW == INSTANCE ReadersWriter WITH readers <- readersOf, writers <- writersOf

\* The lock implements ReadersWriter: a successful compare-and-swap of lock()
\* acquires, that of unlock() releases, and nothing else is seen.
IsReadersWriter == RW!Spec

=============================================================================
