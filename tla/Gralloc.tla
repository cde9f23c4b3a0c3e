------------------------------ MODULE Gralloc ------------------------------
(***************************************************************************)
(* Allocation of graphics buffers, libgralloc/gralloc.cpp: pages of the    *)
(* framebuffer, blocks of the pmem area (through the allocator, of which   *)
(* only what Heap promises is used; Allocator implements it), or ashmem.   *)
(*                                                                         *)
(* A step of a thread ends where another thread can intervene: at the      *)
(* module's mutex and between the calls of the drivers and the allocator.  *)
(***************************************************************************)
EXTENDS Naturals, FiniteSets

CONSTANTS
    Thread,
    NoThread,
    FbThreads,  \* threads that allocate and free framebuffer pages
    Handle,     \* buffers that may exist at once
    NoHandle,
    Pages,      \* of the pmem area
    Sizes,      \* of buffers, rounded up to pages
    Screens,    \* screens the framebuffer driver may have room for
    Faults      \* what may fail

AllFaults == {"open", "mmap", "connect", "unmap", "ashmem", "fbOpen", "fbMmap"}

ASSUME ThreadAssumption == FbThreads \subseteq Thread /\ NoThread \notin Thread
ASSUME HandleAssumption == NoHandle \notin Handle
ASSUME PageAssumption == Pages \in Nat /\ Sizes \subseteq Nat \ {0}
ASSUME ScreenAssumption == Screens \subseteq {1, 2} /\ Screens # {}
ASSUME FaultAssumption == Faults \subseteq AllFaults

VARIABLES
    framebuffer,  \* m->framebuffer: "null", "mapped", or made without a mapping
    numBuffers,
    bufferMask,   \* the slots whose bit is set
    mLock,        \* owner of m->lock
    pmem_master,  \* "untried" (-1), "failed" or "ok"
    ready, used, answer,  \* the allocator
    exposed,      \* blocks another process may still have mapped
    buffers,      \* private_handle_t of each buffer that exists
    pc, size, usage, block, target, mask   \* of each call

masterVars == <<framebuffer, numBuffers, bufferMask, mLock, pmem_master>>
heapVars == <<ready, used, answer>>
localVars == <<size, usage, block, target, mask>>
vars == <<masterVars, heapVars, exposed, buffers, pc, localVars>>

H == INSTANCE Heap WITH HeapSize <- Pages, PageSize <- 1

Slots == {0, 1}
None == [kind |-> "none", start |-> 0, size |-> 0]
Pmem(at, n) == [kind |-> "pmem", start |-> at, size |-> n]
Ashmem(n) == [kind |-> "ashmem", start |-> 0, size |-> n]
Page(slot) == [kind |-> "fb", start |-> slot, size |-> 0]
Block(b) == [start |-> b.start, size |-> b.size]

NoBlock == Block(None)

Init ==
    /\ framebuffer = "null"
    /\ numBuffers = 0
    /\ bufferMask = {}
    /\ mLock = NoThread
    /\ pmem_master = "untried"
    /\ H!Init
    /\ exposed = {}
    /\ buffers = [h \in Handle |-> None]
    /\ pc = [t \in Thread |-> "idle"]
    /\ size = [t \in Thread |-> 0]
    /\ usage = [t \in Thread |-> "sw"]
    /\ block = [t \in Thread |-> NoBlock]
    /\ target = [t \in Thread |-> NoHandle]
    /\ mask = [t \in Thread |-> {}]

-----------------------------------------------------------------------------
Goto(t, where) == pc' = [pc EXCEPT ![t] = where]

\* A call returns; what it kept on its stack is gone.
Return(t) ==
    /\ Goto(t, "idle")
    /\ size' = [size EXCEPT ![t] = 0]
    /\ usage' = [usage EXCEPT ![t] = "sw"]
    /\ block' = [block EXCEPT ![t] = NoBlock]
    /\ target' = [target EXCEPT ![t] = NoHandle]
    /\ mask' = [mask EXCEPT ![t] = {}]

\* A new handle for the buffer b, of which there is one; which makes no difference.
Make(b) ==
    LET h == CHOOSE k \in Handle : buffers[k] = None IN
    /\ h \in Handle /\ buffers[h] = None
    /\ buffers' = [buffers EXCEPT ![h] = b]

\* There is a handle for every call that may make one.
HandleLeft ==
    Cardinality({t \in Thread : pc[t] # "idle" /\ target[t] = NoHandle})
        < Cardinality({h \in Handle : buffers[h] = None})

-----------------------------------------------------------------------------
(* gralloc_alloc                                                           *)

\* usage: "fb" for the framebuffer, "2d" for pmem only, "texture" for pmem if
\* there is any, "sw" for ashmem.
Alloc(t, n, u) ==
    /\ pc[t] = "idle"
    /\ HandleLeft
    /\ u = "fb" => t \in FbThreads
    /\ size' = [size EXCEPT ![t] = n]
    /\ usage' = [usage EXCEPT ![t] = u]
    /\ Goto(t, CASE u = "fb" -> "fbLock"
                 [] u = "sw" -> "ashmem"
                 [] OTHER -> "initLock")
    /\ UNCHANGED <<masterVars, heapVars, exposed, buffers, block, target, mask>>

\* gralloc_alloc_framebuffer takes the mutex.
FbLock(t) ==
    /\ pc[t] = "fbLock"
    /\ mLock = NoThread
    /\ mLock' = t
    /\ Goto(t, "fbMap")
    /\ UNCHANGED <<framebuffer, numBuffers, bufferMask, pmem_master, heapVars, exposed, buffers, localVars>>

\* Mutant: the mutex stays locked when the framebuffer cannot be opened.
FbMapKeepsLock(t) ==
    /\ pc[t] = "fbMap"
    /\ \/ /\ framebuffer # "null"
          /\ Goto(t, "fbSlot")
          /\ UNCHANGED <<framebuffer, numBuffers, bufferMask, mLock, localVars>>
       \/ /\ framebuffer = "null"
          /\ "fbOpen" \in Faults
          /\ Return(t)
          /\ UNCHANGED <<framebuffer, numBuffers, bufferMask, mLock>>
       \/ /\ framebuffer = "null"
          /\ numBuffers' \in Screens
          /\ bufferMask' = {}
          /\ \/ framebuffer' = "mapped" /\ Goto(t, "fbSlot") /\ UNCHANGED <<mLock, localVars>>
             \/ /\ "fbMmap" \in Faults
                /\ framebuffer' = "unmapped"
                /\ mLock' = NoThread
                /\ Return(t)
    /\ UNCHANGED <<pmem_master, heapVars, exposed, buffers>>

\* The framebuffer is mapped by whoever comes first.  When mmap fails its
\* handle has been made, so the next call takes it for mapped.
FbMap(t) ==
    /\ pc[t] = "fbMap"
    /\ \/ /\ framebuffer # "null"
          /\ Goto(t, "fbSlot")
          /\ UNCHANGED <<framebuffer, numBuffers, bufferMask, mLock, localVars>>
       \/ /\ framebuffer = "null"
          /\ "fbOpen" \in Faults
          /\ mLock' = NoThread
          /\ Return(t)
          /\ UNCHANGED <<framebuffer, numBuffers, bufferMask>>
       \/ /\ framebuffer = "null"
          /\ numBuffers' \in Screens
          /\ bufferMask' = {}
          /\ \/ framebuffer' = "mapped" /\ Goto(t, "fbSlot") /\ UNCHANGED <<mLock, localVars>>
             \/ /\ "fbMmap" \in Faults
                /\ framebuffer' = "unmapped"
                /\ mLock' = NoThread
                /\ Return(t)
    /\ UNCHANGED <<pmem_master, heapVars, exposed, buffers>>

\* Mutant: one slot more than there are.
FbSlotPastEnd(t) ==
    /\ pc[t] = "fbSlot"
    /\ numBuffers > 1
    /\ mLock' = NoThread
    /\ Return(t)
    /\ \E slot \in {0, 1, 2} \ bufferMask :
        /\ \A other \in {0, 1, 2} \ bufferMask : slot <= other
        /\ bufferMask' = bufferMask \cup {slot}
        /\ Make(Page(slot))
    /\ UNCHANGED <<framebuffer, numBuffers, pmem_master, heapVars, exposed>>

\* Mutant: the bit is not set.
FbSlotUnmarked(t) ==
    /\ pc[t] = "fbSlot"
    /\ numBuffers > 1
    /\ mLock' = NoThread
    /\ Return(t)
    /\ \E slot \in Slots \ bufferMask : Make(Page(slot))
    /\ UNCHANGED <<framebuffer, numBuffers, bufferMask, pmem_master, heapVars, exposed>>

\* The first slot whose bit is clear, or -ENOMEM; with a single screen, a pmem
\* buffer instead, and the mutex is still held.
FbSlot(t) ==
    /\ pc[t] = "fbSlot"
    /\ \/ /\ numBuffers = 1
          /\ usage' = [usage EXCEPT ![t] = "2d"]
          /\ Goto(t, "initLock")
          /\ UNCHANGED <<bufferMask, mLock, buffers, size, block, target, mask>>
       \/ /\ numBuffers > 1
          /\ mLock' = NoThread
          /\ Return(t)
          /\ \/ Slots \subseteq bufferMask /\ UNCHANGED <<bufferMask, buffers>>
             \/ \E slot \in Slots \ bufferMask :
                    /\ \A other \in Slots \ bufferMask : slot <= other
                    /\ bufferMask' = bufferMask \cup {slot}
                    /\ Make(Page(slot))
    /\ UNCHANGED <<framebuffer, numBuffers, pmem_master, heapVars, exposed>>

-----------------------------------------------------------------------------
(* gralloc_alloc_buffer                                                    *)

\* init_pmem_area takes the mutex.
InitLock(t) ==
    /\ pc[t] = "initLock"
    /\ mLock = NoThread
    /\ mLock' = t
    /\ Goto(t, "init")
    /\ UNCHANGED <<framebuffer, numBuffers, bufferMask, pmem_master, heapVars, exposed, buffers, localVars>>

\* What follows init_pmem_area: without pmem, ashmem unless the caller insists.
AfterInit(t, ok) ==
    IF ok THEN Goto(t, "take") /\ UNCHANGED localVars
    ELSE IF usage[t] = "2d" THEN Return(t)
    ELSE Goto(t, "ashmem") /\ UNCHANGED localVars

\* Mutant: that the device could not be opened is forgotten, and that the area
\* could not be mapped is not looked at.
InitPmemForgets(t) ==
    /\ pc[t] = "init"
    /\ mLock' = NoThread
    /\ \/ /\ pmem_master # "untried"
          /\ AfterInit(t, pmem_master = "ok")
          /\ UNCHANGED <<pmem_master, heapVars>>
       \/ /\ pmem_master = "untried"
          /\ "open" \in Faults
          /\ AfterInit(t, FALSE)
          /\ UNCHANGED <<pmem_master, heapVars>>
       \/ /\ pmem_master = "untried"
          /\ IF ready THEN H!Reject ELSE H!Prepare
          /\ pmem_master' \in {"ok", "failed"}
          /\ AfterInit(t, TRUE)
    /\ UNCHANGED <<framebuffer, numBuffers, bufferMask, exposed, buffers>>

\* init_pmem_area_locked opens the device, gives the allocator its size and
\* maps the area; if it cannot, it is not tried again, unless the error is
\* EPERM, whose number is that of "not tried".
InitPmem(t) ==
    /\ pc[t] = "init"
    /\ mLock' = NoThread
    /\ \/ /\ pmem_master # "untried"
          /\ AfterInit(t, pmem_master = "ok")
          /\ UNCHANGED <<pmem_master, heapVars>>
       \/ /\ pmem_master = "untried"
          /\ "open" \in Faults
          /\ pmem_master' \in {"failed", "untried"}
          /\ AfterInit(t, FALSE)
          /\ UNCHANGED heapVars
       \/ /\ pmem_master = "untried"
          /\ IF ready THEN H!Reject ELSE H!Prepare
          /\ \/ pmem_master' = "ok" /\ AfterInit(t, TRUE)
             \/ /\ "mmap" \in Faults
                /\ pmem_master' \in {"failed", "untried"}
                /\ AfterInit(t, FALSE)
    /\ UNCHANGED <<framebuffer, numBuffers, bufferMask, exposed, buffers>>

\* sAllocator.allocate, or -ENOMEM.
Take(t) ==
    /\ pc[t] = "take"
    /\ \/ /\ H!Take(size[t])
          /\ block' = [block EXCEPT ![t] = [start |-> answer'.at, size |-> size[t]]]
          /\ Goto(t, "connect")
          /\ UNCHANGED <<size, usage, target, mask>>
       \/ H!Refuse(size[t]) /\ Return(t)
    /\ UNCHANGED <<masterVars, exposed, buffers>>

\* Mutant: the block is not given back.
ConnectLeaks(t) ==
    /\ pc[t] = "connect"
    /\ \/ Make(Pmem(block[t].start, block[t].size)) /\ UNCHANGED heapVars
       \/ "connect" \in Faults /\ UNCHANGED <<heapVars, buffers>>
    /\ Return(t)
    /\ UNCHANGED <<masterVars, exposed>>

\* Mutant: the block is given back and the handle made all the same.
ConnectMakesAnyway(t) ==
    /\ pc[t] = "connect"
    /\ Make(Pmem(block[t].start, block[t].size))
    /\ UNCHANGED heapVars \/ ("connect" \in Faults /\ H!Return(block[t]))
    /\ Return(t)
    /\ UNCHANGED <<masterVars, exposed>>

\* The block's own descriptor is opened, connected and mapped; if any of these
\* fails, the block is given back.
Connect(t) ==
    /\ pc[t] = "connect"
    /\ \/ Make(Pmem(block[t].start, block[t].size)) /\ UNCHANGED heapVars
       \/ "connect" \in Faults /\ H!Return(block[t]) /\ UNCHANGED buffers
    /\ Return(t)
    /\ UNCHANGED <<masterVars, exposed>>

CreateAshmem(t) ==
    /\ pc[t] = "ashmem"
    /\ \/ Make(Ashmem(size[t]))
       \/ "ashmem" \in Faults /\ UNCHANGED buffers
    /\ Return(t)
    /\ UNCHANGED <<masterVars, heapVars, exposed>>

-----------------------------------------------------------------------------
(* gralloc_free                                                            *)

\* A buffer is freed once, by the thread that owns it.
Free(t, h) ==
    /\ pc[t] = "idle"
    /\ buffers[h] # None
    /\ \A k \in Thread : target[k] # h
    /\ buffers[h].kind = "fb" => t \in FbThreads
    /\ target' = [target EXCEPT ![t] = h]
    /\ Goto(t, CASE buffers[h].kind = "fb" -> "clearRead"
                 [] buffers[h].kind = "pmem" -> "unmap"
                 [] OTHER -> "delete")
    /\ UNCHANGED <<masterVars, heapVars, exposed, buffers, size, usage, block, mask>>

\* m->bufferMask &= ~(1 << index), without the mutex: a read and a write.
ClearRead(t) ==
    /\ pc[t] = "clearRead"
    /\ mask' = [mask EXCEPT ![t] = bufferMask]
    /\ Goto(t, "clearWrite")
    /\ UNCHANGED <<masterVars, heapVars, exposed, buffers, size, usage, block, target>>

ClearWrite(t) ==
    /\ pc[t] = "clearWrite"
    /\ bufferMask' = mask[t] \ {buffers[target[t]].start}
    /\ Goto(t, "delete")
    /\ UNCHANGED <<framebuffer, numBuffers, mLock, pmem_master, heapVars, exposed, buffers, localVars>>

\* Mutant: the block is given back although another process has it.
UnmapAlways(t) ==
    /\ pc[t] = "unmap"
    /\ \/ UNCHANGED exposed
       \/ "unmap" \in Faults /\ exposed' = exposed \cup {Block(buffers[target[t]])}
    /\ Goto(t, "giveBack")
    /\ UNCHANGED <<masterVars, heapVars, buffers, localVars>>

\* PMEM_UNMAP; when it fails the block is kept, it might still be mapped.
Unmap(t) ==
    /\ pc[t] = "unmap"
    /\ \/ Goto(t, "giveBack") /\ UNCHANGED exposed
       \/ /\ "unmap" \in Faults
          /\ exposed' = exposed \cup {Block(buffers[target[t]])}
          /\ Goto(t, "delete")
    /\ UNCHANGED <<masterVars, heapVars, buffers, localVars>>

GiveBack(t) ==
    /\ pc[t] = "giveBack"
    /\ H!Return(Block(buffers[target[t]]))
    /\ Goto(t, "delete")
    /\ UNCHANGED <<masterVars, exposed, buffers, localVars>>

\* terminateBuffer, close and delete.
Delete(t) ==
    /\ pc[t] = "delete"
    /\ buffers' = [buffers EXCEPT ![target[t]] = None]
    /\ Return(t)
    /\ UNCHANGED <<masterVars, heapVars, exposed>>

-----------------------------------------------------------------------------
\* What a thread inside a call does next.
Continue(t) ==
    \/ FbLock(t) \/ FbMap(t) \/ FbSlot(t)
    \/ InitLock(t) \/ InitPmem(t) \/ Take(t) \/ Connect(t) \/ CreateAshmem(t)
    \/ ClearRead(t) \/ ClearWrite(t) \/ Unmap(t) \/ GiveBack(t) \/ Delete(t)

Next ==
    \E t \in Thread :
        \/ \E n \in Sizes, u \in {"fb", "2d", "texture", "sw"} : Alloc(t, n, u)
        \/ \E h \in Handle : Free(t, h)
        \/ Continue(t)

Spec == Init /\ [][Next]_vars

\* A thread inside a call keeps running, and pthread_mutex_lock does not starve.
FairSpec == Spec /\ \A t \in Thread : SF_vars(Continue(t))

-----------------------------------------------------------------------------
(* Properties                                                              *)

Blocks == [start : 0..Pages, size : Nat]

\* Every variable keeps its type (private_module_t, private_handle_t, the
\* locals of gralloc_alloc and gralloc_free).
TypeOK ==
    /\ framebuffer \in {"null", "unmapped", "mapped"}
    /\ numBuffers \in 0..2
    /\ bufferMask \subseteq Slots
    /\ mLock \in Thread \cup {NoThread}
    /\ pmem_master \in {"untried", "failed", "ok"}
    /\ ready \in BOOLEAN
    /\ used \subseteq Blocks
    /\ exposed \subseteq Blocks
    /\ \A h \in Handle :
        /\ buffers[h].kind \in {"none", "pmem", "ashmem", "fb"}
        /\ IF buffers[h].kind = "fb" THEN buffers[h].start \in Slots
           ELSE Block(buffers[h]) \in Blocks
    /\ \A t \in Thread :
        /\ size[t] \in Sizes \cup {0}
        /\ block[t] \in Blocks
        /\ target[t] \in Handle \cup {NoHandle}
        /\ mask[t] \subseteq Slots

\* The blocks of buffers that exist and have not been given back.
Holds(h) == buffers[h].kind = "pmem" /\ \A t \in Thread : target[t] = h => pc[t] # "delete"
HandleBlocks == {Block(buffers[h]) : h \in {k \in Handle : Holds(k)}}
CallBlocks == {block[t] : t \in {k \in Thread : block[k] # NoBlock}}

\* Every block taken from the allocator belongs to a buffer, to a call that is
\* making one, or is kept because it is exposed: a failed allocation gives its
\* block back and nothing is given back twice.
BlocksAccounted == used = HandleBlocks \cup CallBlocks \cup exposed

\* No two buffers share pmem.
BuffersDisjoint ==
    \A h, k \in Handle :
        h # k /\ Holds(h) /\ Holds(k) =>
            H!Disjoint(buffers[h].start, buffers[h].size, buffers[k])

\* Nor do two buffers have the same page of the framebuffer.
PagesDistinct ==
    \A h, k \in Handle :
        h # k /\ buffers[h].kind = "fb" /\ buffers[k].kind = "fb" =>
            buffers[h].start # buffers[k].start

\* Memory that another process may still see is never given to anyone else:
\* "it would give that process access to someone else's surfaces" (gralloc_free).
ExposedNeverReused ==
    \A b \in exposed :
        /\ \A h \in Handle : Holds(h) => H!Disjoint(b.start, b.size, buffers[h])
        /\ \A c \in CallBlocks : H!Disjoint(b.start, b.size, c)

\* Pmem that could not be initialised is never used, and a pmem buffer lies in
\* an area that is mapped.
PmemOnlyIfMapped ==
    (\E t \in Thread : pc[t] \in {"take", "connect"}) \/ HandleBlocks # {} => pmem_master = "ok"

\* So the memory that is handed out is accounted for, and by nobody else.
MemoryAccounted == BlocksAccounted /\ BuffersDisjoint /\ PagesDistinct /\ PmemOnlyIfMapped

\* Every gralloc_alloc and gralloc_free returns, on its error paths too.
CallsReturn == \A t \in Thread : pc[t] # "idle" ~> pc[t] = "idle"

\* A thread never waits for a mutex that it holds.  With one screen, "we
\* return a regular buffer" (gralloc_alloc_framebuffer_locked).
NeverWaitsForItself ==
    \A t \in Thread : pc[t] \in {"fbLock", "initLock"} => mLock # t

=============================================================================
