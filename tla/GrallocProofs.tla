--------------------------- MODULE GrallocProofs ---------------------------
(***************************************************************************)
(* Why no two buffers share memory, whichever driver calls fail and for    *)
(* any number of threads, buffers and pages.                               *)
(***************************************************************************)
EXTENDS Gralloc, TLAPS

-----------------------------------------------------------------------------
(* The calls.                                                               *)

Labels ==
    {"idle", "fbLock", "fbMap", "fbSlot", "initLock", "init", "take", "connect",
     "ashmem", "clearRead", "clearWrite", "unmap", "giveBack", "delete"}
Freeing == {"clearRead", "clearWrite", "unmap", "giveBack", "delete"}
Making == Labels \ (Freeing \cup {"idle"})

Types ==
    /\ used \in SUBSET [start : Nat, size : Nat \ {0}]
    /\ exposed \in SUBSET [start : Nat, size : Nat \ {0}]
    /\ buffers \in [Handle -> [kind : {"none", "pmem", "ashmem", "fb"},
                               start : Nat, size : Nat]]
    /\ pc \in [Thread -> Labels]
    /\ size \in [Thread -> Nat]
    /\ usage \in [Thread -> {"fb", "2d", "texture", "sw"}]
    /\ block \in [Thread -> [start : Nat, size : Nat]]
    /\ target \in [Thread -> Handle \cup {NoHandle}]
    /\ mask \in [Thread -> SUBSET Slots]
    /\ bufferMask \in SUBSET Slots

(* A buffer is freed by one thread, which knows what it is.                 *)

Targets ==
    \A t \in Thread :
        /\ pc[t] \in Freeing <=> target[t] # NoHandle
        /\ \A s \in Thread : s # t /\ target[t] # NoHandle => target[s] # target[t]
        /\ target[t] # NoHandle => buffers[target[t]] # None
        /\ pc[t] \in {"clearRead", "clearWrite"} => buffers[target[t]].kind = "fb"
        /\ pc[t] \in {"unmap", "giveBack"} => buffers[target[t]].kind = "pmem"

(* A call has a block from the allocator's answer to the handle.            *)

Blocked ==
    \A t \in Thread :
        /\ block[t] # NoBlock <=> pc[t] = "connect"
        /\ block[t] # NoBlock => block[t].size # 0
        /\ pc[t] \in Making => size[t] \in Sizes

-----------------------------------------------------------------------------
(* The pmem area: every block in use has one owner, and they are disjoint.  *)

Accounted ==
    \A b : b \in used <=>
        \/ \E h \in Handle : Holds(h) /\ b = Block(buffers[h])
        \/ \E t \in Thread : block[t] # NoBlock /\ b = block[t]
        \/ b \in exposed

OneOwner ==
    /\ \A h, k \in Handle :
           h # k /\ Holds(h) /\ Holds(k) => Block(buffers[h]) # Block(buffers[k])
    /\ \A h \in Handle, t \in Thread :
           Holds(h) /\ block[t] # NoBlock => Block(buffers[h]) # block[t]
    /\ \A s, t \in Thread : s # t /\ block[t] # NoBlock => block[s] # block[t]
    /\ \A h \in Handle : Holds(h) => Block(buffers[h]) \notin exposed
    /\ \A t \in Thread : block[t] # NoBlock => block[t] \notin exposed

Mapped ==
    /\ \A h \in Handle : Holds(h) => pmem_master = "ok"
    /\ \A t \in Thread : pc[t] \in {"take", "connect"} => pmem_master = "ok"

Apart == \A b, c \in used : b # c => H!Disjoint(b.start, b.size, c)

-----------------------------------------------------------------------------
(* The framebuffer: one thread has to do with it, so that the mask is what  *)
(* it was when it is written back.                                          *)

OneFbThread == \A s, t \in FbThreads : s = t

FbCalls ==
    \A t \in Thread :
        /\ pc[t] \in {"fbLock", "fbMap", "fbSlot"} => t \in FbThreads
        /\ target[t] # NoHandle /\ buffers[target[t]].kind = "fb" => t \in FbThreads
        /\ pc[t] = "clearWrite" => mask[t] = bufferMask
        /\ pc[t] = "fbSlot" => framebuffer # "null"

Deleting(h) == \E t \in Thread : target[t] = h /\ pc[t] = "delete"

PagesMarked ==
    \A h \in Handle :
        buffers[h].kind = "fb" =>
            /\ framebuffer # "null"
            /\ Deleting(h) \/ buffers[h].start \in bufferMask

IInv ==
    /\ Types /\ Targets /\ Blocked
    /\ Accounted /\ OneOwner /\ Apart /\ Mapped
    /\ FbCalls /\ PagesMarked /\ PagesDistinct

Memory == Accounted /\ OneOwner /\ Apart

-----------------------------------------------------------------------------
(* What a step may do to the blocks in use and their owners.                *)

\* It leaves them alone.
LEMMA SameOwners ==
    ASSUME Memory, UNCHANGED <<used, exposed, block>>,
           \A h \in Handle : Holds(h)' <=> Holds(h),
           \A h \in Handle : Holds(h) => buffers'[h] = buffers[h]
    PROVE  Memory'
  <1>1. \A h \in Handle : Holds(h) => Block(buffers[h])' = Block(buffers[h])
    BY DEF Block
  <1>2. Accounted'
    BY <1>1 DEF Memory, Accounted, NoBlock, None, Block
  <1>3. OneOwner'
    BY <1>1 DEF Memory, OneOwner
  <1>4. Apart'
    BY DEF Memory, Apart
  <1> QED
    BY <1>2, <1>3, <1>4 DEF Memory

\* A call takes a block that is free.
LEMMA Taken ==
    ASSUME Memory, NEW t \in Thread, NEW b, b # NoBlock, b \notin used, block[t] = NoBlock,
           \A c \in used : H!Disjoint(b.start, b.size, c) /\ H!Disjoint(c.start, c.size, b),
           used' = used \cup {b}, block' = [block EXCEPT ![t] = b],
           block \in [Thread -> [start : Nat, size : Nat]],
           UNCHANGED <<exposed, buffers>>, \A h \in Handle : Holds(h)' <=> Holds(h)
    PROVE  Memory'
  <1>1. block'[t] = b /\ \A s \in Thread : s # t => block'[s] = block[s]
    OBVIOUS
  <1>2. \A h \in Handle : Block(buffers[h])' = Block(buffers[h])
    BY DEF Block
  <1>3. Accounted'
    BY <1>1, <1>2 DEF Memory, Accounted
  <1>4. \A s \in Thread : block[s] # NoBlock => block[s] # b
    BY DEF Memory, Accounted
  <1>5. b \notin exposed /\ \A h \in Handle : Holds(h) => Block(buffers[h]) # b
    BY DEF Memory, Accounted
  <1>6. OneOwner'
    BY <1>1, <1>2, <1>4, <1>5 DEF Memory, OneOwner
  <1>7. Apart'
    BY DEF Memory, Apart
  <1> QED
    BY <1>3, <1>6, <1>7 DEF Memory

\* It hands it to the buffer it makes.
LEMMA HandedOver ==
    ASSUME Memory, NEW t \in Thread, NEW g \in Handle, block[t] # NoBlock,
           block' = [block EXCEPT ![t] = NoBlock],
           block \in [Thread -> [start : Nat, size : Nat]],
           UNCHANGED <<used, exposed>>,
           Block(buffers[g])' = block[t], ~Holds(g), Holds(g)',
           \A h \in Handle \ {g} : /\ Holds(h)' <=> Holds(h)
                                   /\ Block(buffers[h])' = Block(buffers[h])
    PROVE  Memory'
  <1>1. block'[t] = NoBlock /\ \A s \in Thread : s # t => block'[s] = block[s]
    OBVIOUS
  <1>2. Accounted'
    <2> SUFFICES ASSUME NEW b
                 PROVE  b \in used <=>
                            \/ \E h \in Handle : Holds(h)' /\ b = Block(buffers[h])'
                            \/ \E s \in Thread : block'[s] # NoBlock /\ b = block'[s]
                            \/ b \in exposed
      BY DEF Accounted, NoBlock, None, Block
    <2>1. b \in used <=>
              \/ \E h \in Handle : Holds(h) /\ b = Block(buffers[h])
              \/ \E s \in Thread : block[s] # NoBlock /\ b = block[s]
              \/ b \in exposed
      BY DEF Memory, Accounted
    <2> QED
      BY <1>1, <2>1
  <1>3. OneOwner'
    BY <1>1 DEF Memory, OneOwner
  <1>4. Apart'
    BY DEF Memory, Apart
  <1> QED
    BY <1>2, <1>3, <1>4 DEF Memory

\* It gives it back.
LEMMA GivenBackByCall ==
    ASSUME Memory, NEW t \in Thread, block[t] # NoBlock,
           used' = used \ {block[t]}, block' = [block EXCEPT ![t] = NoBlock],
           block \in [Thread -> [start : Nat, size : Nat]],
           UNCHANGED <<exposed, buffers>>, \A h \in Handle : Holds(h)' <=> Holds(h)
    PROVE  Memory'
  <1>1. block'[t] = NoBlock /\ \A s \in Thread : s # t => block'[s] = block[s]
    OBVIOUS
  <1>2. \A h \in Handle : Block(buffers[h])' = Block(buffers[h])
    BY DEF Block
  <1>3. Accounted'
    <2> SUFFICES ASSUME NEW b
                 PROVE  b \in used' <=>
                            \/ \E h \in Handle : Holds(h)' /\ b = Block(buffers[h])'
                            \/ \E s \in Thread : block'[s] # NoBlock /\ b = block'[s]
                            \/ b \in exposed
      BY DEF Accounted, NoBlock, None, Block
    <2>1. b \in used <=>
              \/ \E h \in Handle : Holds(h) /\ b = Block(buffers[h])
              \/ \E s \in Thread : block[s] # NoBlock /\ b = block[s]
              \/ b \in exposed
      BY DEF Memory, Accounted
    <2> QED
      BY <1>1, <1>2, <2>1 DEF Memory, OneOwner
  <1>4. OneOwner'
    BY <1>1, <1>2 DEF Memory, OneOwner, NoBlock, None, Block
  <1>5. Apart'
    BY DEF Memory, Apart
  <1> QED
    BY <1>3, <1>4, <1>5 DEF Memory

\* A buffer that goes gives it back, or leaves it to the process that has it.
LEMMA GivenUp ==
    ASSUME Memory, NEW g \in Handle, Holds(g), ~Holds(g)',
           \/ used' = used \ {Block(buffers[g])} /\ exposed' = exposed
           \/ used' = used /\ exposed' = exposed \cup {Block(buffers[g])},
           UNCHANGED <<buffers, block>>,
           \A t \in Thread : block[t] # Block(buffers[g]),
           \A h \in Handle \ {g} : Holds(h)' <=> Holds(h)
    PROVE  Memory'
  <1>1. \A h \in Handle : Block(buffers[h])' = Block(buffers[h])
    BY DEF Block
  <1>2. Accounted'
    <2> SUFFICES ASSUME NEW b
                 PROVE  b \in used' <=>
                            \/ \E h \in Handle : Holds(h)' /\ b = Block(buffers[h])'
                            \/ \E s \in Thread : block[s] # NoBlock /\ b = block[s]
                            \/ b \in exposed'
      BY DEF Accounted, NoBlock, None, Block
    <2>1. b \in used <=>
              \/ \E h \in Handle : Holds(h) /\ b = Block(buffers[h])
              \/ \E s \in Thread : block[s] # NoBlock /\ b = block[s]
              \/ b \in exposed
      BY DEF Memory, Accounted
    <2> QED
      BY <1>1, <2>1 DEF Memory, OneOwner
  <1>3. OneOwner'
    BY <1>1 DEF Memory, OneOwner, NoBlock, None, Block
  <1>4. Apart'
    BY DEF Memory, Apart
  <1> QED
    BY <1>2, <1>3, <1>4 DEF Memory

-----------------------------------------------------------------------------
(* What the calls do to each other.                                         *)

\* A call that makes a buffer keeps nothing that it has to give back until it
\* has a block.
LEMMA NothingKept ==
    ASSUME Types, Targets, Blocked, NEW t \in Thread,
           pc[t] \in Making \ {"connect"}, Return(t)
    PROVE  UNCHANGED <<block, target>> /\ pc' = [pc EXCEPT ![t] = "idle"]
  <1>1. block[t] = NoBlock /\ target[t] = NoHandle
    BY DEF Targets, Blocked, Making
  <1>2. block' = block /\ target' = target
    BY <1>1 DEF Types, Return
  <1> QED
    BY <1>2 DEF Return, Goto

\* Who holds a block, and which buffer is being deleted, only changes where a
\* call that frees one does.
LEMMA HoldersSame ==
    ASSUME Types, Targets, NEW t \in Thread, pc[t] \notin Freeing,
           NEW x \in Labels \ Freeing, pc' = [pc EXCEPT ![t] = x], target' = target
    PROVE  /\ \A h \in Handle : Deleting(h)' <=> Deleting(h)
           /\ \A h \in Handle : buffers'[h] = buffers[h] => (Holds(h)' <=> Holds(h))
           /\ pc' \in [Thread -> Labels]
  <1>1. target[t] = NoHandle
    BY DEF Targets
  <1>2. /\ \A s \in Thread : s # t => pc'[s] = pc[s]
        /\ pc' \in [Thread -> Labels]
    BY DEF Types
  <1>3. \A h \in Handle, s \in Thread : target[s] = h => pc'[s] = pc[s]
    BY <1>1, <1>2, HandleAssumption
  <1> QED
    BY <1>2, <1>3 DEF Deleting, Holds

\* A step of a call that makes a buffer, before it has made it.
LEMMA Moves ==
    ASSUME IInv, NEW t \in Thread, pc[t] \notin Freeing,
           NEW x \in Labels \ Freeing, pc' = [pc EXCEPT ![t] = x],
           UNCHANGED <<used, exposed, buffers, block, target>>
    PROVE  Targets' /\ Memory' /\ PagesDistinct'
  <1>1. \A h \in Handle : Holds(h)' <=> Holds(h)
    BY HoldersSame DEF IInv
  <1>2. Memory'
    BY <1>1, SameOwners DEF IInv, Memory
  <1>3. Targets'
    BY DEF IInv, Types, Targets, Freeing, Labels
  <1>4. PagesDistinct'
    BY DEF IInv, PagesDistinct
  <1> QED
    BY <1>2, <1>3, <1>4

\* A step that makes a buffer that has no block.
LEMMA Makes ==
    ASSUME IInv, NEW t \in Thread, pc[t] \in Making \ {"connect"}, Return(t),
           NEW b, Make(b), b.kind \in {"ashmem", "fb"}, b # None,
           UNCHANGED <<used, exposed>>
    PROVE  /\ Targets' /\ Memory'
           /\ \E g \in Handle :
                  /\ buffers[g] = None /\ buffers' = [buffers EXCEPT ![g] = b]
                  /\ \A h \in Handle : Deleting(h)' <=> Deleting(h)
           /\ \A h \in Handle : Holds(h)' <=> Holds(h)
  <1>1. PICK g \in Handle : buffers[g] = None /\ buffers' = [buffers EXCEPT ![g] = b]
    BY DEF Make
  <1>2. UNCHANGED <<block, target>> /\ pc' = [pc EXCEPT ![t] = "idle"]
    BY NothingKept DEF IInv
  <1>3. pc[t] \notin Freeing /\ "idle" \in Labels \ Freeing
    BY DEF Making, Freeing, Labels
  <1>4. buffers'[g] = b /\ \A h \in Handle : h # g => buffers'[h] = buffers[h]
    BY <1>1 DEF IInv, Types
  <1>5. ~Holds(g) /\ ~Holds(g)'
    BY <1>1, <1>4 DEF Holds, None
  <1>6. \A h \in Handle : Deleting(h)' <=> Deleting(h)
    BY <1>2, <1>3, HoldersSame DEF IInv
  <1>7. \A h \in Handle : Holds(h)' <=> Holds(h)
    BY <1>2, <1>3, <1>4, <1>5, HoldersSame DEF IInv
  <1>8. Memory'
    BY <1>2, <1>4, <1>5, <1>7, SameOwners DEF IInv, Memory
  <1>9. Targets'
    BY <1>1, <1>2, <1>3, <1>4 DEF IInv, Types, Targets, Freeing, Labels
  <1> QED
    BY <1>1, <1>6, <1>7, <1>8, <1>9

-----------------------------------------------------------------------------
(* How a call that makes a buffer goes on.                                  *)

\* A step of a call that makes a buffer, before it has a block or a page.
LEMMA Quiet ==
    ASSUME IInv, NEW t \in Thread, pc[t] \notin Freeing \cup {"connect"},
           NEW x \in Labels \ (Freeing \cup {"connect"}), pc' = [pc EXCEPT ![t] = x],
           UNCHANGED <<used, exposed, buffers, block, target>>,
           size' \in [Thread -> Nat], usage' \in [Thread -> {"fb", "2d", "texture", "sw"}],
           mask' \in [Thread -> SUBSET Slots], bufferMask' \in SUBSET Slots,
           \A s \in Thread : s # t => size'[s] = size[s] /\ mask'[s] = mask[s],
           x # "idle" => size'[t] \in Sizes,
           pmem_master = "ok" \/ x = "take" => pmem_master' = "ok",
           x \in {"fbLock", "fbMap", "fbSlot"} => t \in FbThreads,
           framebuffer # "null" \/ x = "fbSlot" => framebuffer' # "null",
           \/ bufferMask' = bufferMask
           \/ framebuffer = "null" /\ \A s \in Thread : pc[s] # "clearWrite"
    PROVE  IInv'
  <1> USE DEF Labels, Making, Freeing
  <1>1. /\ \A h \in Handle : (Holds(h)' <=> Holds(h)) /\ (Deleting(h)' <=> Deleting(h))
        /\ pc' \in [Thread -> Labels]
    BY HoldersSame DEF IInv
  <1>2. pc'[t] = x /\ \A s \in Thread : s # t => pc'[s] = pc[s]
    BY DEF IInv, Types
  <1>3. Targets' /\ Memory' /\ PagesDistinct'
    BY Moves
  <1>4. Types'
    BY <1>1 DEF IInv, Types
  <1>5. Blocked'
    BY <1>2 DEF IInv, Types, Targets, Blocked
  <1>6. Mapped'
    BY <1>1, <1>2 DEF IInv, Mapped
  <1>7. FbCalls'
    <2> SUFFICES ASSUME NEW s \in Thread
                 PROVE  /\ pc'[s] \in {"fbLock", "fbMap", "fbSlot"} => s \in FbThreads
                        /\ target[s] # NoHandle /\ buffers[target[s]].kind = "fb"
                               => s \in FbThreads
                        /\ pc'[s] = "clearWrite" => mask'[s] = bufferMask'
                        /\ pc'[s] = "fbSlot" => framebuffer' # "null"
      BY DEF FbCalls
    <2>1. CASE s = t
      BY <1>2, <2>1 DEF IInv, FbCalls
    <2>2. CASE s # t
      BY <1>2, <2>2 DEF IInv, FbCalls
    <2> QED
      BY <2>1, <2>2
  <1>8. PagesMarked'
    BY <1>1 DEF IInv, PagesMarked
  <1> QED
    BY <1>3, <1>4, <1>5, <1>6, <1>7, <1>8 DEF IInv, Memory

-----------------------------------------------------------------------------
(* Every step keeps the invariant.                                          *)

\* gralloc_alloc.
LEMMA AllocStep ==
    ASSUME IInv, NEW t \in Thread, NEW n \in Sizes, NEW u \in {"fb", "2d", "texture", "sw"},
           Alloc(t, n, u) PROVE IInv'
  <1> USE DEF Labels, Making, Freeing
  <1> DEFINE x == CASE u = "fb" -> "fbLock" [] u = "sw" -> "ashmem" [] OTHER -> "initLock"
  <1>1. /\ pc[t] = "idle" /\ pc' = [pc EXCEPT ![t] = x]
        /\ size' = [size EXCEPT ![t] = n] /\ usage' = [usage EXCEPT ![t] = u]
        /\ u = "fb" => t \in FbThreads
    BY DEF Alloc, Goto
  <1>2. UNCHANGED <<masterVars, heapVars, exposed, buffers, block, target, mask>>
    BY DEF Alloc
  <1>3. x \in {"fbLock", "ashmem", "initLock"} /\ (x = "fbLock" => u = "fb")
    OBVIOUS
  <1> HIDE DEF x
  <1>4. /\ size' \in [Thread -> Nat] /\ size'[t] = n
        /\ \A s \in Thread : s # t => size'[s] = size[s]
    BY <1>1, PageAssumption DEF IInv, Types
  <1>5. usage' \in [Thread -> {"fb", "2d", "texture", "sw"}]
    BY <1>1 DEF IInv, Types
  <1> QED
    BY <1>1, <1>2, <1>3, <1>4, <1>5, Quiet DEF IInv, Types, masterVars, heapVars

\* gralloc_alloc_framebuffer takes the mutex.
LEMMA FbLockStep ==
    ASSUME IInv, NEW t \in Thread, FbLock(t) PROVE IInv'
  <1> USE DEF Labels, Making, Freeing
  <1>1. pc[t] = "fbLock" /\ pc' = [pc EXCEPT ![t] = "fbMap"]
    BY DEF FbLock, Goto
  <1>2. UNCHANGED <<framebuffer, bufferMask, pmem_master, heapVars, exposed, buffers, localVars>>
    BY DEF FbLock
  <1>3. t \in FbThreads /\ size[t] \in Sizes
    BY <1>1 DEF IInv, FbCalls, Blocked
  <1> QED
    BY <1>1, <1>2, <1>3, Quiet DEF IInv, Types, heapVars, localVars

\* init_pmem_area takes the mutex.
LEMMA InitLockStep ==
    ASSUME IInv, NEW t \in Thread, InitLock(t) PROVE IInv'
  <1> USE DEF Labels, Making, Freeing
  <1>1. pc[t] = "initLock" /\ pc' = [pc EXCEPT ![t] = "init"]
    BY DEF InitLock, Goto
  <1>2. UNCHANGED <<framebuffer, bufferMask, pmem_master, heapVars, exposed, buffers, localVars>>
    BY DEF InitLock
  <1>3. size[t] \in Sizes
    BY <1>1 DEF IInv, Blocked
  <1> QED
    BY <1>1, <1>2, <1>3, Quiet DEF IInv, Types, heapVars, localVars

\* A call that makes a buffer returns without one.
LEMMA ReturnStep ==
    ASSUME IInv, NEW t \in Thread, pc[t] \in Making \ {"connect"}, Return(t),
           UNCHANGED <<used, exposed, buffers>>, bufferMask' \in SUBSET Slots,
           pmem_master = "ok" => pmem_master' = "ok",
           framebuffer # "null" => framebuffer' # "null",
           \/ bufferMask' = bufferMask
           \/ framebuffer = "null" /\ \A s \in Thread : pc[s] # "clearWrite"
    PROVE  IInv'
  <1> USE DEF Labels, Making, Freeing
  <1>1. UNCHANGED <<block, target>> /\ pc' = [pc EXCEPT ![t] = "idle"]
    BY NothingKept DEF IInv
  <1>2. /\ size' = [size EXCEPT ![t] = 0] /\ usage' = [usage EXCEPT ![t] = "sw"]
        /\ mask' = [mask EXCEPT ![t] = {}]
    BY DEF Return
  <1>3. /\ size' \in [Thread -> Nat] /\ usage' \in [Thread -> {"fb", "2d", "texture", "sw"}]
        /\ mask' \in [Thread -> SUBSET Slots]
        /\ \A s \in Thread : s # t => size'[s] = size[s] /\ mask'[s] = mask[s]
    BY <1>2 DEF IInv, Types
  <1> QED
    BY <1>1, <1>3, Quiet DEF IInv, Types

\* A buffer of the framebuffer is there only after it has been mapped.
LEMMA NoPageYet ==
    ASSUME IInv, framebuffer = "null"
    PROVE  \A s \in Thread : pc[s] # "clearWrite"
  BY HandleAssumption DEF IInv, Targets, Types, Freeing, PagesMarked

\* The mapping of the framebuffer.
LEMMA FbMapStep ==
    ASSUME IInv, NEW t \in Thread, FbMap(t) PROVE IInv'
  <1> USE DEF Labels, Making, Freeing
  <1>1. pc[t] = "fbMap" /\ UNCHANGED <<pmem_master, heapVars, exposed, buffers>>
    BY DEF FbMap
  <1>2. t \in FbThreads /\ size[t] \in Sizes
    BY <1>1 DEF IInv, FbCalls, Blocked
  <1>3. bufferMask' \in SUBSET Slots /\ (bufferMask' = bufferMask \/ framebuffer = "null")
    BY DEF FbMap, IInv, Types
  <1>4. framebuffer # "null" => framebuffer' # "null"
    BY DEF FbMap
  <1>5. CASE Return(t)
    BY <1>1, <1>3, <1>4, <1>5, NoPageYet, ReturnStep DEF heapVars
  <1>6. CASE Goto(t, "fbSlot") /\ UNCHANGED localVars /\ framebuffer' # "null"
    BY <1>1, <1>2, <1>3, <1>6, NoPageYet, Quiet DEF IInv, Types, heapVars, localVars, Goto
  <1> QED
    BY <1>5, <1>6 DEF FbMap

\* The assumption that one thread has to do with the framebuffer is used where
\* its bits are set and cleared.
LEMMA FbSlotStep ==
    ASSUME OneFbThread, IInv, NEW t \in Thread, FbSlot(t) PROVE IInv'
  <1> USE DEF Labels, Making, Freeing
  <1>1. /\ pc[t] = "fbSlot" /\ UNCHANGED <<framebuffer, pmem_master, heapVars, exposed>>
        /\ t \in FbThreads /\ size[t] \in Sizes /\ framebuffer # "null"
    BY DEF FbSlot, IInv, FbCalls, Blocked
  <1>2. CASE numBuffers = 1
    <2>1. /\ pc' = [pc EXCEPT ![t] = "initLock"] /\ usage' = [usage EXCEPT ![t] = "2d"]
          /\ UNCHANGED <<bufferMask, buffers, size, block, target, mask>>
      BY <1>2 DEF FbSlot, Goto
    <2>2. usage' \in [Thread -> {"fb", "2d", "texture", "sw"}]
      BY <2>1 DEF IInv, Types
    <2> QED
      BY <1>1, <2>1, <2>2, Quiet DEF IInv, Types, heapVars
  <1>3. CASE Return(t) /\ UNCHANGED <<bufferMask, buffers>>
    BY <1>1, <1>3, ReturnStep DEF IInv, Types, heapVars
  <1>4. ASSUME NEW slot \in Slots \ bufferMask, bufferMask' = bufferMask \cup {slot},
               Make(Page(slot)), Return(t)
        PROVE  IInv'
    <2> DEFINE b == Page(slot)
    <2>1. b.kind = "fb" /\ b.start = slot /\ b # None
      BY DEF Page, None
    <2>2. b \in [kind : {"none", "pmem", "ashmem", "fb"}, start : Nat, size : Nat]
      BY DEF Page, Slots
    <2> HIDE DEF b
    <2>3. UNCHANGED <<block, target>> /\ pc' = [pc EXCEPT ![t] = "idle"]
      BY <1>1, <1>4, NothingKept DEF IInv
    <2>4. Targets' /\ Memory' /\ \A h \in Handle : Holds(h)' <=> Holds(h)
      BY <1>1, <1>4, <2>1, Makes DEF heapVars, b
    <2>5. PICK g \in Handle :
              /\ buffers[g] = None /\ buffers' = [buffers EXCEPT ![g] = b]
              /\ \A h \in Handle : Deleting(h)' <=> Deleting(h)
      BY <1>1, <1>4, <2>1, Makes DEF heapVars, b
    <2>6. buffers'[g] = b /\ \A h \in Handle : h # g => buffers'[h] = buffers[h]
      BY <2>5 DEF IInv, Types
    <2>7. /\ pc'[t] = "idle" /\ pc' \in [Thread -> Labels]
          /\ \A s \in Thread : s # t => pc'[s] = pc[s]
      BY <2>3 DEF IInv, Types
    <2>8. \A s \in Thread : target[s] # NoHandle => buffers[target[s]].kind # "fb"
      BY <1>1 DEF OneFbThread, IInv, FbCalls, Targets
    <2>9. \A h \in Handle : buffers[h].kind = "fb" => buffers[h].start \in bufferMask
      BY <2>8, HandleAssumption DEF IInv, PagesMarked, Deleting
    <2>10. Types'
      <3>1. /\ size' \in [Thread -> Nat] /\ usage' \in [Thread -> {"fb", "2d", "texture", "sw"}]
            /\ mask' \in [Thread -> SUBSET Slots]
        BY <1>4 DEF Return, IInv, Types
      <3>2. buffers' \in [Handle -> [kind : {"none", "pmem", "ashmem", "fb"},
                                     start : Nat, size : Nat]]
        BY <2>2, <2>5 DEF IInv, Types
      <3> QED
        BY <1>1, <1>4, <2>3, <2>7, <3>1, <3>2 DEF IInv, Types, heapVars
    <2>11. Blocked'
      <3>1. \A s \in Thread : s # t => size'[s] = size[s]
        BY <1>4 DEF Return, IInv, Types
      <3> QED
        BY <1>1, <2>3, <2>7, <3>1 DEF IInv, Blocked
    <2>12. Mapped'
      BY <1>1, <2>4, <2>7 DEF IInv, Mapped
    <2>13. FbCalls'
      <3>1. \A s \in Thread : target[s] # NoHandle => buffers'[target[s]] = buffers[target[s]]
        BY <2>5, <2>6 DEF IInv, Types, Targets
      <3>2. \A s \in Thread : pc'[s] # "clearWrite"
        BY <2>7, <2>8 DEF IInv, Targets
      <3> QED
        BY <1>1, <2>3, <2>7, <3>1, <3>2 DEF IInv, FbCalls
    <2>14. PagesMarked'
      BY <1>1, <1>4, <2>1, <2>5, <2>6 DEF IInv, PagesMarked
    <2>15. PagesDistinct'
      BY <1>4, <2>1, <2>6, <2>9 DEF IInv, PagesDistinct
    <2> QED
      BY <2>4, <2>10, <2>11, <2>12, <2>13, <2>14, <2>15 DEF IInv, Memory
  <1> QED
    BY <1>2, <1>3, <1>4 DEF FbSlot

\* init_pmem_area changes neither blocks nor buffers.
LEMMA InitPmemStep ==
    ASSUME IInv, NEW t \in Thread, InitPmem(t) PROVE IInv'
  <1> USE DEF Labels, Making, Freeing
  <1>1. /\ pc[t] = "init" /\ UNCHANGED <<framebuffer, bufferMask, used, exposed, buffers>>
        /\ pmem_master = "ok" => pmem_master' = "ok"
    BY DEF InitPmem, heapVars, H!Reject, H!Prepare
  <1>2. size[t] \in Sizes
    BY <1>1 DEF IInv, Blocked
  <1>3. CASE Return(t)
    BY <1>1, <1>3, ReturnStep DEF IInv, Types
  <1>4. CASE Goto(t, "ashmem") /\ UNCHANGED localVars
    BY <1>1, <1>2, <1>4, Quiet DEF IInv, Types, localVars, Goto
  <1>5. CASE Goto(t, "take") /\ UNCHANGED localVars /\ pmem_master' = "ok"
    BY <1>1, <1>2, <1>5, Quiet DEF IInv, Types, localVars, Goto
  <1> QED
    BY <1>3, <1>4, <1>5 DEF InitPmem, AfterInit

\* The allocator's answer is a block of its own.
LEMMA TakeStep ==
    ASSUME IInv, NEW t \in Thread, Take(t) PROVE IInv'
  <1> USE DEF Labels, Making, Freeing
  <1>1. pc[t] = "take" /\ size[t] \in Sizes /\ size[t] \in Nat \ {0} /\ block[t] = NoBlock
    BY PageAssumption DEF Take, IInv, Blocked
  <1>2. UNCHANGED <<masterVars, exposed, buffers>>
    BY DEF Take
  <1>3. CASE H!Refuse(size[t]) /\ Return(t)
    BY <1>1, <1>2, <1>3, ReturnStep DEF masterVars, H!Refuse, IInv, Types
  <1>4. CASE /\ H!Take(size[t])
             /\ block' = [block EXCEPT ![t] = [start |-> answer'.at, size |-> size[t]]]
             /\ Goto(t, "connect")
             /\ UNCHANGED <<size, usage, target, mask>>
    <2>1. PICK at \in H!Places(size[t]) :
              /\ used' = used \cup {[start |-> at, size |-> size[t]]}
              /\ answer' = H!Granted(at)
      BY <1>4 DEF H!Take
    <2> DEFINE b == [start |-> at, size |-> size[t]]
    <2>2. answer'.at = at
      BY <2>1 DEF H!Granted
    <2>3. used' = used \cup {b} /\ block' = [block EXCEPT ![t] = b]
      BY <1>4, <2>1, <2>2
    <2>4. at \in Nat /\ \A c \in used : H!Disjoint(at, size[t], c)
      BY <2>1, PageAssumption DEF H!Places, H!Room
    <2>5. /\ b.start = at /\ b.size = size[t] /\ b # NoBlock
          /\ b \in [start : Nat, size : Nat \ {0}]
      BY <1>1, <2>4 DEF NoBlock, None, Block
    <2>6. \A c \in used : c.start \in Nat /\ c.size \in Nat
      BY DEF IInv, Types
    <2>7. \A c \in used : H!Disjoint(b.start, b.size, c) /\ H!Disjoint(c.start, c.size, b)
      BY <2>4, <2>5 DEF H!Disjoint
    <2>8. b \notin used
      BY <1>1, <2>4, <2>5 DEF H!Disjoint
    <2> HIDE DEF b
    <2>9. /\ pc' = [pc EXCEPT ![t] = "connect"] /\ pc[t] \notin Freeing
          /\ pc'[t] = "connect" /\ \A s \in Thread : s # t => pc'[s] = pc[s]
      BY <1>1, <1>4 DEF Goto, IInv, Types
    <2>10. /\ \A h \in Handle : (Holds(h)' <=> Holds(h)) /\ (Deleting(h)' <=> Deleting(h))
           /\ pc' \in [Thread -> Labels]
      BY <1>2, <1>4, <2>9, HoldersSame DEF IInv
    <2>11. Memory'
      <3>1. block \in [Thread -> [start : Nat, size : Nat]]
        BY DEF IInv, Types
      <3> QED
        BY <1>1, <1>2, <2>3, <2>5, <2>7, <2>8, <2>10, <3>1, Taken DEF IInv, Memory
    <2>12. /\ block' \in [Thread -> [start : Nat, size : Nat]] /\ block'[t] = b
           /\ \A s \in Thread : s # t => block'[s] = block[s]
      BY <2>3, <2>5 DEF IInv, Types
    <2>13. Types'
      BY <1>2, <1>4, <2>3, <2>5, <2>10, <2>12 DEF IInv, Types, masterVars
    <2>14. Targets'
      BY <1>1, <1>2, <1>4, <2>9 DEF IInv, Targets
    <2>15. Blocked'
      BY <1>1, <1>4, <2>5, <2>9, <2>12 DEF IInv, Blocked
    <2>16. Mapped'
      BY <1>1, <1>2, <2>9, <2>10 DEF IInv, Mapped, masterVars
    <2>17. FbCalls' /\ PagesMarked' /\ PagesDistinct'
      BY <1>2, <1>4, <2>9, <2>10 DEF IInv, FbCalls, PagesMarked, PagesDistinct, masterVars
    <2> QED
      BY <2>11, <2>13, <2>14, <2>15, <2>16, <2>17 DEF IInv, Memory
  <1> QED
    BY <1>3, <1>4 DEF Take

\* The block goes to the new buffer or back.
LEMMA ConnectStep ==
    ASSUME IInv, NEW t \in Thread, Connect(t) PROVE IInv'
  <1> USE DEF Labels, Making, Freeing
  <1>1. /\ pc[t] = "connect" /\ block[t] # NoBlock /\ target[t] = NoHandle
        /\ block \in [Thread -> [start : Nat, size : Nat]]
    BY DEF Connect, IInv, Types, Targets, Blocked
  <1>2. /\ UNCHANGED <<masterVars, exposed>>
        /\ block' = [block EXCEPT ![t] = NoBlock]
        /\ pc' = [pc EXCEPT ![t] = "idle"]
    BY DEF Connect, Return, Goto
  <1>3. target' = target
    BY <1>1 DEF Connect, Return, IInv, Types
  <1>4. /\ size' \in [Thread -> Nat] /\ usage' \in [Thread -> {"fb", "2d", "texture", "sw"}]
        /\ mask' \in [Thread -> SUBSET Slots]
        /\ \A s \in Thread : s # t => size'[s] = size[s] /\ mask'[s] = mask[s]
    BY DEF Connect, Return, IInv, Types
  <1>5. /\ block'[t] = NoBlock /\ \A s \in Thread : s # t => block'[s] = block[s]
        /\ block' \in [Thread -> [start : Nat, size : Nat]]
    BY <1>1, <1>2 DEF NoBlock, None, Block
  <1>6. /\ pc'[t] = "idle" /\ \A s \in Thread : s # t => pc'[s] = pc[s]
        /\ pc' \in [Thread -> Labels]
    BY <1>2 DEF IInv, Types
  <1>7. /\ \A h \in Handle : Deleting(h)' <=> Deleting(h)
        /\ \A h \in Handle : buffers'[h] = buffers[h] => (Holds(h)' <=> Holds(h))
    BY <1>1, <1>2, <1>3, HoldersSame DEF IInv
  <1>8. Blocked'
    BY <1>4, <1>5, <1>6 DEF IInv, Blocked
  <1>9. CASE H!Return(block[t]) /\ UNCHANGED buffers
    <2>1. used' = used \ {block[t]}
      BY <1>9 DEF H!Return
    <2>2. Memory'
      BY <1>1, <1>2, <1>7, <1>9, <2>1, GivenBackByCall DEF IInv, Memory
    <2>3. Types'
      BY <1>2, <1>3, <1>4, <1>5, <1>6, <1>9, <2>1 DEF IInv, Types, masterVars
    <2>4. Targets'
      BY <1>1, <1>3, <1>6, <1>9 DEF IInv, Targets
    <2>5. Mapped'
      BY <1>2, <1>6, <1>7, <1>9 DEF IInv, Mapped, masterVars
    <2>6. FbCalls'
      BY <1>2, <1>3, <1>4, <1>6, <1>9 DEF IInv, FbCalls, masterVars
    <2>7. PagesMarked' /\ PagesDistinct'
      BY <1>2, <1>7, <1>9 DEF IInv, PagesMarked, PagesDistinct, masterVars
    <2> QED
      BY <1>8, <2>2, <2>3, <2>4, <2>5, <2>6, <2>7 DEF IInv, Memory
  <1>10. CASE Make(Pmem(block[t].start, block[t].size)) /\ UNCHANGED heapVars
    <2> DEFINE b == Pmem(block[t].start, block[t].size)
    <2>1. /\ b.kind = "pmem" /\ b # None
          /\ b \in [kind : {"none", "pmem", "ashmem", "fb"}, start : Nat, size : Nat]
      BY <1>1 DEF Pmem, None
    <2>2. Block(b) = block[t]
      BY <1>1 DEF Pmem, Block
    <2> HIDE DEF b
    <2>3. PICK g \in Handle : buffers[g] = None /\ buffers' = [buffers EXCEPT ![g] = b]
      BY <1>10 DEF Make, b
    <2>4. buffers'[g] = b /\ \A h \in Handle : h # g => buffers'[h] = buffers[h]
      BY <2>3 DEF IInv, Types
    <2>5. \A s \in Thread : target[s] # g
      BY <2>3, HandleAssumption DEF IInv, Targets
    <2>6. ~Holds(g) /\ Holds(g)'
      <3>1. buffers[g].kind = "none"
        BY <2>3 DEF None
      <3> QED
        BY <1>3, <2>1, <2>4, <2>5, <3>1 DEF Holds
    <2>7. \A h \in Handle \ {g} :
              (Holds(h)' <=> Holds(h)) /\ Block(buffers[h])' = Block(buffers[h])
      BY <1>7, <2>4 DEF Block
    <2>8. Block(buffers[g])' = block[t]
      BY <2>2, <2>4 DEF Block
    <2>9. Memory'
      BY <1>1, <1>2, <1>10, <2>6, <2>7, <2>8, HandedOver DEF IInv, Memory, heapVars
    <2>10. Types'
      BY <1>2, <1>3, <1>4, <1>5, <1>6, <1>10, <2>1, <2>3 DEF IInv, Types, masterVars, heapVars
    <2>11. \A s \in Thread : target[s] # NoHandle => buffers'[target[s]] = buffers[target[s]]
      BY <2>4, <2>5 DEF IInv, Types
    <2>12. Targets'
      BY <1>1, <1>3, <1>6, <2>11 DEF IInv, Targets
    <2>13. Mapped'
      BY <1>1, <1>2, <1>6, <2>7 DEF IInv, Mapped, masterVars
    <2>14. FbCalls'
      BY <1>2, <1>3, <1>4, <1>6, <2>11 DEF IInv, FbCalls, masterVars
    <2>15. PagesMarked' /\ PagesDistinct'
      BY <1>2, <1>7, <2>1, <2>4 DEF IInv, PagesMarked, PagesDistinct, masterVars
    <2> QED
      BY <1>8, <2>9, <2>10, <2>12, <2>13, <2>14, <2>15 DEF IInv, Memory
  <1> QED
    BY <1>9, <1>10 DEF Connect

LEMMA CreateAshmemStep ==
    ASSUME IInv, NEW t \in Thread, CreateAshmem(t) PROVE IInv'
  <1> USE DEF Labels, Making, Freeing
  <1>1. /\ pc[t] = "ashmem" /\ size[t] \in Nat /\ Return(t)
        /\ UNCHANGED <<masterVars, heapVars, exposed>>
    BY DEF CreateAshmem, IInv, Types
  <1>2. CASE UNCHANGED buffers
    BY <1>1, <1>2, ReturnStep DEF IInv, Types, masterVars, heapVars
  <1>3. CASE Make(Ashmem(size[t]))
    <2> DEFINE b == Ashmem(size[t])
    <2>1. /\ b.kind = "ashmem" /\ b # None
          /\ b \in [kind : {"none", "pmem", "ashmem", "fb"}, start : Nat, size : Nat]
      BY <1>1 DEF Ashmem, None
    <2> HIDE DEF b
    <2>2. UNCHANGED <<block, target>> /\ pc' = [pc EXCEPT ![t] = "idle"]
      BY <1>1, NothingKept DEF IInv
    <2>3. Targets' /\ Memory' /\ \A h \in Handle : Holds(h)' <=> Holds(h)
      BY <1>1, <1>3, <2>1, Makes DEF heapVars, b
    <2>4. PICK g \in Handle :
              /\ buffers[g] = None /\ buffers' = [buffers EXCEPT ![g] = b]
              /\ \A h \in Handle : Deleting(h)' <=> Deleting(h)
      BY <1>1, <1>3, <2>1, Makes DEF heapVars, b
    <2>5. buffers'[g] = b /\ \A h \in Handle : h # g => buffers'[h] = buffers[h]
      BY <2>4 DEF IInv, Types
    <2>6. /\ pc'[t] = "idle" /\ pc' \in [Thread -> Labels]
          /\ \A s \in Thread : s # t => pc'[s] = pc[s]
      BY <2>2 DEF IInv, Types
    <2>7. /\ size' \in [Thread -> Nat] /\ usage' \in [Thread -> {"fb", "2d", "texture", "sw"}]
          /\ mask' \in [Thread -> SUBSET Slots]
          /\ \A s \in Thread : s # t => size'[s] = size[s] /\ mask'[s] = mask[s]
      BY <1>1 DEF Return, IInv, Types
    <2>8. Types'
      BY <1>1, <2>1, <2>2, <2>4, <2>6, <2>7 DEF IInv, Types, masterVars, heapVars
    <2>9. Blocked'
      BY <1>1, <2>2, <2>6, <2>7 DEF IInv, Blocked
    <2>10. Mapped'
      BY <1>1, <2>3, <2>6 DEF IInv, Mapped, masterVars
    <2>11. \A s \in Thread : target[s] # NoHandle => buffers'[target[s]] = buffers[target[s]]
      BY <2>4, <2>5 DEF IInv, Types, Targets
    <2>12. FbCalls'
      BY <1>1, <2>2, <2>6, <2>7, <2>11 DEF IInv, FbCalls, masterVars
    <2>13. PagesMarked' /\ PagesDistinct'
      BY <1>1, <2>1, <2>4, <2>5 DEF IInv, PagesMarked, PagesDistinct, masterVars
    <2> QED
      BY <2>3, <2>8, <2>9, <2>10, <2>12, <2>13 DEF IInv, Memory
  <1> QED
    BY <1>1, <1>2, <1>3 DEF CreateAshmem

-----------------------------------------------------------------------------
(* gralloc_free.                                                            *)

\* The buffer is still all there.
LEMMA FreeStep ==
    ASSUME IInv, NEW t \in Thread, NEW g \in Handle, Free(t, g) PROVE IInv'
  <1> USE DEF Labels, Making, Freeing
  <1>1. /\ pc[t] = "idle" /\ buffers[g] # None /\ \A s \in Thread : target[s] # g
        /\ buffers[g].kind = "fb" => t \in FbThreads
    BY DEF Free
  <1>2. /\ target' = [target EXCEPT ![t] = g]
        /\ UNCHANGED <<masterVars, heapVars, exposed, buffers, size, usage, block, mask>>
    BY DEF Free
  <1>3. PICK x \in {"clearRead", "unmap", "delete"} :
            /\ pc' = [pc EXCEPT ![t] = x]
            /\ x = "clearRead" <=> buffers[g].kind = "fb"
            /\ x = "unmap" <=> buffers[g].kind = "pmem"
    BY DEF Free, Goto
  <1>4. /\ pc'[t] = x /\ \A s \in Thread : s # t => pc'[s] = pc[s]
        /\ pc' \in [Thread -> Labels]
    BY <1>3 DEF IInv, Types
  <1>5. /\ target'[t] = g /\ target[t] = NoHandle /\ \A s \in Thread : s # t => target'[s] = target[s]
        /\ target' \in [Thread -> Handle \cup {NoHandle}]
    BY <1>1, <1>2 DEF IInv, Types, Targets
  <1>6. \A h \in Handle : Holds(h)' <=> Holds(h)
    <2> SUFFICES ASSUME NEW h \in Handle, buffers[h].kind = "pmem"
                 PROVE  (\A s \in Thread : target'[s] = h => pc'[s] # "delete")
                            <=> (\A s \in Thread : target[s] = h => pc[s] # "delete")
      BY <1>2 DEF Holds
    <2>1. CASE h = g
      BY <1>1, <1>3, <1>4, <1>5, <2>1
    <2>2. CASE h # g
      BY <1>4, <1>5, <2>2, HandleAssumption
    <2> QED
      BY <2>1, <2>2
  <1>7. Memory'
    BY <1>2, <1>6, SameOwners DEF IInv, Memory, heapVars
  <1>8. Types'
    BY <1>2, <1>4, <1>5 DEF IInv, Types, heapVars, masterVars
  <1>9. Targets'
    BY <1>1, <1>2, <1>3, <1>4, <1>5, HandleAssumption DEF IInv, Targets
  <1>10. Blocked'
    BY <1>1, <1>2, <1>4 DEF IInv, Blocked
  <1>11. Mapped'
    BY <1>2, <1>4, <1>6 DEF IInv, Mapped, masterVars
  <1>12. FbCalls'
    BY <1>1, <1>2, <1>3, <1>4, <1>5 DEF IInv, FbCalls, masterVars
  <1>13. PagesMarked'
    <2>1. \A h \in Handle : Deleting(h) => Deleting(h)'
      BY <1>4, <1>5, HandleAssumption DEF Deleting
    <2> QED
      BY <1>2, <2>1 DEF IInv, PagesMarked, masterVars
  <1>14. PagesDistinct'
    BY <1>2 DEF IInv, PagesDistinct
  <1> QED
    BY <1>7, <1>8, <1>9, <1>10, <1>11, <1>12, <1>13, <1>14 DEF IInv, Memory

\* What every step of a call that frees a buffer has in common, but the last.
LEMMA FreesOn ==
    ASSUME IInv, NEW t \in Thread, pc[t] \in Freeing,
           NEW x \in {"clearWrite", "giveBack", "delete"}, pc' = [pc EXCEPT ![t] = x],
           x = "clearWrite" => buffers[target[t]].kind = "fb",
           x = "giveBack" => buffers[target[t]].kind = "pmem",
           UNCHANGED <<framebuffer, pmem_master, buffers, size, usage, block, target>>,
           used' \in SUBSET [start : Nat, size : Nat \ {0}],
           exposed' \in SUBSET [start : Nat, size : Nat \ {0}],
           mask' \in [Thread -> SUBSET Slots], bufferMask' \in SUBSET Slots,
           \A h \in Handle : Holds(h)' => Holds(h),
           \A s \in Thread : pc'[s] = "clearWrite" => mask'[s] = bufferMask',
           Memory', PagesMarked'
    PROVE  IInv'
  <1> USE DEF Labels, Making, Freeing
  <1>1. /\ pc'[t] = x /\ \A s \in Thread : s # t => pc'[s] = pc[s]
        /\ pc' \in [Thread -> Labels]
    BY DEF IInv, Types
  <1>2. Types'
    BY <1>1 DEF IInv, Types
  <1>3. Targets'
    BY <1>1 DEF IInv, Targets
  <1>4. Blocked'
    BY <1>1 DEF IInv, Blocked
  <1>5. Mapped'
    BY <1>1 DEF IInv, Mapped
  <1>6. FbCalls'
    BY <1>1 DEF IInv, FbCalls
  <1>7. PagesDistinct'
    BY DEF IInv, PagesDistinct
  <1> QED
    BY <1>2, <1>3, <1>4, <1>5, <1>6, <1>7 DEF IInv, Memory

\* A step that neither begins nor ends the deletion of a buffer with pmem.
LEMMA ClearReadStep ==
    ASSUME IInv, NEW t \in Thread, ClearRead(t) PROVE IInv'
  <1> USE DEF Labels, Making, Freeing
  <1>1. /\ pc[t] = "clearRead" /\ pc' = [pc EXCEPT ![t] = "clearWrite"]
        /\ mask' = [mask EXCEPT ![t] = bufferMask]
        /\ UNCHANGED <<masterVars, heapVars, exposed, buffers, size, usage, block, target>>
    BY DEF ClearRead, Goto
  <1>2. buffers[target[t]].kind = "fb"
    BY <1>1 DEF IInv, Targets
  <1>3. pc'[t] = "clearWrite" /\ \A s \in Thread : s # t => pc'[s] = pc[s]
    BY <1>1 DEF IInv, Types
  <1>4. /\ mask' \in [Thread -> SUBSET Slots] /\ mask'[t] = bufferMask
        /\ \A s \in Thread : s # t => mask'[s] = mask[s]
    BY <1>1 DEF IInv, Types
  <1>5. \A h \in Handle : Holds(h)' <=> Holds(h)
    BY <1>1, <1>3 DEF Holds
  <1>6. \A h \in Handle : Deleting(h)' <=> Deleting(h)
    BY <1>1, <1>3 DEF Deleting
  <1>7. Memory'
    BY <1>1, <1>5, SameOwners DEF IInv, Memory, heapVars
  <1>8. PagesMarked'
    BY <1>1, <1>6 DEF IInv, PagesMarked, masterVars
  <1>9. \A s \in Thread : pc'[s] = "clearWrite" => mask'[s] = bufferMask'
    BY <1>1, <1>3, <1>4 DEF IInv, FbCalls, masterVars
  <1> QED
    BY <1>1, <1>2, <1>4, <1>5, <1>7, <1>8, <1>9, FreesOn DEF IInv, Types, masterVars, heapVars

\* The mask that is written back is the one that is there, but for one bit.
LEMMA ClearWriteStep ==
    ASSUME OneFbThread, IInv, NEW t \in Thread, ClearWrite(t) PROVE IInv'
  <1> USE DEF Labels, Making, Freeing
  <1>0. PICK g \in Handle : g = target[t]
    BY DEF ClearWrite, IInv, Types, Targets
  <1>1. /\ pc[t] = "clearWrite" /\ pc' = [pc EXCEPT ![t] = "delete"]
        /\ bufferMask' = mask[t] \ {buffers[g].start}
        /\ UNCHANGED <<framebuffer, pmem_master, heapVars, exposed, buffers, localVars>>
    BY <1>0 DEF ClearWrite, Goto
  <1>2. /\ buffers[g].kind = "fb" /\ g \in Handle /\ t \in FbThreads
        /\ mask[t] = bufferMask /\ \A s \in Thread : s # t => target[s] # g
    BY <1>0, <1>1 DEF IInv, Types, Targets, FbCalls
  <1>3. /\ pc'[t] = "delete" /\ \A s \in Thread : s # t => pc'[s] = pc[s]
        /\ target' = target /\ target'[t] = g
    BY <1>0, <1>1 DEF IInv, Types, localVars
  <1>4. UNCHANGED <<buffers, used, exposed, block, mask, size, usage, target>>
    BY <1>1 DEF heapVars, localVars
  <1>5. \A h \in Handle : Holds(h)' <=> Holds(h)
    <2>1. ~Holds(g) /\ ~Holds(g)'
      BY <1>2, <1>4 DEF Holds
    <2>2. \A h \in Handle \ {g} : Holds(h)' <=> Holds(h)
      BY <1>3, <1>4 DEF Holds
    <2> QED
      BY <2>1, <2>2
  <1>6. Memory'
    BY <1>4, <1>5, SameOwners DEF IInv, Memory
  <1>7. PagesMarked'
    <2> SUFFICES ASSUME NEW h \in Handle, buffers[h].kind = "fb"
                 PROVE  Deleting(h)' \/ buffers[h].start \in bufferMask'
      BY <1>1, <1>4 DEF IInv, PagesMarked
    <2>1. CASE h = g
      BY <1>3, <2>1 DEF Deleting
    <2>2. CASE h # g /\ Deleting(h)
      BY <1>3, <2>2 DEF Deleting
    <2>3. CASE h # g /\ buffers[h].start \in bufferMask
      BY <1>1, <1>2, <2>3 DEF IInv, PagesDistinct
    <2> QED
      BY <2>1, <2>2, <2>3 DEF IInv, PagesMarked
  <1>8. \A s \in Thread : pc'[s] # "clearWrite"
    <2>1. \A s \in Thread : pc[s] = "clearWrite" => s \in FbThreads
      BY DEF IInv, FbCalls, Targets
    <2> QED
      BY <1>2, <1>3, <2>1 DEF OneFbThread
  <1>9. bufferMask' \in SUBSET Slots
    BY <1>1, <1>2 DEF IInv, Types
  <1> QED
    BY <1>1, <1>3, <1>4, <1>5, <1>6, <1>7, <1>8, <1>9, FreesOn DEF IInv, Types

\* The block of a buffer that is being unmapped belongs to nobody else.
LEMMA Owner ==
    ASSUME IInv, NEW t \in Thread, pc[t] \in {"unmap", "giveBack"}
    PROVE  /\ target[t] \in Handle /\ buffers[target[t]].kind = "pmem" /\ Holds(target[t])
           /\ Block(buffers[target[t]]) \in [start : Nat, size : Nat \ {0}]
           /\ \A s \in Thread : block[s] # Block(buffers[target[t]])
           /\ \A s \in Thread : s # t => target[s] # target[t]
  <1> USE DEF Freeing
  <1>1. /\ target[t] \in Handle /\ buffers[target[t]].kind = "pmem"
        /\ \A s \in Thread : s # t => target[s] # target[t]
    BY DEF IInv, Types, Targets
  <1>2. Holds(target[t])
    BY <1>1 DEF Holds
  <1>3. Block(buffers[target[t]]) \in used
    BY <1>1, <1>2 DEF IInv, Accounted
  <1>4. Block(buffers[target[t]]) \in [start : Nat, size : Nat \ {0}]
    BY <1>3 DEF IInv, Types
  <1>5. Block(buffers[target[t]]) # NoBlock
    BY <1>4 DEF NoBlock, None, Block
  <1>6. \A s \in Thread : block[s] # Block(buffers[target[t]])
    BY <1>1, <1>2, <1>5 DEF IInv, OneOwner
  <1> QED
    BY <1>1, <1>2, <1>4, <1>6

\* A call that frees a buffer gives its block up.
LEMMA GivesUp ==
    ASSUME IInv, NEW t \in Thread, pc[t] \in {"unmap", "giveBack"},
           pc' = [pc EXCEPT ![t] = "delete"],
           \/ used' = used \ {Block(buffers[target[t]])} /\ exposed' = exposed
           \/ used' = used /\ exposed' = exposed \cup {Block(buffers[target[t]])},
           UNCHANGED <<framebuffer, bufferMask, pmem_master, buffers, localVars>>
    PROVE  IInv'
  <1> USE DEF Labels, Making, Freeing
  <1>0. PICK g \in Handle : g = target[t]
    BY Owner
  <1> DEFINE b == Block(buffers[g])
  <1>1. /\ g \in Handle /\ buffers[g].kind = "pmem" /\ Holds(g)
        /\ b \in [start : Nat, size : Nat \ {0}]
        /\ \A s \in Thread : block[s] # b
        /\ \A s \in Thread : s # t => target[s] # g
    BY <1>0, Owner
  <1>2. UNCHANGED <<block, mask, size, usage, target>> /\ target'[t] = g
    BY <1>0 DEF localVars
  <1>3. pc'[t] = "delete" /\ \A s \in Thread : s # t => pc'[s] = pc[s]
    BY DEF IInv, Types
  <1>4. /\ used' \in SUBSET [start : Nat, size : Nat \ {0}]
        /\ exposed' \in SUBSET [start : Nat, size : Nat \ {0}]
    BY <1>0, <1>1 DEF IInv, Types
  <1>5. ~Holds(g)' /\ \A h \in Handle \ {g} : Holds(h)' <=> Holds(h)
    BY <1>2, <1>3 DEF Holds
  <1>6. Memory'
    BY <1>0, <1>1, <1>2, <1>5, GivenUp DEF IInv, Memory
  <1>7. PagesMarked'
    <2>1. \A h \in Handle : Deleting(h) => Deleting(h)'
      BY <1>2, <1>3 DEF Deleting
    <2> QED
      BY <2>1 DEF IInv, PagesMarked
  <1>8. \A h \in Handle : Holds(h)' => Holds(h)
    BY <1>1, <1>5
  <1>9. \A s \in Thread : pc'[s] = "clearWrite" => mask'[s] = bufferMask'
    BY <1>2, <1>3 DEF IInv, FbCalls
  <1> QED
    BY <1>2, <1>4, <1>6, <1>7, <1>8, <1>9, FreesOn DEF IInv, Types

LEMMA UnmapStep ==
    ASSUME IInv, NEW t \in Thread, Unmap(t) PROVE IInv'
  <1> USE DEF Labels, Making, Freeing
  <1>1. pc[t] = "unmap" /\ UNCHANGED <<masterVars, heapVars, buffers, localVars>>
    BY DEF Unmap
  <1>2. CASE /\ exposed' = exposed \cup {Block(buffers[target[t]])} /\ Goto(t, "delete")
    BY <1>1, <1>2, GivesUp DEF Goto, heapVars, masterVars
  <1>3. CASE Goto(t, "giveBack") /\ UNCHANGED exposed
    <2>1. pc' = [pc EXCEPT ![t] = "giveBack"]
      BY <1>3 DEF Goto
    <2>2. pc'[t] = "giveBack" /\ \A s \in Thread : s # t => pc'[s] = pc[s]
      BY <2>1 DEF IInv, Types
    <2>3. UNCHANGED <<used, block, mask, size, usage, target, framebuffer, bufferMask, pmem_master>>
      BY <1>1 DEF heapVars, localVars, masterVars
    <2>4. \A h \in Handle : (Holds(h)' <=> Holds(h)) /\ (Deleting(h)' <=> Deleting(h))
      BY <1>1, <2>2, <2>3 DEF Holds, Deleting
    <2>5. Memory'
      BY <1>1, <1>3, <2>3, <2>4, SameOwners DEF IInv, Memory
    <2>6. PagesMarked'
      BY <1>1, <2>3, <2>4 DEF IInv, PagesMarked
    <2>7. \A s \in Thread : pc'[s] = "clearWrite" => mask'[s] = bufferMask'
      BY <2>2, <2>3 DEF IInv, FbCalls
    <2>8. buffers[target[t]].kind = "pmem"
      BY <1>1 DEF IInv, Targets
    <2> QED
      BY <1>1, <1>3, <2>1, <2>3, <2>4, <2>5, <2>6, <2>7, <2>8, FreesOn DEF IInv, Types
  <1> QED
    BY <1>2, <1>3 DEF Unmap

LEMMA GiveBackStep ==
    ASSUME IInv, NEW t \in Thread, GiveBack(t) PROVE IInv'
  BY GivesUp DEF GiveBack, Goto, masterVars, H!Return

\* The handle goes last.
LEMMA DeleteStep ==
    ASSUME IInv, NEW t \in Thread, Delete(t) PROVE IInv'
  <1> USE DEF Labels, Making, Freeing
  <1>0. PICK g \in Handle : g = target[t]
    BY DEF Delete, IInv, Types, Targets
  <1>1. /\ pc[t] = "delete" /\ buffers' = [buffers EXCEPT ![g] = None] /\ Return(t)
        /\ UNCHANGED <<masterVars, heapVars, exposed>>
    BY <1>0 DEF Delete
  <1>2. /\ g \in Handle /\ block[t] = NoBlock
        /\ \A s \in Thread : s # t => target[s] # g
    BY <1>0, <1>1 DEF IInv, Types, Targets, Blocked
  <1>3. /\ pc' = [pc EXCEPT ![t] = "idle"] /\ block' = [block EXCEPT ![t] = NoBlock]
        /\ target' = [target EXCEPT ![t] = NoHandle]
    BY <1>1 DEF Return, Goto
  <1>4. block' = block
    BY <1>2, <1>3 DEF IInv, Types
  <1>5. /\ pc'[t] = "idle" /\ \A s \in Thread : s # t => pc'[s] = pc[s]
        /\ pc' \in [Thread -> Labels]
    BY <1>3 DEF IInv, Types
  <1>6. /\ target'[t] = NoHandle /\ \A s \in Thread : s # t => target'[s] = target[s]
        /\ target' \in [Thread -> Handle \cup {NoHandle}]
    BY <1>3 DEF IInv, Types
  <1>7. /\ size' \in [Thread -> Nat] /\ usage' \in [Thread -> {"fb", "2d", "texture", "sw"}]
        /\ mask' \in [Thread -> SUBSET Slots]
        /\ \A s \in Thread : s # t => size'[s] = size[s] /\ mask'[s] = mask[s]
    BY <1>1 DEF Return, IInv, Types
  <1>8. /\ buffers'[g] = None /\ \A h \in Handle : h # g => buffers'[h] = buffers[h]
        /\ buffers' \in [Handle -> [kind : {"none", "pmem", "ashmem", "fb"},
                                    start : Nat, size : Nat]]
    BY <1>1, <1>2 DEF IInv, Types, None
  <1>9. ~Holds(g) /\ ~Holds(g)' /\ buffers'[g].kind = "none"
    BY <1>0, <1>1, <1>8 DEF Holds, None
  <1>10. \A h \in Handle \ {g} : (Holds(h)' <=> Holds(h)) /\ (Deleting(h)' <=> Deleting(h))
    BY <1>5, <1>6, <1>0, <1>8, HandleAssumption DEF Holds, Deleting
  <1>11. Memory'
    BY <1>1, <1>4, <1>8, <1>9, <1>10, SameOwners DEF IInv, Memory, heapVars
  <1>12. Types'
    BY <1>1, <1>4, <1>5, <1>6, <1>7, <1>8 DEF IInv, Types, heapVars, masterVars
  <1>13. Targets'
    BY <1>2, <1>5, <1>6, <1>8 DEF IInv, Types, Targets
  <1>14. Blocked'
    BY <1>2, <1>4, <1>5, <1>7 DEF IInv, Blocked
  <1>15. Mapped'
    BY <1>1, <1>5, <1>9, <1>10 DEF IInv, Mapped, masterVars
  <1>16. FbCalls'
    <2>1. \A s \in Thread : s # t /\ target[s] # NoHandle => buffers'[target[s]] = buffers[target[s]]
      BY <1>2, <1>8 DEF IInv, Types
    <2> QED
      BY <1>1, <1>5, <1>6, <1>7, <2>1 DEF IInv, FbCalls, masterVars
  <1>17. PagesMarked' /\ PagesDistinct'
    BY <1>1, <1>8, <1>9, <1>10 DEF IInv, PagesMarked, PagesDistinct, masterVars
  <1> QED
    BY <1>11, <1>12, <1>13, <1>14, <1>15, <1>16, <1>17 DEF IInv, Memory

-----------------------------------------------------------------------------
(* The invariant holds.                                                     *)

LEMMA Start == Init => IInv
  <1> SUFFICES ASSUME Init PROVE IInv
    OBVIOUS
  <1> USE DEF Init, H!Init, Labels, Making, Freeing
  <1>1. Types
    BY DEF Types, None, NoBlock, Block
  <1>2. Targets
    BY DEF Targets
  <1>3. \A t \in Thread : block[t] = NoBlock
    OBVIOUS
  <1>4. Blocked
    BY <1>3 DEF Blocked
  <1>5. \A h \in Handle : ~Holds(h) /\ buffers[h].kind = "none"
    BY DEF Holds, None
  <1>6. Accounted /\ OneOwner /\ Apart /\ Mapped
    BY <1>3, <1>5 DEF Accounted, OneOwner, Apart, Mapped
  <1>7. FbCalls /\ PagesMarked /\ PagesDistinct
    BY <1>5 DEF FbCalls, PagesMarked, PagesDistinct
  <1> QED
    BY <1>1, <1>2, <1>4, <1>6, <1>7 DEF IInv

LEMMA Stutter == IInv /\ UNCHANGED vars => IInv'
  <1> SUFFICES ASSUME IInv, UNCHANGED vars PROVE IInv'
    OBVIOUS
  <1> USE DEF vars, masterVars, heapVars, localVars
  <1>1. \A h \in Handle : (Holds(h)' <=> Holds(h)) /\ (Deleting(h)' <=> Deleting(h))
    BY DEF Holds, Deleting
  <1>2. Memory'
    BY <1>1, SameOwners DEF IInv, Memory
  <1>3. Types' /\ Targets' /\ Blocked'
    BY DEF IInv, Types, Targets, Blocked
  <1>4. Mapped' /\ FbCalls' /\ PagesMarked' /\ PagesDistinct'
    BY <1>1 DEF IInv, Mapped, FbCalls, PagesMarked, PagesDistinct
  <1> QED
    BY <1>2, <1>3, <1>4 DEF IInv, Memory

LEMMA Step == ASSUME OneFbThread PROVE IInv /\ [Next]_vars => IInv'
  <1> SUFFICES ASSUME IInv, [Next]_vars PROVE IInv'
    OBVIOUS
  <1>1. CASE UNCHANGED vars
    BY <1>1, Stutter
  <1>2. ASSUME NEW t \in Thread, NEW n \in Sizes, NEW u \in {"fb", "2d", "texture", "sw"},
               Alloc(t, n, u) PROVE IInv'
    BY <1>2, AllocStep
  <1>3. ASSUME NEW t \in Thread, NEW h \in Handle, Free(t, h) PROVE IInv'
    BY <1>3, FreeStep
  <1>4. ASSUME NEW t \in Thread, Continue(t) PROVE IInv'
    BY <1>4, FbLockStep, FbMapStep, FbSlotStep, InitLockStep, InitPmemStep, TakeStep,
       ConnectStep, CreateAshmemStep, ClearReadStep, ClearWriteStep, UnmapStep,
       GiveBackStep, DeleteStep DEF Continue
  <1> QED
    BY <1>1, <1>2, <1>3, <1>4 DEF Next

\* What the invariant says of the memory that has been handed out.
LEMMA Means == IInv => MemoryAccounted /\ ExposedNeverReused
  <1> SUFFICES ASSUME IInv PROVE MemoryAccounted /\ ExposedNeverReused
    OBVIOUS
  <1>1. BlocksAccounted
    <2> SUFFICES ASSUME NEW b
                 PROVE  b \in used <=> b \in HandleBlocks \cup CallBlocks \cup exposed
      BY DEF BlocksAccounted
    <2>1. b \in HandleBlocks <=> \E h \in Handle : Holds(h) /\ b = Block(buffers[h])
      BY DEF HandleBlocks
    <2>2. b \in CallBlocks <=> \E t \in Thread : block[t] # NoBlock /\ b = block[t]
      BY DEF CallBlocks
    <2> QED
      BY <2>1, <2>2 DEF IInv, Accounted
  <1>2. \A h \in Handle : Holds(h) => Block(buffers[h]) \in used
    BY DEF IInv, Accounted
  <1>3. \A h \in Handle : /\ Block(buffers[h]).start = buffers[h].start
                          /\ Block(buffers[h]).size = buffers[h].size
    BY DEF Block
  <1>4. BuffersDisjoint
    BY <1>2, <1>3 DEF IInv, OneOwner, Apart, BuffersDisjoint, H!Disjoint
  <1>5. \A b \in exposed : b \in used
    BY DEF IInv, Accounted
  <1>6. \A c \in CallBlocks : c \in used /\ c \notin exposed
    BY DEF IInv, Accounted, OneOwner, CallBlocks
  <1>7. ExposedNeverReused
    BY <1>2, <1>3, <1>5, <1>6 DEF IInv, OneOwner, Apart, ExposedNeverReused, H!Disjoint
  <1>8. PmemOnlyIfMapped
    BY DEF IInv, Mapped, PmemOnlyIfMapped, HandleBlocks
  <1> QED
    BY <1>1, <1>4, <1>7, <1>8 DEF IInv, MemoryAccounted

\* Whatever the drivers refuse, every block of the pmem area that is in use
\* belongs to exactly one buffer or call or is kept from everybody, no two
\* buffers overlap, no two have the same page of the framebuffer, and pmem
\* is used only when it has been mapped.
THEOREM MemoryIsKept == ASSUME OneFbThread PROVE Spec => []MemoryAccounted
  BY Start, Step, Means, PTL DEF Spec

\* A block that another process may still see goes to nobody else.
THEOREM ExposedIsKept == ASSUME OneFbThread PROVE Spec => []ExposedNeverReused
  BY Start, Step, Means, PTL DEF Spec

-----------------------------------------------------------------------------
(* Types, for any number of threads that have to do with the framebuffer.   *)

Shapes ==
    /\ framebuffer \in {"null", "unmapped", "mapped"} /\ numBuffers \in 0..2
    /\ mLock \in Thread \cup {NoThread} /\ pmem_master \in {"untried", "failed", "ok"}
    /\ ready \in BOOLEAN /\ bufferMask \in SUBSET Slots
    /\ used \in SUBSET Blocks /\ exposed \in SUBSET Blocks
    /\ buffers \in [Handle -> [kind : {"none", "pmem", "ashmem", "fb"},
                               start : Nat, size : Nat]]
    /\ \A h \in Handle : /\ buffers[h].kind = "fb" => buffers[h].start \in Slots
                         /\ buffers[h].kind # "fb" => buffers[h].start \in 0..Pages
    /\ pc \in [Thread -> Labels]
    /\ size \in [Thread -> Sizes \cup {0}]
    /\ block \in [Thread -> Blocks]
    /\ target \in [Thread -> Handle \cup {NoHandle}]
    /\ mask \in [Thread -> SUBSET Slots]

Shaped == Shapes /\ Targets

LEMMA SizesAreNat == \A n \in Sizes \cup {0} : n \in Nat
  BY PageAssumption

\* A step of a call that makes a buffer: it is nobody's target.
LEMMA ShapedOn ==
    ASSUME Shaped, NEW t \in Thread, pc[t] \notin Freeing,
           NEW x \in Labels \ Freeing, pc' = [pc EXCEPT ![t] = x], target' = target,
           Shapes', \A h \in Handle : buffers[h] # None => buffers'[h] = buffers[h]
    PROVE  Shaped'
  <1>1. /\ pc'[t] = x /\ \A s \in Thread : s # t => pc'[s] = pc[s]
        /\ target[t] = NoHandle
    BY DEF Shaped, Shapes, Targets
  <1>2. \A s \in Thread : target[s] # NoHandle => buffers'[target[s]] = buffers[target[s]]
    BY DEF Shaped, Shapes, Targets
  <1>3. Targets'
    BY <1>1, <1>2 DEF Shaped, Targets, Freeing, Labels
  <1> QED
    BY <1>3 DEF Shaped

\* It returns.
LEMMA ShapedReturn ==
    ASSUME Shaped, NEW t \in Thread, pc[t] \notin Freeing, Return(t)
    PROVE  /\ target' = target /\ pc' = [pc EXCEPT ![t] = "idle"]
           /\ "idle" \in Labels \ Freeing /\ pc' \in [Thread -> Labels]
           /\ size' \in [Thread -> Sizes \cup {0}] /\ block' \in [Thread -> Blocks]
           /\ mask' \in [Thread -> SUBSET Slots]
  <1>1. target[t] = NoHandle
    BY DEF Shaped, Targets
  <1>2. target' = target
    BY <1>1 DEF Shaped, Shapes, Return
  <1>3. NoBlock \in Blocks
    BY PageAssumption DEF NoBlock, None, Block, Blocks
  <1> QED
    BY <1>2, <1>3 DEF Shaped, Shapes, Return, Goto, Labels, Freeing

\* A step of a call that frees a buffer, until it deletes it.
LEMMA ShapedFrees ==
    ASSUME Shaped, NEW t \in Thread, pc[t] \in Freeing,
           NEW x \in Freeing, pc' = [pc EXCEPT ![t] = x], UNCHANGED <<target, buffers>>,
           x = "clearWrite" => pc[t] = "clearRead", x = "giveBack" => pc[t] = "unmap",
           x \notin {"clearRead", "unmap"},
           Shapes'
    PROVE  Shaped'
  <1>1. pc'[t] = x /\ \A s \in Thread : s # t => pc'[s] = pc[s]
    BY DEF Shaped, Shapes
  <1>2. Targets'
    BY <1>1 DEF Shaped, Targets, Freeing
  <1> QED
    BY <1>2 DEF Shaped

\* The buffer b, for which there was no handle yet.
LEMMA ShapedMake ==
    ASSUME Shapes, NEW b, Make(b), NEW kind \in {"pmem", "ashmem", "fb"},
           NEW start \in Nat, NEW n \in Nat, b = [kind |-> kind, start |-> start, size |-> n],
           kind = "fb" => start \in Slots, kind # "fb" => start \in 0..Pages
    PROVE  /\ buffers' \in [Handle -> [kind : {"none", "pmem", "ashmem", "fb"},
                                       start : Nat, size : Nat]]
           /\ \A h \in Handle : /\ buffers'[h].kind = "fb" => buffers'[h].start \in Slots
                                /\ buffers'[h].kind # "fb" => buffers'[h].start \in 0..Pages
           /\ \A h \in Handle : buffers[h] # None => buffers'[h] = buffers[h]
  <1>1. PICK g \in Handle : buffers[g] = None /\ buffers' = [buffers EXCEPT ![g] = b]
    BY DEF Make
  <1>2. buffers'[g] = b /\ \A h \in Handle : h # g => buffers'[h] = buffers[h]
    BY <1>1 DEF Shapes
  <1>3. b.kind = kind /\ b.start = start
        /\ b \in [kind : {"none", "pmem", "ashmem", "fb"}, start : Nat, size : Nat]
    OBVIOUS
  <1> QED
    BY <1>1, <1>2, <1>3 DEF Shapes

LEMMA ShapedAlloc ==
    ASSUME Shaped, NEW t \in Thread, NEW n \in Sizes, NEW u \in {"fb", "2d", "texture", "sw"},
           Alloc(t, n, u) PROVE Shaped'
  <1> DEFINE x == CASE u = "fb" -> "fbLock" [] u = "sw" -> "ashmem" [] OTHER -> "initLock"
  <1>1. /\ pc[t] = "idle" /\ pc' = [pc EXCEPT ![t] = x]
        /\ size' = [size EXCEPT ![t] = n]
        /\ UNCHANGED <<masterVars, heapVars, exposed, buffers, block, target, mask>>
    BY DEF Alloc, Goto
  <1>2. x \in Labels \ Freeing /\ pc[t] \notin Freeing
    BY <1>1 DEF Labels, Freeing
  <1> HIDE DEF x
  <1>3. Shapes'
    BY <1>1, <1>2 DEF Shaped, Shapes, masterVars, heapVars
  <1> QED
    BY <1>1, <1>2, <1>3, ShapedOn

LEMMA ShapedLock ==
    ASSUME Shaped, NEW t \in Thread, FbLock(t) \/ InitLock(t) PROVE Shaped'
  <1>1. PICK x \in {"fbMap", "init"} : pc' = [pc EXCEPT ![t] = x]
    BY DEF FbLock, InitLock, Goto
  <1>2. /\ pc[t] \notin Freeing /\ x \in Labels \ Freeing /\ mLock' = t
        /\ UNCHANGED <<framebuffer, numBuffers, bufferMask, pmem_master, heapVars,
                       exposed, buffers, localVars>>
    BY DEF FbLock, InitLock, Freeing, Labels
  <1>3. Shapes'
    BY <1>1, <1>2 DEF Shaped, Shapes, heapVars, localVars
  <1> QED
    BY <1>1, <1>2, <1>3, ShapedOn DEF localVars

LEMMA ShapedFbMap == ASSUME Shaped, NEW t \in Thread, FbMap(t) PROVE Shaped'
  <1>1. /\ pc[t] \notin Freeing /\ UNCHANGED <<pmem_master, heapVars, exposed, buffers>>
    BY DEF FbMap, Freeing
  <1>2. /\ framebuffer' \in {"null", "unmapped", "mapped"} /\ numBuffers' \in 0..2
        /\ bufferMask' \in SUBSET Slots /\ mLock' \in Thread \cup {NoThread}
    <2>1. numBuffers' = numBuffers \/ numBuffers' \in Screens
      BY DEF FbMap
    <2>2. \A n \in Screens : n \in 0..2
      BY ScreenAssumption
    <2>3. /\ framebuffer' = framebuffer \/ framebuffer' = "mapped" \/ framebuffer' = "unmapped"
          /\ bufferMask' = bufferMask \/ bufferMask' = {}
          /\ mLock' = mLock \/ mLock' = NoThread
      BY DEF FbMap
    <2> QED
      BY <2>1, <2>2, <2>3 DEF Shaped, Shapes
  <1>3. CASE Return(t)
    BY <1>1, <1>2, <1>3, ShapedReturn, ShapedOn DEF Shaped, Shapes, heapVars
  <1>4. CASE Goto(t, "fbSlot") /\ UNCHANGED localVars
    <2>1. "fbSlot" \in Labels \ Freeing /\ pc' = [pc EXCEPT ![t] = "fbSlot"]
      BY <1>4 DEF Labels, Freeing, Goto
    <2>2. Shapes'
      BY <1>1, <1>2, <1>4, <2>1 DEF Shaped, Shapes, heapVars, localVars
    <2> QED
      BY <1>1, <1>4, <2>1, <2>2, ShapedOn DEF localVars
  <1> QED
    BY <1>3, <1>4 DEF FbMap

LEMMA ShapedFbSlot == ASSUME Shaped, NEW t \in Thread, FbSlot(t) PROVE Shaped'
  <1>1. /\ pc[t] \notin Freeing
        /\ UNCHANGED <<framebuffer, numBuffers, pmem_master, heapVars, exposed>>
    BY DEF FbSlot, Freeing
  <1>2. CASE /\ Goto(t, "initLock")
             /\ UNCHANGED <<bufferMask, mLock, buffers, size, block, target, mask>>
    <2>1. "initLock" \in Labels \ Freeing /\ pc' = [pc EXCEPT ![t] = "initLock"]
      BY <1>2 DEF Labels, Freeing, Goto
    <2>2. Shapes'
      BY <1>1, <1>2, <2>1 DEF Shaped, Shapes, heapVars
    <2> QED
      BY <1>1, <1>2, <2>1, <2>2, ShapedOn
  <1>3. CASE mLock' = NoThread /\ Return(t) /\ UNCHANGED <<bufferMask, buffers>>
    BY <1>1, <1>3, ShapedReturn, ShapedOn DEF Shaped, Shapes, heapVars
  <1>4. ASSUME mLock' = NoThread, Return(t), NEW slot \in Slots \ bufferMask,
               bufferMask' = bufferMask \cup {slot}, Make(Page(slot))
        PROVE  Shaped'
    <2>1. slot \in Nat /\ bufferMask' \in SUBSET Slots
      BY <1>4 DEF Slots, Shaped, Shapes
    <2>2. Page(slot) = [kind |-> "fb", start |-> slot, size |-> 0]
      BY DEF Page
    <2>3. /\ buffers' \in [Handle -> [kind : {"none", "pmem", "ashmem", "fb"},
                                      start : Nat, size : Nat]]
          /\ \A h \in Handle : /\ buffers'[h].kind = "fb" => buffers'[h].start \in Slots
                               /\ buffers'[h].kind # "fb" => buffers'[h].start \in 0..Pages
          /\ \A h \in Handle : buffers[h] # None => buffers'[h] = buffers[h]
      BY <1>4, <2>1, <2>2, ShapedMake DEF Shaped
    <2>4. Shapes'
      BY <1>1, <1>4, <2>1, <2>3, ShapedReturn DEF Shaped, Shapes, heapVars
    <2> QED
      BY <1>1, <1>4, <2>3, <2>4, ShapedReturn, ShapedOn
  <1> QED
    BY <1>2, <1>3, <1>4 DEF FbSlot

LEMMA ShapedInit == ASSUME Shaped, NEW t \in Thread, InitPmem(t) PROVE Shaped'
  <1>1. /\ pc[t] \notin Freeing /\ mLock' = NoThread
        /\ UNCHANGED <<framebuffer, numBuffers, bufferMask, exposed, buffers>>
    BY DEF InitPmem, Freeing
  <1>2. pmem_master' \in {"untried", "failed", "ok"} /\ ready' \in BOOLEAN /\ used' = used
    BY DEF InitPmem, Shaped, Shapes, heapVars, H!Reject, H!Prepare
  <1>3. \/ Return(t)
        \/ \E x \in {"take", "ashmem"} : Goto(t, x) /\ UNCHANGED localVars
    BY DEF InitPmem, AfterInit
  <1>4. CASE Return(t)
    BY <1>1, <1>2, <1>4, ShapedReturn, ShapedOn DEF Shaped, Shapes
  <1>5. ASSUME NEW x \in {"take", "ashmem"}, Goto(t, x), UNCHANGED localVars PROVE Shaped'
    <2>1. x \in Labels \ Freeing /\ pc' = [pc EXCEPT ![t] = x]
      BY <1>5 DEF Labels, Freeing, Goto
    <2>2. Shapes'
      BY <1>1, <1>2, <1>5, <2>1 DEF Shaped, Shapes, localVars
    <2> QED
      BY <1>1, <1>5, <2>1, <2>2, ShapedOn DEF localVars
  <1> QED
    BY <1>3, <1>4, <1>5

LEMMA ShapedTake == ASSUME Shaped, NEW t \in Thread, Take(t) PROVE Shaped'
  <1>1. pc[t] \notin Freeing /\ UNCHANGED <<masterVars, exposed, buffers>>
    BY DEF Take, Freeing
  <1>2. CASE H!Refuse(size[t]) /\ Return(t)
    BY <1>1, <1>2, ShapedReturn, ShapedOn DEF Shaped, Shapes, masterVars, H!Refuse
  <1>3. CASE /\ H!Take(size[t])
             /\ block' = [block EXCEPT ![t] = [start |-> answer'.at, size |-> size[t]]]
             /\ Goto(t, "connect") /\ UNCHANGED <<size, usage, target, mask>>
    <2>1. PICK at \in 0..Pages : /\ used' = used \cup {[start |-> at, size |-> size[t]]}
                                 /\ answer' = H!Granted(at) /\ ready' = ready
      BY <1>3 DEF H!Take, H!Places
    <2>2. [start |-> at, size |-> size[t]] \in Blocks /\ answer'.at = at
      <3>1. size[t] \in Nat
        BY PageAssumption, SizesAreNat DEF Shaped, Shapes
      <3> QED
        BY <2>1, <3>1 DEF H!Granted, Blocks
    <2>3. used' \in SUBSET Blocks /\ block' \in [Thread -> Blocks]
      BY <1>3, <2>1, <2>2 DEF Shaped, Shapes
    <2>4. "connect" \in Labels \ Freeing /\ pc' = [pc EXCEPT ![t] = "connect"]
      BY <1>3 DEF Labels, Freeing, Goto
    <2>5. Shapes'
      BY <1>1, <1>3, <2>1, <2>3, <2>4 DEF Shaped, Shapes, masterVars
    <2> QED
      BY <1>1, <1>3, <2>4, <2>5, ShapedOn
  <1> QED
    BY <1>2, <1>3 DEF Take

LEMMA ShapedConnect == ASSUME Shaped, NEW t \in Thread, Connect(t) PROVE Shaped'
  <1>1. pc[t] \notin Freeing /\ UNCHANGED <<masterVars, exposed>> /\ Return(t)
    BY DEF Connect, Freeing
  <1>2. CASE Make(Pmem(block[t].start, block[t].size)) /\ UNCHANGED heapVars
    <2> DEFINE b == Pmem(block[t].start, block[t].size)
    <2>1. block[t].start \in 0..Pages /\ block[t].start \in Nat /\ block[t].size \in Nat
      BY PageAssumption DEF Shaped, Shapes, Blocks
    <2>2. b = [kind |-> "pmem", start |-> block[t].start, size |-> block[t].size]
      BY DEF Pmem
    <2> HIDE DEF b
    <2>3. /\ buffers' \in [Handle -> [kind : {"none", "pmem", "ashmem", "fb"},
                                      start : Nat, size : Nat]]
          /\ \A h \in Handle : /\ buffers'[h].kind = "fb" => buffers'[h].start \in Slots
                               /\ buffers'[h].kind # "fb" => buffers'[h].start \in 0..Pages
          /\ \A h \in Handle : buffers[h] # None => buffers'[h] = buffers[h]
      BY <1>2, <2>1, <2>2, ShapedMake DEF Shaped, b
    <2>4. Shapes'
      BY <1>1, <1>2, <2>3, ShapedReturn DEF Shaped, Shapes, heapVars, masterVars
    <2> QED
      BY <1>1, <2>3, <2>4, ShapedReturn, ShapedOn
  <1>3. CASE H!Return(block[t]) /\ UNCHANGED buffers
    BY <1>1, <1>3, ShapedReturn, ShapedOn DEF Shaped, Shapes, masterVars, H!Return
  <1> QED
    BY <1>2, <1>3 DEF Connect

LEMMA ShapedAshmem == ASSUME Shaped, NEW t \in Thread, CreateAshmem(t) PROVE Shaped'
  <1>1. /\ pc[t] \notin Freeing /\ UNCHANGED <<masterVars, heapVars, exposed>> /\ Return(t)
    BY DEF CreateAshmem, Freeing
  <1>2. CASE Make(Ashmem(size[t]))
    <2> DEFINE b == Ashmem(size[t])
    <2>1. size[t] \in Nat /\ 0 \in 0..Pages
      <3>1. size[t] \in Nat
        BY SizesAreNat DEF Shaped, Shapes
      <3> QED
        BY <3>1, PageAssumption
    <2>2. b = [kind |-> "ashmem", start |-> 0, size |-> size[t]]
      BY DEF Ashmem
    <2> HIDE DEF b
    <2>3. /\ buffers' \in [Handle -> [kind : {"none", "pmem", "ashmem", "fb"},
                                      start : Nat, size : Nat]]
          /\ \A h \in Handle : /\ buffers'[h].kind = "fb" => buffers'[h].start \in Slots
                               /\ buffers'[h].kind # "fb" => buffers'[h].start \in 0..Pages
          /\ \A h \in Handle : buffers[h] # None => buffers'[h] = buffers[h]
      BY <1>2, <2>1, <2>2, ShapedMake DEF Shaped, b
    <2>4. Shapes'
      BY <1>1, <2>3, ShapedReturn DEF Shaped, Shapes, heapVars, masterVars
    <2> QED
      BY <1>1, <2>3, <2>4, ShapedReturn, ShapedOn
  <1>3. CASE UNCHANGED buffers
    BY <1>1, <1>3, ShapedReturn, ShapedOn DEF Shaped, Shapes, masterVars, heapVars
  <1> QED
    BY <1>2, <1>3 DEF CreateAshmem

LEMMA ShapedFree ==
    ASSUME Shaped, NEW t \in Thread, NEW g \in Handle, Free(t, g) PROVE Shaped'
  <1>1. /\ pc[t] = "idle" /\ buffers[g] # None /\ \A s \in Thread : target[s] # g
        /\ target' = [target EXCEPT ![t] = g]
        /\ UNCHANGED <<masterVars, heapVars, exposed, buffers, size, usage, block, mask>>
    BY DEF Free
  <1>2. PICK x \in {"clearRead", "unmap", "delete"} :
            /\ pc' = [pc EXCEPT ![t] = x]
            /\ x = "clearRead" <=> buffers[g].kind = "fb"
            /\ x = "unmap" <=> buffers[g].kind = "pmem"
    BY DEF Free, Goto
  <1>3. /\ pc'[t] = x /\ \A s \in Thread : s # t => pc'[s] = pc[s]
        /\ target'[t] = g /\ \A s \in Thread : s # t => target'[s] = target[s]
    BY <1>1, <1>2 DEF Shaped, Shapes
  <1>4. Shapes'
    BY <1>1, <1>2 DEF Shaped, Shapes, masterVars, heapVars, Labels
  <1>5. Targets'
    BY <1>1, <1>2, <1>3, HandleAssumption DEF Shaped, Targets, Freeing
  <1> QED
    BY <1>4, <1>5 DEF Shaped

LEMMA ShapedClear ==
    ASSUME Shaped, NEW t \in Thread, ClearRead(t) \/ ClearWrite(t) PROVE Shaped'
  <1>1. CASE ClearRead(t)
    <2>1. /\ pc[t] = "clearRead" /\ pc' = [pc EXCEPT ![t] = "clearWrite"]
          /\ mask' = [mask EXCEPT ![t] = bufferMask]
          /\ UNCHANGED <<masterVars, heapVars, exposed, buffers, size, usage, block, target>>
      BY <1>1 DEF ClearRead, Goto
    <2>2. Shapes'
      BY <2>1 DEF Shaped, Shapes, masterVars, heapVars, Labels
    <2> QED
      BY <2>1, <2>2, ShapedFrees DEF Freeing
  <1>2. CASE ClearWrite(t)
    <2>1. /\ pc[t] = "clearWrite" /\ pc' = [pc EXCEPT ![t] = "delete"]
          /\ bufferMask' = mask[t] \ {buffers[target[t]].start}
          /\ UNCHANGED <<framebuffer, numBuffers, mLock, pmem_master, heapVars, exposed,
                         buffers, localVars>>
      BY <1>2 DEF ClearWrite, Goto
    <2>2. bufferMask' \in SUBSET Slots
      BY <2>1 DEF Shaped, Shapes
    <2>3. Shapes'
      BY <2>1, <2>2 DEF Shaped, Shapes, heapVars, localVars, Labels
    <2> QED
      BY <2>1, <2>3, ShapedFrees DEF Freeing, localVars
  <1> QED
    BY <1>1, <1>2

LEMMA ShapedUnmap == ASSUME Shaped, NEW t \in Thread, Unmap(t) PROVE Shaped'
  <1>1. /\ pc[t] = "unmap" /\ UNCHANGED <<masterVars, heapVars, buffers, localVars>>
        /\ target[t] \in Handle /\ buffers[target[t]].kind = "pmem"
    BY DEF Unmap, Shaped, Shapes, Targets, Freeing
  <1>2. Block(buffers[target[t]]) \in Blocks
    BY <1>1 DEF Shaped, Shapes, Block, Blocks
  <1>3. exposed' \in SUBSET Blocks
    BY <1>2 DEF Unmap, Shaped, Shapes
  <1>4. PICK x \in {"giveBack", "delete"} : pc' = [pc EXCEPT ![t] = x]
    BY DEF Unmap, Goto
  <1>5. Shapes'
    BY <1>1, <1>3, <1>4 DEF Shaped, Shapes, masterVars, heapVars, localVars, Labels
  <1> QED
    BY <1>1, <1>4, <1>5, ShapedFrees DEF Freeing, localVars

LEMMA ShapedGiveBack == ASSUME Shaped, NEW t \in Thread, GiveBack(t) PROVE Shaped'
  <1>1. /\ pc[t] = "giveBack" /\ UNCHANGED <<masterVars, exposed, buffers, localVars>>
        /\ pc' = [pc EXCEPT ![t] = "delete"]
    BY DEF GiveBack, Goto
  <1>2. used' \in SUBSET Blocks /\ ready' = ready
    BY DEF GiveBack, H!Return, Shaped, Shapes
  <1>3. Shapes'
    BY <1>1, <1>2 DEF Shaped, Shapes, masterVars, localVars, Labels
  <1> QED
    BY <1>1, <1>3, ShapedFrees DEF Freeing, localVars

LEMMA ShapedDelete == ASSUME Shaped, NEW t \in Thread, Delete(t) PROVE Shaped'
  <1>1. PICK g \in Handle : g = target[t]
    BY DEF Delete, Shaped, Shapes, Targets, Freeing
  <1>2. /\ pc[t] = "delete" /\ buffers' = [buffers EXCEPT ![g] = None]
        /\ UNCHANGED <<masterVars, heapVars, exposed>>
        /\ pc' = [pc EXCEPT ![t] = "idle"] /\ target' = [target EXCEPT ![t] = NoHandle]
        /\ size' = [size EXCEPT ![t] = 0] /\ block' = [block EXCEPT ![t] = NoBlock]
        /\ mask' = [mask EXCEPT ![t] = {}]
    BY <1>1 DEF Delete, Return, Goto
  <1>3. NoBlock \in Blocks
    BY PageAssumption DEF NoBlock, None, Block, Blocks
  <1>4. /\ buffers' \in [Handle -> [kind : {"none", "pmem", "ashmem", "fb"},
                                    start : Nat, size : Nat]]
        /\ \A h \in Handle : /\ buffers'[h].kind = "fb" => buffers'[h].start \in Slots
                             /\ buffers'[h].kind # "fb" => buffers'[h].start \in 0..Pages
    BY <1>2, PageAssumption DEF Shaped, Shapes, None
  <1>5. Shapes'
    BY <1>2, <1>3, <1>4 DEF Shaped, Shapes, masterVars, heapVars, Labels
  <1>6. /\ pc'[t] = "idle" /\ \A s \in Thread : s # t => pc'[s] = pc[s]
        /\ target'[t] = NoHandle /\ \A s \in Thread : s # t => target'[s] = target[s]
        /\ \A h \in Handle : h # g => buffers'[h] = buffers[h]
    BY <1>2 DEF Shaped, Shapes
  <1>7. \A s \in Thread : s # t /\ target[s] # NoHandle => target[s] \in Handle \ {g}
    BY <1>1 DEF Shaped, Shapes, Targets
  <1>8. Targets'
    BY <1>6, <1>7 DEF Shaped, Targets, Freeing
  <1> QED
    BY <1>5, <1>8 DEF Shaped

\* The type invariant, for any number of threads.
THEOREM TypeCorrect == Spec => []TypeOK
  <1>1. Init => Shaped
    <2> SUFFICES ASSUME Init PROVE Shaped
      OBVIOUS
    <2>1. Shapes
      <3>1. 0 \in 0..Pages /\ NoBlock \in Blocks
        BY PageAssumption DEF NoBlock, None, Block, Blocks
      <3>2. None \in [kind : {"none", "pmem", "ashmem", "fb"}, start : Nat, size : Nat]
            /\ None.kind = "none" /\ None.start = 0
        BY DEF None
      <3> HIDE DEF None
      <3>3. \A h \in Handle : buffers[h] = None
        BY DEF Init
      <3>4. /\ framebuffer = "null" /\ numBuffers = 0 /\ bufferMask = {} /\ mLock = NoThread
            /\ pmem_master = "untried" /\ ready = FALSE /\ used = {} /\ exposed = {}
            /\ buffers \in [Handle -> [kind : {"none", "pmem", "ashmem", "fb"},
                                       start : Nat, size : Nat]]
        BY <3>2 DEF Init, H!Init
      <3>5. /\ pc \in [Thread -> Labels] /\ size \in [Thread -> Sizes \cup {0}]
            /\ block \in [Thread -> Blocks] /\ target \in [Thread -> Handle \cup {NoHandle}]
            /\ mask \in [Thread -> SUBSET Slots]
        BY <3>1 DEF Init, Labels
      <3>6. numBuffers \in 0..2
        BY <3>4
      <3>7. ready \in BOOLEAN
        BY <3>4
      <3> QED
        BY <3>1, <3>2, <3>3, <3>4, <3>5, <3>6, <3>7 DEF Shapes
    <2>2. Targets
      BY DEF Init, Targets, Freeing
    <2> QED
      BY <2>1, <2>2 DEF Shaped
  <1>2. Shaped /\ [Next]_vars => Shaped'
    <2> SUFFICES ASSUME Shaped, [Next]_vars PROVE Shaped'
      OBVIOUS
    <2>1. CASE UNCHANGED vars
      BY <2>1 DEF vars, masterVars, heapVars, localVars, Shaped, Shapes, Targets
    <2>2. ASSUME NEW t \in Thread, NEW n \in Sizes, NEW u \in {"fb", "2d", "texture", "sw"},
                 Alloc(t, n, u) PROVE Shaped'
      BY <2>2, ShapedAlloc
    <2>3. ASSUME NEW t \in Thread, NEW h \in Handle, Free(t, h) PROVE Shaped'
      BY <2>3, ShapedFree
    <2>4. ASSUME NEW t \in Thread, Continue(t) PROVE Shaped'
      BY <2>4, ShapedLock, ShapedFbMap, ShapedFbSlot, ShapedInit, ShapedTake, ShapedConnect,
         ShapedAshmem, ShapedClear, ShapedUnmap, ShapedGiveBack, ShapedDelete DEF Continue
    <2> QED
      BY <2>1, <2>2, <2>3, <2>4 DEF Next
  <1>3. Shaped => TypeOK
    <2> SUFFICES ASSUME Shaped PROVE TypeOK
      OBVIOUS
    <2>1. \A h \in Handle : buffers[h].kind # "fb" => Block(buffers[h]) \in Blocks
      BY DEF Shaped, Shapes, Block, Blocks
    <2> QED
      BY <2>1 DEF Shaped, Shapes, TypeOK
  <1> QED
    BY <1>1, <1>2, <1>3, PTL DEF Spec

-----------------------------------------------------------------------------
(* The mutex, when the driver has room for two screens.                     *)

Locking ==
    /\ pc \in [Thread -> Labels]
    /\ \A t \in Thread : pc[t] \in {"fbMap", "fbSlot", "init"} <=> mLock = t
    /\ \A t \in Thread : pc[t] = "fbSlot" => framebuffer # "null"
    /\ framebuffer # "null" => numBuffers = 2

\* A step of t that neither takes nor lets go of the mutex.
LEMMA LockStays ==
    ASSUME Locking, NEW t \in Thread, NEW x \in Labels \ {"fbSlot"},
           pc' = [pc EXCEPT ![t] = x],
           pc[t] \in {"fbMap", "fbSlot", "init"} <=> x \in {"fbMap", "fbSlot", "init"},
           UNCHANGED <<mLock, framebuffer, numBuffers>>
    PROVE  Locking'
  BY DEF Locking

\* A step of t that lets go of it.
LEMMA LockGoes ==
    ASSUME Locking, NEW t \in Thread, NEW x \in Labels \ {"fbMap", "fbSlot", "init"},
           pc' = [pc EXCEPT ![t] = x],
           pc[t] \in {"fbMap", "fbSlot", "init"}, mLock' = NoThread,
           \A s \in Thread : s # t /\ pc[s] = "fbSlot" => framebuffer' # "null",
           framebuffer' # "null" => numBuffers' = 2
    PROVE  Locking'
  BY ThreadAssumption DEF Locking

LEMMA LockStep ==
    ASSUME Screens = {2}, Locking, NEW t \in Thread, Continue(t) PROVE Locking'
  <1> USE DEF Labels
  <1>1. CASE FbLock(t) \/ InitLock(t)
    BY <1>1, ThreadAssumption DEF FbLock, InitLock, Goto, Locking
  <1>2. CASE FbMap(t)
    <2>1. CASE Goto(t, "fbSlot") /\ mLock' = mLock /\ framebuffer' # "null" /\ numBuffers' = 2
      BY <1>2, <2>1 DEF FbMap, Goto, Locking
    <2>2. CASE Return(t) /\ mLock' = NoThread
      BY <1>2, <2>2, LockGoes DEF FbMap, Return, Goto, Locking
    <2> QED
      BY <1>2, <2>1, <2>2 DEF FbMap, Locking
  <1>3. CASE FbSlot(t)
    <2>1. /\ pc[t] = "fbSlot" /\ numBuffers = 2
          /\ Return(t) /\ mLock' = NoThread /\ UNCHANGED <<framebuffer, numBuffers>>
      BY <1>3 DEF FbSlot, Locking
    <2> QED
      BY <2>1, LockGoes DEF Return, Goto, Locking
  <1>4. CASE InitPmem(t)
    <2>1. PICK x \in {"idle", "take", "ashmem"} : pc' = [pc EXCEPT ![t] = x]
      BY <1>4 DEF InitPmem, AfterInit, Return, Goto
    <2> QED
      BY <1>4, <2>1, LockGoes DEF InitPmem, Locking
  <1>5. CASE \/ Take(t) \/ Connect(t) \/ CreateAshmem(t) \/ ClearRead(t) \/ ClearWrite(t)
             \/ Unmap(t) \/ GiveBack(t) \/ Delete(t)
    <2>1. PICK x \in {"idle", "connect", "clearWrite", "giveBack", "delete"} :
              pc' = [pc EXCEPT ![t] = x]
      BY <1>5 DEF Take, Connect, CreateAshmem, ClearRead, ClearWrite, Unmap, GiveBack, Delete,
                  Return, Goto
    <2>2. /\ pc[t] \notin {"fbMap", "fbSlot", "init"}
          /\ UNCHANGED <<mLock, framebuffer, numBuffers>>
      BY <1>5 DEF Take, Connect, CreateAshmem, ClearRead, ClearWrite, Unmap, GiveBack, Delete,
                  masterVars
    <2> QED
      BY <2>1, <2>2, LockStays
  <1> QED
    BY <1>1, <1>2, <1>3, <1>4, <1>5 DEF Continue

\* With room for two screens no thread waits for the mutex it holds: only the
\* way round through gralloc_alloc_buffer that a single screen takes does.
THEOREM TwoScreensNeverWait == ASSUME Screens = {2} PROVE Spec => []NeverWaitsForItself
  <1>1. Init => Locking
    BY ThreadAssumption DEF Init, Locking, Labels
  <1>2. Locking /\ [Next]_vars => Locking'
    <2> SUFFICES ASSUME Locking, [Next]_vars PROVE Locking'
      OBVIOUS
    <2>1. CASE UNCHANGED vars
      BY <2>1 DEF vars, masterVars, Locking
    <2>2. ASSUME NEW t \in Thread, NEW n \in Sizes, NEW u \in {"fb", "2d", "texture", "sw"},
                 Alloc(t, n, u) PROVE Locking'
      <3>1. PICK x \in {"fbLock", "ashmem", "initLock"} : pc' = [pc EXCEPT ![t] = x]
        BY <2>2 DEF Alloc, Goto
      <3> QED
        BY <2>2, <3>1, LockStays DEF Alloc, masterVars, Labels
    <2>3. ASSUME NEW t \in Thread, NEW h \in Handle, Free(t, h) PROVE Locking'
      <3>1. PICK x \in {"clearRead", "unmap", "delete"} : pc' = [pc EXCEPT ![t] = x]
        BY <2>3 DEF Free, Goto
      <3> QED
        BY <2>3, <3>1, LockStays DEF Free, masterVars, Labels
    <2> QED
      BY <2>1, <2>2, <2>3, LockStep DEF Next
  <1>3. Locking => NeverWaitsForItself
    BY DEF Locking, NeverWaitsForItself
  <1> QED
    BY <1>1, <1>2, <1>3, PTL DEF Spec

=============================================================================
