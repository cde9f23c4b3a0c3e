----------------------------- MODULE Allocator -----------------------------
(***************************************************************************)
(* SimpleBestFitAllocator, libgralloc/allocator.cpp: the allocator of the  *)
(* pmem area.  The heap is a list of chunks, in use or free; allocate      *)
(* splits one, deallocate merges.  Every public operation holds mLock from *)
(* start to end, so each is one action.  Addresses and sizes are in units  *)
(* of kMemoryAlign, to which allocate rounds what it is asked for.         *)
(***************************************************************************)
EXTENDS Integers, Sequences

CONSTANTS
    HeapSize,  \* of the area, after setSize rounded it up to a page
    PageSize,  \* getpagesize() / kMemoryAlign
    Sizes      \* sizes asked for; never 0, gralloc_alloc refuses those

ASSUME SizeAssumption ==
    /\ HeapSize \in Nat \ {0}
    /\ PageSize \in Nat \ {0}
    /\ Sizes \subseteq Nat \ {0}

VARIABLES
    mHeapSize,
    mList,
    result     \* what the last public operation returned

vars == <<mHeapSize, mList, result>>

Chunk(start, size, free) == [start |-> start, size |-> size, free |-> free]

Ok(at) == [err |-> "ok", at |-> at]
Err(e) == [err |-> e, at |-> 0]

Init == mHeapSize = 0 /\ mList = <<>> /\ result = Err("none")

\* The list with the chunks i to j replaced by others.
Splice(list, i, j, others) ==
    SubSeq(list, 1, i - 1) \o others \o SubSeq(list, j + 1, Len(list))

-----------------------------------------------------------------------------
(* setSize                                                                 *)

SetSize ==
    \/ /\ mHeapSize # 0
       /\ result' = Err("EINVAL")
       /\ UNCHANGED <<mHeapSize, mList>>
    \/ /\ mHeapSize = 0
       /\ mHeapSize' = HeapSize
       /\ mList' = <<Chunk(0, HeapSize, TRUE)>>
       /\ result' = Err("none")

-----------------------------------------------------------------------------
(* allocate                                                                *)

\* What is skipped at the start of a chunk to reach a page.
Extra(chunk) == (-chunk.start) % PageSize

Fits(chunk, size) == chunk.free /\ chunk.size >= size + Extra(chunk)

\* Mutant: the last of the chunks is taken.
LookLast(chunk, i, size, found) ==
    IF ~found.more \/ ~Fits(chunk, size) THEN found
    ELSE [best |-> i, more |-> chunk.size # size]

\* One round of the loop of alloc: a chunk that fits and is smaller than the
\* best so far replaces it, and the loop stops at one of the exact size.
Look(chunk, i, size, found) ==
    IF ~found.more \/ ~Fits(chunk, size) THEN found
    ELSE [best |-> IF found.best = 0 \/ chunk.size < mList[found.best].size THEN i ELSE found.best,
          more |-> chunk.size # size]

\* The loop: the position of the chunk it settles on, 0 if none.
Search(size) ==
    LET found[i \in 0..Len(mList)] ==
            IF i = 0 THEN [best |-> 0, more |-> TRUE]
            ELSE Look(mList[i], i, size, found[i - 1])
    IN  found[Len(mList)].best

\* Mutant: the page is looked for after the start has moved.
CarveShort(chunk, size) ==
    LET extra == Extra(chunk)
        tail == chunk.size - size
    IN  (IF extra > 0 THEN <<Chunk(chunk.start, extra, TRUE)>> ELSE <<>>)
        \o <<Chunk(chunk.start + extra, size, FALSE)>>
        \o (IF tail > 0 THEN <<Chunk(chunk.start + extra + size, tail, TRUE)>> ELSE <<>>)

\* Mutant: nothing is skipped.
CarveUnaligned(chunk, size) ==
    LET tail == chunk.size - size
    IN  <<Chunk(chunk.start, size, FALSE)>>
        \o (IF tail > 0 THEN <<Chunk(chunk.start + size, tail, TRUE)>> ELSE <<>>)

\* What becomes of the chunk: the start up to the page and the rest behind
\* the block stay free.
Carve(chunk, size) ==
    LET extra == Extra(chunk)
        tail == chunk.size - (size + extra)
    IN  (IF extra > 0 THEN <<Chunk(chunk.start, extra, TRUE)>> ELSE <<>>)
        \o <<Chunk(chunk.start + extra, size, FALSE)>>
        \o (IF tail > 0 THEN <<Chunk(chunk.start + extra + size, tail, TRUE)>> ELSE <<>>)

\* What the loop settles on (BestFit below): the first of the smallest chunks
\* that fit.
Fitting(size) == {i \in 1..Len(mList) : Fits(mList[i], size)}

Best(size) == {i \in Fitting(size) :
    \A j \in Fitting(size) :
        mList[i].size < mList[j].size \/ (mList[i].size = mList[j].size /\ i <= j)}

Allocate(size) ==
    \/ /\ mHeapSize = 0
       /\ result' = Err("EINVAL")
       /\ UNCHANGED <<mHeapSize, mList>>
    \/ /\ mHeapSize # 0
       /\ Fitting(size) = {}
       /\ result' = Err("ENOMEM")
       /\ UNCHANGED <<mHeapSize, mList>>
    \/ /\ mHeapSize # 0
       /\ \E i \in Best(size) :
            /\ mList' = Splice(mList, i, i, Carve(mList[i], size))
            /\ result' = Ok(mList[i].start + Extra(mList[i]))
       /\ UNCHANGED mHeapSize

-----------------------------------------------------------------------------
(* deallocate                                                              *)

\* The neighbours that are merged with chunk i when it is freed: the one
\* before it, if free, and all the free ones behind it.
First(i) == IF i > 1 /\ mList[i - 1].free THEN i - 1 ELSE i

\* Mutant: only the chunk before it.
LastSelf(i) == i

Last(i) == CHOOSE j \in i..Len(mList) :
    /\ \A k \in (i + 1)..j : mList[k].free
    /\ j < Len(mList) => ~mList[j + 1].free

Merged(i, j) ==
    Chunk(mList[i].start, mList[j].start + mList[j].size - mList[i].start, TRUE)

\* The caller gives back a block it was given, or an offset where no chunk
\* starts; freeing a free chunk is a fatal error of the caller.
Deallocate(at) ==
    \/ /\ mHeapSize = 0
       /\ result' = Err("EINVAL")
       /\ UNCHANGED <<mHeapSize, mList>>
    \/ /\ mHeapSize # 0
       /\ \A i \in 1..Len(mList) : mList[i].start # at
       /\ result' = Err("ENOENT")
       /\ UNCHANGED <<mHeapSize, mList>>
    \/ /\ mHeapSize # 0
       /\ \E i \in 1..Len(mList) :
            /\ mList[i].start = at
            /\ ~mList[i].free
            /\ mList' = Splice(mList, First(i), Last(i), <<Merged(First(i), Last(i))>>)
       /\ result' = Ok(0)
       /\ UNCHANGED mHeapSize

Next ==
    \/ SetSize
    \/ \E size \in Sizes : Allocate(size)
    \/ \E at \in 0..HeapSize : Deallocate(at)

Spec == Init /\ [][Next]_vars

-----------------------------------------------------------------------------
(* Properties                                                              *)

Chunks == [start : Nat, size : Nat \ {0}, free : BOOLEAN]

\* The list holds chunks, none of them empty (chunk_t).
TypeOK ==
    /\ mHeapSize \in {0, HeapSize}
    /\ mList \in Seq(Chunks)
    /\ result \in [err : {"ok", "none", "EINVAL", "ENOMEM", "ENOENT"}, at : 0..HeapSize]

\* The chunks follow each other from the start of the heap to its end: after
\* any sequence of splits and merges nothing is lost and nothing overlaps.
Tiled ==
    mHeapSize # 0 =>
        /\ mList # <<>>
        /\ mList[1].start = 0
        /\ \A i \in 1..(Len(mList) - 1) : mList[i + 1].start = mList[i].start + mList[i].size
        /\ mList[Len(mList)].start + mList[Len(mList)].size = HeapSize

\* Free space is always merged: the loop of dealloc leaves no two free
\* neighbours, nor do the splits of alloc.
Coalesced == \A i \in 1..(Len(mList) - 1) : ~(mList[i].free /\ mList[i + 1].free)

\* The loop of alloc takes the first of the smallest chunks that fit, and none
\* only if none fits, although it stops early at a chunk of the exact size.
BestFit ==
    \A size \in Sizes : Best(size) = IF Search(size) = 0 THEN {} ELSE {Search(size)}

\* The inductive invariant of the list: the chunks are also in order, which a
\* step must not derive anew from one chunk following the other.
Ordered ==
    /\ \A i, k \in 1..Len(mList) : i < k => mList[i].start + mList[i].size <= mList[k].start
    /\ \A i \in 1..Len(mList) : mList[i].start + mList[i].size <= HeapSize

IInv ==
    /\ TypeOK /\ Tiled /\ Coalesced /\ Ordered
    /\ mHeapSize = 0 => mList = <<>>

-----------------------------------------------------------------------------
(* Refinement: the list is a heap of blocks.                               *)

isReady == mHeapSize # 0

usedBlocks ==
    {[start |-> mList[i].start, size |-> mList[i].size] :
        i \in {k \in 1..Len(mList) : ~mList[k].free}}

returned ==
    IF result.err \in {"EINVAL", "ENOENT"} THEN Err("rejected") ELSE result

H == INSTANCE Heap WITH ready <- isReady, used <- usedBlocks, answer <- returned

\* The allocator implements Heap: blocks on pages that never overlap, and
\* -ENOMEM only when no free range could hold the block.
ImplementsHeap == H!Spec

=============================================================================
