-------------------------------- MODULE Heap --------------------------------
(***************************************************************************)
(* What the pmem allocator promises: blocks of a heap that never overlap   *)
(* and start on a page, a block for every request that some free range can *)
(* hold, and a refusal only when there is none.  Addresses and sizes are   *)
(* in units of the allocator's alignment.                                  *)
(***************************************************************************)
EXTENDS Naturals

CONSTANTS HeapSize, PageSize, Sizes

VARIABLES
    ready,   \* the heap has been given its size
    used,    \* blocks in use, each a start and a size
    answer   \* what the last call returned

vars == <<ready, used, answer>>

Granted(at) == [err |-> "ok", at |-> at]
Refused(err) == [err |-> err, at |-> 0]

Init == ready = FALSE /\ used = {} /\ answer = Refused("none")

Disjoint(at, size, block) ==
    at + size <= block.start \/ block.start + block.size <= at

Room(at, size) ==
    /\ at % PageSize = 0
    /\ at + size <= HeapSize
    /\ \A block \in used : Disjoint(at, size, block)

Places(size) == {at \in 0..HeapSize : Room(at, size)}

Prepare ==
    /\ ~ready
    /\ ready' = TRUE
    /\ answer' = Refused("none")
    /\ UNCHANGED used

Take(size) ==
    /\ ready
    /\ \E at \in Places(size) :
        /\ used' = used \cup {[start |-> at, size |-> size]}
        /\ answer' = Granted(at)
    /\ UNCHANGED ready

Refuse(size) ==
    /\ ready
    /\ Places(size) = {}
    /\ answer' = Refused("ENOMEM")
    /\ UNCHANGED <<ready, used>>

Return(block) ==
    /\ ready
    /\ block \in used
    /\ used' = used \ {block}
    /\ answer' = Granted(0)
    /\ UNCHANGED ready

\* A call before the heap is ready, a second size, or an unknown block.
Reject ==
    /\ answer' = Refused("rejected")
    /\ UNCHANGED <<ready, used>>

Next ==
    \/ Prepare
    \/ \E size \in Sizes : Take(size) \/ Refuse(size)
    \/ \E block \in used : Return(block)
    \/ Reject

Spec == Init /\ [][Next]_vars

=============================================================================
