--------------------------- MODULE ReadersWriter ---------------------------
(***************************************************************************)
(* What the lock word of a graphics buffer promises its users: many        *)
(* readers or one writer.  Each element of Lease is one use of the buffer, *)
(* from a lock() that succeeds to its unlock().                            *)
(***************************************************************************)
CONSTANT Lease

VARIABLES
    readers,   \* leases that hold the buffer for reading
    writers    \* leases that hold it for writing: at most one

vars == <<readers, writers>>

Init == readers = {} /\ writers = {}

AcquireRead(l) ==
    /\ writers = {}
    /\ readers' = readers \cup {l}
    /\ UNCHANGED writers

AcquireWrite(l) ==
    /\ readers = {}
    /\ writers = {}
    /\ writers' = {l}
    /\ UNCHANGED readers

Release(l) ==
    /\ l \in readers \cup writers
    /\ readers' = readers \ {l}
    /\ writers' = writers \ {l}

\* The buffer itself goes away, and every use of it with it.
Forget == readers' = {} /\ writers' = {}

Next ==
    \/ \E l \in Lease : AcquireRead(l) \/ AcquireWrite(l) \/ Release(l)
    \/ Forget

Spec == Init /\ [][Next]_vars

=============================================================================
