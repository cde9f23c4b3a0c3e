--------------------------- MODULE MCGrallocLock ---------------------------
(***************************************************************************)
(* Instances of GrallocLock for TLC: two threads, one of which may hold    *)
(* the buffer twice.                                                       *)
(***************************************************************************)
EXTENDS GrallocLock

CONSTANTS a, b, l1, l2, l3

MCLease == {l1, l2, l3}
MCThread == {a, b}
MCThreadOf == [l \in MCLease |-> IF l = l3 THEN b ELSE a]

\* Hardware read, software read, software write, hardware write.
MCUsages == {{}, {"swRead"}, {"swWrite"}, {"hwRender"}}

=============================================================================
