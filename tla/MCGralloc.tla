----------------------------- MODULE MCGralloc -----------------------------
(***************************************************************************)
(* Instances of Gralloc for TLC: two threads, one of which uses the        *)
(* framebuffer, three buffers and a pmem area of two pages.                *)
(***************************************************************************)
EXTENDS Gralloc

CONSTANTS a, b, h1, h2, h3

MCThread == {a, b}
MCFbThreads == {a}
MCHandle == {h1, h2, h3}
MCSizes == {1}

TwoScreens == {2}
OneScreen == {1}
NoFaults == {}

=============================================================================
