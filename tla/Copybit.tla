------------------------------- MODULE Copybit ------------------------------
(***************************************************************************)
(* libcopybit/copybit.cpp: copies of rectangles of one image into another, *)
(* rotated and scaled, by the 2D engine.  The engine takes one rectangle   *)
(* at a time; of each clip of the caller's region the HAL works out which  *)
(* part of the source belongs there.                                       *)
(*                                                                         *)
(* External: the engine, which knows the transform it was told last for    *)
(* this descriptor and fits the source rectangle it is given into the      *)
(* destination rectangle it is given; and the compositor, whose regions    *)
(* meet the destination.  Left out: the plane alpha, the pixel formats'    *)
(* encoding and the addresses of the images, which are handed on.          *)
(***************************************************************************)
EXTENDS Integers, Sequences

CONSTANTS
    Calls,      \* stretch and blit: [op, dst, src, dst_rect, src_rect, format]
    Regions     \* the clips of a call, one after the other

MAX_DIMENSION == 2040

Rect(l, t, r, b) == [l |-> l, t |-> t, r |-> r, b |-> b]
Width(rect) == rect.r - rect.l
Height(rect) == rect.b - rect.t
Pixels(rect) == (rect.l .. rect.r - 1) \X (rect.t .. rect.b - 1)
Min(a, b) == IF a < b THEN a ELSE b
Max(a, b) == IF a > b THEN a ELSE b
intersect(a, b) == Rect(Max(a.l, b.l), Max(a.t, b.t), Min(a.r, b.r), Min(a.b, b.b))

Rotation == {"0", "90", "180", "270"}
Transform == Rotation \cup {"FLIP_H", "FLIP_V"}

Rects == [l : Int, t : Int, r : Int, b : Int]

CallsAssumption ==
    \A c \in Calls :
        c.op \in {"stretch", "blit"} /\ c.dst_rect \in Rects /\ c.src_rect \in Rects

RegionsAssumption ==
    /\ Regions \subseteq Seq(Rects)
    /\ \A c \in Calls, some \in Regions :
           \A i \in DOMAIN some : Pixels(intersect(some[i], c.dst_rect)) # {}

VARIABLES
    opened,
    transform,      \* of the context
    rotation,       \* of the engine
    asked,          \* history: the transform of the last set_parameter that succeeded
    call,           \* the call that is made, or the last one
    clips,          \* clips it still has to copy
    region, drawn,  \* history: its clips, and the source pixel of each pixel it drew
    ret

bitVars == <<opened, transform, rotation, asked, call, clips, region, drawn, ret>>

NoCall == [op |-> "none"]
Idle == ret # "busy"

Init ==
    /\ opened = FALSE /\ transform = "0" /\ rotation = "0" /\ asked = "0"
    /\ call = NoCall /\ clips = <<>> /\ region = <<>> /\ drawn = <<>> /\ ret = "none"

open_copybit ==
    /\ Idle /\ ~opened
    /\ opened' = TRUE /\ transform' = "0" /\ rotation' = "0" /\ asked' = "0"
    /\ call' = NoCall /\ clips' = <<>> /\ region' = <<>> /\ drawn' = <<>> /\ ret' = "none"

close_copybit ==
    /\ Idle /\ opened
    /\ opened' = FALSE
    /\ UNCHANGED <<transform, rotation, asked, call, clips, region, drawn, ret>>

\* Mutant: COPYBIT_ROTATION_DEG forgets the context.
Taken_degrees(name, value) == IF name = "ROTATION_DEG" THEN transform ELSE value

\* The transform of the context after a valid value.
Taken(name, value) == value

\* An invalid value, or a flip as a number of degrees, is refused and changes
\* nothing.  A call's drawing is forgotten, being that of another transform.
set_parameter_copybit ==
    /\ Idle /\ opened
    /\ \E name \in {"ROTATION_DEG", "TRANSFORM"}, value \in Transform \cup {"invalid"} :
           /\ value \in (IF name = "TRANSFORM" THEN Transform ELSE Rotation)
           /\ transform' = Taken(name, value) /\ rotation' = value /\ asked' = value
    /\ call' = NoCall /\ region' = <<>> /\ drawn' = <<>> /\ ret' = "ok"
    /\ UNCHANGED <<opened, clips>>

-----------------------------------------------------------------------------
(* set_rects and set_rects_noscale *)

\* Mutant: a half turn keeps the offset from the left.
Offset_turned(d, c) ==
    CASE transform = "90" -> <<c.t - d.t, d.r - c.r>>
      [] transform = "180" -> <<c.l - d.l, d.b - c.b>>
      [] transform = "270" -> <<d.b - c.b, c.l - d.l>>
      [] OTHER -> <<c.l - d.l, c.t - d.t>>

\* Where the clip starts in the turned destination.
Offset(d, c) ==
    CASE transform = "90" -> <<c.t - d.t, d.r - c.r>>
      [] transform = "180" -> <<d.r - c.r, d.b - c.b>>
      [] transform = "270" -> <<d.b - c.b, c.l - d.l>>
      [] OTHER -> <<c.l - d.l, c.t - d.t>>

\* A quarter turn adds the source's top to its left, and the other way round.
Origin(s) ==
    CASE transform = "90" -> <<s.t, s.l>>
      [] transform = "270" -> <<s.t, s.l>>
      [] OTHER -> <<s.l, s.t>>

\* Mutant: a quarter turn scales by the other side.
Turned_not(rect) == <<Width(rect), Height(rect)>>

Turned(rect) ==
    IF transform \in {"90", "270"} THEN <<Height(rect), Width(rect)>>
    ELSE <<Width(rect), Height(rect)>>

MULDIV(a, mul, div) == IF mul = div THEN a ELSE (mul * a) \div div

\* The source rectangle of a clip.  The offset is scaled together with the
\* source's origin, which it was added to.
SourceOf(d, s, c, scaled) ==
    LET size == <<Width(s), Height(s)>>
        Scale(i, a) == IF scaled THEN MULDIV(a, size[i], Turned(d)[i]) ELSE a
        l == Scale(1, Offset(d, c)[1] + Origin(s)[1])
        t == Scale(2, Offset(d, c)[2] + Origin(s)[2])
    IN  Rect(l, t, l + Scale(1, Turned(c)[1]), t + Scale(2, Turned(c)[2]))

\* The engine: the source pixel for a pixel of the destination rectangle.
Sample(rot, d, s, p) ==
    LET x == p[1] - d.l
        y == p[2] - d.t
        X == Width(d) - 1 - x
        Y == Height(d) - 1 - y
        Across(a) == s.l + (a * Width(s)) \div (IF rot \in {"90", "270"} THEN Height(d) ELSE Width(d))
        Down(a) == s.t + (a * Height(s)) \div (IF rot \in {"90", "270"} THEN Width(d) ELSE Height(d))
    IN  CASE rot = "90" -> <<Across(y), Down(X)>>
          [] rot = "180" -> <<Across(X), Down(Y)>>
          [] rot = "270" -> <<Across(Y), Down(x)>>
          [] rot = "FLIP_H" -> <<Across(X), Down(y)>>
          [] rot = "FLIP_V" -> <<Across(x), Down(Y)>>
          [] OTHER -> <<Across(x), Down(y)>>

-----------------------------------------------------------------------------

\* stretch looks at the source rectangle, both at the images.
Valid(c) ==
    /\ c.op = "stretch" =>
           /\ c.src_rect.l >= 0 /\ c.src_rect.r <= c.src.w
           /\ c.src_rect.t >= 0 /\ c.src_rect.b <= c.src.h
    /\ \A image \in {c.src, c.dst} : image.w <= MAX_DIMENSION /\ image.h <= MAX_DIMENSION
    /\ c.format

\* blit copies the whole of the source to the whole of the destination.
Start ==
    /\ Idle /\ opened
    /\ \E c \in Calls, some \in Regions :
           /\ call' = c
           /\ IF Valid(c) THEN ret' = "busy" /\ clips' = some /\ region' = some
              ELSE ret' = "error" /\ clips' = <<>> /\ region' = <<>>
    /\ drawn' = <<>>
    /\ UNCHANGED <<opened, transform, rotation, asked>>

\* Pixels drawn again are drawn over.
Bitblt ==
    /\ ret = "busy" /\ clips # <<>>
    /\ LET c == intersect(Head(clips), call.dst_rect)
           s == SourceOf(call.dst_rect, call.src_rect, c, call.op = "stretch")
       IN  drawn' = [p \in Pixels(c) \cup DOMAIN drawn |->
                        IF p \in Pixels(c) THEN Sample(rotation, c, s, p) ELSE drawn[p]]
    /\ clips' = Tail(clips)
    /\ UNCHANGED <<opened, transform, rotation, asked, call, region, ret>>

BitbltFails ==
    /\ ret = "busy" /\ clips # <<>>
    /\ clips' = <<>> /\ ret' = "error"
    /\ UNCHANGED <<opened, transform, rotation, asked, call, region, drawn>>

Done ==
    /\ ret = "busy" /\ clips = <<>>
    /\ ret' = "ok"
    /\ UNCHANGED <<opened, transform, rotation, asked, call, clips, region, drawn>>

Next ==
    \/ open_copybit \/ close_copybit \/ set_parameter_copybit
    \/ Start \/ Bitblt \/ BitbltFails \/ Done

Spec == Init /\ [][Next]_bitVars

-----------------------------------------------------------------------------

\* The clip's edges fall between pixels of the source.
Aligned(d, s, c) ==
    LET size == <<Width(s), Height(s)>> IN
    \A i \in 1..2 :
        \A edge \in {Offset(d, c)[i], Turned(c)[i]} : (edge * size[i]) % Turned(d)[i] = 0

Unscaled(d, s) == <<Width(s), Height(s)>> = Turned(d)

\* What the arithmetic is right for.  A source that does not start at its image's
\* corner is neither scaled nor turned by a quarter; a flip is not clipped (the
\* code for it is commented out); and blit has sides that match.
Exact(c) ==
    LET d == call.dst_rect
        s == call.src_rect
    IN  /\ (s.l = 0 /\ s.t = 0) \/ (Unscaled(d, s) /\ asked \notin {"90", "270"})
        /\ asked \in Rotation \/ intersect(c, d) = d
        /\ IF call.op = "blit" THEN Unscaled(d, s) ELSE Aligned(d, s, intersect(c, d))

\* Every pixel that a call draws, clip by clip, is the one that it would be if the
\* destination were drawn as a whole, in the transform that was set last; it is
\* within the clips, and a call that succeeds has drawn all of them.
ClipsFit ==
    (opened /\ call.op # "none" /\ \A i \in DOMAIN region : Exact(region[i])) =>
        LET Clipped == UNION {Pixels(intersect(region[i], call.dst_rect)) : i \in DOMAIN region}
        IN  /\ DOMAIN drawn \subseteq Clipped
            /\ \A p \in DOMAIN drawn :
                   drawn[p] = Sample(asked, call.dst_rect, call.src_rect, p)
            /\ ret = "ok" => DOMAIN drawn = Clipped

-----------------------------------------------------------------------------
(* The inductive invariant. *)

\* The context, the engine and the caller agree on the transform while it is open,
\* and a call is only under way then.
Agreed ==
    /\ asked \in Transform
    /\ opened => transform = asked /\ rotation = asked
    /\ ret = "busy" => opened /\ call.op # "none"
    /\ call.op # "none" => call \in Calls /\ region \in Seq(Rects)
    /\ ret = "busy" => clips \in Seq(Rects)

\* After n clips their pixels are drawn, each as it would be in the whole.
DrawnAfter(n) ==
    /\ DOMAIN drawn = UNION {Pixels(intersect(region[i], call.dst_rect)) : i \in 1..n}
    /\ \A p \in DOMAIN drawn : drawn[p] = Sample(asked, call.dst_rect, call.src_rect, p)
    /\ ret = "ok" => n = Len(region)
    /\ ret = "busy" =>
           /\ n + Len(clips) = Len(region)
           /\ \A i \in 1..Len(clips) : clips[i] = region[n + i]

Drawing ==
    (opened /\ call.op # "none" /\ \A i \in DOMAIN region : Exact(region[i])) =>
        \E n \in 0..Len(region) : DrawnAfter(n)

IInv == Agreed /\ Drawing
=============================================================================
