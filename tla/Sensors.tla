------------------------------ MODULE Sensors ------------------------------
(***************************************************************************)
(* libsensors/sensors.c: the accelerometer's input device behind the       *)
(* control and the data device of the sensors module.  Both devices share  *)
(* one descriptor, sFD, without a lock: the thread of either may open it   *)
(* and close it while the other is about to read it.                       *)
(*                                                                         *)
(* External: the input driver, which queues for every open descriptor the  *)
(* axes that changed and then EV_SYN.  A reader that was not there when an *)
(* axis changed is not told.                                               *)
(***************************************************************************)
EXTENDS Integers, Sequences, SequencesExt

CONSTANTS
    Fd,             \* descriptors
    None,           \* -1
    Reading,        \* what an axis may measure
    Axis,           \* the axes that may move
    MaxQueue        \* bound on events in a queue

FdAssumption == None \notin Fd
ReadingAssumption == Reading \subseteq Int /\ 0 \in Reading
AxisAssumption == Axis \subseteq {"ABS_X", "ABS_Y", "ABS_Z"}
QueueAssumption == MaxQueue \in Nat

Thread == {"control", "data"}
Position == [Axis -> Reading]
Still == [a \in Axis |-> 0]
Nothing == [at |-> Still, seen |-> {}]
Zero == [x |-> 0, y |-> 0, z |-> 0]

VARIABLES
    sFD,
    old, state,     \* oldx, oldy, oldz; state = 1: an orientation is due
    data,           \* what data_poll filled in
    has,            \* threads whose device is open
    pc, got,        \* a thread's next step, the descriptor it just opened
    pos,            \* what the device measures
    fds,            \* per open descriptor: its queue, the axes read from it
    answer, shown   \* history: what data_poll returned; what was true then

held == <<old, state, data>>
history == <<answer, shown>>
sensorsVars == <<sFD, held, has, pc, got, pos, fds, history>>

Closed == [open |-> FALSE, queue |-> <<>>, seen |-> {}]
Opened == [open |-> TRUE, queue |-> <<>>, seen |-> {}]

Init ==
    /\ sFD = None
    /\ old = Zero /\ state = 0 /\ data = Zero
    /\ has = {}
    /\ pc = [t \in Thread |-> "idle"] /\ got = [t \in Thread |-> None]
    /\ pos = Still
    /\ fds = [f \in Fd |-> Closed]
    /\ answer = "none" /\ shown = Nothing

Goto(t, label) == pc' = [pc EXCEPT ![t] = label]

-----------------------------------------------------------------------------
(* The driver *)

SYN(p) == [code |-> "EV_SYN", at |-> p]
ABS(a, p) == [code |-> a, value |-> p[a]]
Frame(p, q) ==
    LET changed == SetToSeq({a \in Axis : p[a] # q[a]})
    IN  [i \in DOMAIN changed |-> ABS(changed[i], q)] \o <<SYN(q)>>

\* Descriptors somebody may still read; a queue nobody knows of is not kept.
Known == {sFD} \cup {got[t] : t \in Thread}

Move ==
    \E q \in Position \ {pos} :
        LET Pushed(s) == [s EXCEPT !.queue = @ \o Frame(pos, q)]
        IN  /\ \A f \in Fd \cap Known :
                   Len(Pushed(fds[f]).queue) <= MaxQueue
            /\ pos' = q
            /\ fds' = [f \in Fd |-> IF f \in Known /\ fds[f].open
                                    THEN Pushed(fds[f]) ELSE fds[f]]
            /\ UNCHANGED <<sFD, held, has, pc, got, history>>

-----------------------------------------------------------------------------
(* Opening and closing *)

\* Look for the device in /dev/input; it may not be there, or the process may
\* have no descriptor left.
open_input(t) ==
    /\ pc[t] \in {"open", "reopen"}
    /\ \/ \E f \in Fd :
              /\ ~fds[f].open
              /\ got' = [got EXCEPT ![t] = f]
              /\ fds' = [fds EXCEPT ![f] = Opened]
       \/ got' = [got EXCEPT ![t] = None] /\ UNCHANGED fds
    /\ Goto(t, IF pc[t] = "open" THEN "keep" ELSE "rekeep")
    /\ UNCHANGED <<sFD, held, has, pos, history>>

evdev_open(t) ==
    /\ pc[t] = "idle" /\ t \notin has
    /\ IF sFD = None
       THEN Goto(t, "open") /\ UNCHANGED has
       ELSE has' = has \cup {t} /\ UNCHANGED pc
    /\ UNCHANGED <<sFD, held, got, pos, fds, history>>

\* The control device cannot be opened without the input device; the data
\* device can.
evdev_open_keep(t) ==
    /\ pc[t] = "keep"
    /\ sFD' = got[t]
    /\ got' = [got EXCEPT ![t] = None]
    /\ has' = IF t = "control" /\ got[t] = None THEN has ELSE has \cup {t}
    /\ Goto(t, "idle")
    /\ UNCHANGED <<held, pos, fds, history>>

evdev_close(t) ==
    /\ pc[t] = "idle" /\ t \in has
    /\ has' = has \ {t}
    /\ Goto(t, "close")
    /\ UNCHANGED <<sFD, held, got, pos, fds, history>>

\* close(sFD); the descriptor may be closed already, or be -1.
CloseIt(t) ==
    /\ pc[t] \in {"close", "fail"}
    /\ fds' = IF sFD = None THEN fds ELSE [fds EXCEPT ![sFD] = Closed]
    /\ Goto(t, IF pc[t] = "close" THEN "forget" ELSE "refail")
    /\ UNCHANGED <<sFD, held, has, got, pos, history>>

\* sFD = -1; data_poll also returns, with 0.
Forget(t) ==
    /\ pc[t] \in {"forget", "refail"}
    /\ sFD' = None
    /\ answer' = IF pc[t] = "refail" THEN "nothing" ELSE answer
    /\ Goto(t, "idle")
    /\ UNCHANGED <<held, has, got, pos, fds, shown>>

-----------------------------------------------------------------------------
(* data_poll *)

Polling == pc["data"] = "idle" /\ "data" \in has

\* asin(oldy / |old|) turned over if the device faces down, and asin(oldx /
\* |old|): the division has no result for a device that measures nothing.
Orientation(o) ==
    IF o = Zero THEN [roll |-> "nan"]
    ELSE [pitch |-> o.y, over |-> o.z > 0, roll |-> o.x]

data_poll_orientation ==
    /\ Polling /\ state = 1
    /\ state' = 0
    /\ data' = Orientation(old)
    /\ answer' = "orientation" /\ shown' = Nothing
    /\ UNCHANGED <<sFD, old, has, pc, got, pos, fds>>

Acceleration(o) == [x |-> o.x, y |-> -o.y, z |-> o.z]

data_poll_start ==
    /\ Polling /\ state = 0
    /\ answer' = "none" /\ shown' = Nothing /\ data' = Zero
    /\ Goto("data", IF sFD = None THEN "reopen" ELSE "fill")
    /\ UNCHANGED <<sFD, old, state, has, got, pos, fds>>

data_poll_reopened ==
    /\ pc["data"] = "rekeep"
    /\ sFD' = got["data"]
    /\ got' = [got EXCEPT !["data"] = None]
    /\ Goto("data", "fill")
    /\ UNCHANGED <<held, has, pos, fds, history>>

\* Mutant: the sample starts with the axes reported in this frame only.
data_poll_fill_zero ==
    /\ pc["data"] = "fill"
    /\ data' = Zero
    /\ Goto("data", "read")
    /\ UNCHANGED <<sFD, old, state, has, got, pos, fds, history>>

\* An axis that does not change is not reported: start from the last sample.
data_poll_fill ==
    /\ pc["data"] = "fill"
    /\ data' = Acceleration(old)
    /\ Goto("data", "read")
    /\ UNCHANGED <<sFD, old, state, has, got, pos, fds, history>>

\* The device's axes are turned by a quarter.
Store(o, e) ==
    CASE e.code = "ABS_Y" -> [o EXCEPT !.x = e.value]
      [] e.code = "ABS_X" -> [o EXCEPT !.y = e.value]
      [] e.code = "ABS_Z" -> [o EXCEPT !.z = e.value]
StoreSample(s, e) ==
    IF e.code = "ABS_X" THEN [s EXCEPT !.y = -e.value] ELSE Store(s, e)

\* A short read is read again; any error ends the poll.
data_poll_fail ==
    /\ pc["data"] = "read"
    /\ Goto("data", "fail")
    /\ UNCHANGED <<sFD, held, has, got, pos, fds, history>>

data_poll_event(e) ==
    IF e.code = "EV_SYN"
    THEN /\ fds' = [fds EXCEPT ![sFD].queue = Tail(@)]
         /\ answer' = "acceleration"
         /\ shown' = [at |-> e.at, seen |-> fds[sFD].seen]
         /\ Goto("data", "idle")
         /\ UNCHANGED <<old, data>>
    ELSE /\ fds' = [fds EXCEPT ![sFD].queue = Tail(@),
                               ![sFD].seen = @ \cup {e.code}]
         /\ old' = Store(old, e) /\ data' = StoreSample(data, e)
         /\ UNCHANGED <<pc, history>>

\* Mutant: an orientation is due as soon as an axis was reported.
data_poll_read_early ==
    /\ pc["data"] = "read" /\ sFD # None
    /\ fds[sFD].queue # <<>>
    /\ data_poll_event(Head(fds[sFD].queue)) /\ state' = 1
    /\ UNCHANGED <<sFD, has, got, pos>>

data_poll_read ==
    /\ pc["data"] = "read" /\ sFD # None
    /\ fds[sFD].queue # <<>>
    /\ LET e == Head(fds[sFD].queue)
       IN  data_poll_event(e) /\ state' = (IF e.code = "EV_SYN" THEN 1 ELSE state)
    /\ UNCHANGED <<sFD, has, got, pos>>

Next ==
    \/ \E t \in Thread :
           open_input(t) \/ evdev_open(t) \/ evdev_open_keep(t) \/ evdev_close(t)
           \/ CloseIt(t) \/ Forget(t)
    \/ data_poll_orientation \/ data_poll_start \/ data_poll_reopened
    \/ data_poll_fill \/ data_poll_fail \/ data_poll_read
    \/ Move

Spec == Init /\ [][Next]_sensorsVars

-----------------------------------------------------------------------------

\* What the axes measured when the frame ended, in the client's directions.
Shows(d, p, a) ==
    CASE a = "ABS_X" -> d.y = -p[a]
      [] a = "ABS_Y" -> d.x = p[a]
      [] a = "ABS_Z" -> d.z = p[a]

\* A sample is what the device measured at the end of its frame, in every axis
\* that was reported since the descriptor was opened, whichever thread closes
\* and opens it meanwhile: an axis that did not move keeps its last value.
SampleIsTrue ==
    answer = "acceleration" =>
        \A a \in shown.seen : Shows(data, shown.at, a)

\* Every sample is followed by the orientation computed from it, and an
\* orientation only ever follows its sample: not one older, and not one whose
\* frame an error cut off.
OrientationFollows ==
    /\ (answer = "acceleration" /\ answer' # answer) => answer' = "orientation"
    /\ (answer' = "orientation" /\ answer # answer') =>
           /\ answer = "acceleration"
           /\ data' = Orientation([data EXCEPT !.y = -@])

OrientationOfSample == [][OrientationFollows]_sensorsVars

\* The inductive invariant.  A descriptor that was just opened is new, and its
\* opener's own unless the other thread is about to forget it; an orientation is due
\* exactly while the sample it is of was returned last; and in a queue that is read
\* from, what was told of an axis before a frame ends is what it measured then.
Labels == {"idle", "open", "keep", "close", "forget"}
PollLabels == {"reopen", "rekeep", "fill", "read", "fail", "refail"}
Event == [code : {"EV_SYN"}, at : Position] \cup [code : Axis, value : Reading]

Types ==
    /\ sFD \in Fd \cup {None}
    /\ old \in [x : Reading, y : Reading, z : Reading] /\ state \in {0, 1}
    /\ pc \in [Thread -> Labels \cup PollLabels] /\ pc["control"] \in Labels
    /\ got \in [Thread -> Fd \cup {None}]
    /\ pos \in Position
    /\ fds \in [Fd -> [open : BOOLEAN, queue : Seq(Event), seen : SUBSET Axis]]

Forgetting(t) == pc[t] \in {"forget", "refail"}

Descriptors ==
    /\ \A f \in Fd : ~fds[f].open => fds[f] = Closed
    /\ \A t \in Thread : got[t] # None =>
           /\ pc[t] \in {"keep", "rekeep"}
           /\ fds[got[t]].open /\ fds[got[t]].seen = {}
           /\ \A u \in Thread \ {t} :
                  /\ got[u] # got[t]
                  /\ got[t] = sFD => Forgetting(u)
    /\ sFD # None /\ ~fds[sFD].open => \E t \in Thread : Forgetting(t)

PollState ==
    /\ pc["data"] \in PollLabels => state = 0 /\ answer = "none"
    /\ pc["data"] = "read" => data = Acceleration(old)
    /\ state = 1 <=> answer = "acceleration"
    /\ state = 1 => data = Acceleration(old)

\* What the client knows of an axis.
Value(o, a) == IF a = "ABS_X" THEN o.y ELSE IF a = "ABS_Y" THEN o.x ELSE o.z

\* Whenever a frame of q ends, and when the next one does, which p will end.
Ends(q, i) == i > Len(q) \/ q[i].code = "EV_SYN"
At(q, i, p, a) == IF i > Len(q) THEN p[a] ELSE q[i].at[a]
NotAfter(q, j, i, a) == \A k \in j + 1..i - 1 : q[k].code # a
Told(q, seen, o, p) ==
    \A i \in 1..Len(q) + 1, a \in Axis :
        Ends(q, i) =>
            /\ \A j \in 1..i - 1 :
                   q[j].code = a /\ NotAfter(q, j, i, a) => q[j].value = At(q, i, p, a)
            /\ a \in seen /\ NotAfter(q, 0, i, a) => Value(o, a) = At(q, i, p, a)

QueuesTrue ==
    \A f \in Fd \cap Known : fds[f].open => Told(fds[f].queue, fds[f].seen, old, pos)

IInv == Types /\ Descriptors /\ PollState /\ QueuesTrue /\ SampleIsTrue
=============================================================================
