---------------------------- MODULE SensorsData ----------------------------
(***************************************************************************)
(* libsensors/sensors_all.c, the data device: one thread that merges the   *)
(* events of two input devices, the compass (akm) and the accelerometer    *)
(* (kxsd9), into samples.  A sample is stored in dev->sensors while its    *)
(* axes are read, becomes pending at EV_SYN, and is returned by this call  *)
(* or one of the next.  new_sensors, got_syn and exit are shared by both   *)
(* devices: the EV_SYN of one ends the frame of the other too.             *)
(*                                                                         *)
(* External: the input devices, of which either, both or none may have an  *)
(* event when select() returns.  Android.mk builds sensors.c in its place; *)
(* the module stands for the source as it is.                              *)
(***************************************************************************)
EXTENDS Naturals, FiniteSets

CONSTANT Reading    \* what an axis of the accelerometer may measure

ReadingAssumption == Reading \subseteq Nat /\ 0 \in Reading

\* The order in which pick_sensor looks, highest ID first.
IDs == <<"A", "M", "O", "T">>
Sensor == {"A", "M", "O", "T"}
Rank(s) == CHOOSE i \in 1..4 : IDs[i] = s

Axis == {"ABS_X", "ABS_Y", "ABS_Z"}

VARIABLES
    polling,            \* whether data__poll is running
    opened,             \* whether the device is
    sensorA, sensorO,   \* dev->sensors: the sample, and what the orientation is of
    old,                \* oldx, oldy, oldz
    pendingSensors,
    new_sensors,
    woken,              \* SYN_CONFIGs that control__wake wrote, at most one
    seen,               \* history: axes reported since the device was opened,
    due,                \* the samples as they were when they became pending,
    answer,             \* what data__poll returned last,
    pair                \* and the sample behind the last orientation returned

sampleVars == <<sensorA, sensorO, old>>
dataVars == <<polling, opened, sampleVars, pendingSensors, new_sensors, woken,
              seen, due, answer, pair>>

Rest == [a \in Axis |-> 0]
NoDue == [A |-> Rest, O |-> Rest]

Init ==
    /\ polling = FALSE /\ opened = FALSE
    /\ sensorA = Rest /\ sensorO = Rest /\ old = Rest
    /\ pendingSensors = {} /\ new_sensors = {}
    /\ woken = 0 /\ seen = {} /\ due = NoDue /\ answer = "none" /\ pair = Rest

\* data__data_open clears the samples, but not the readings of the last client.
data_open ==
    /\ ~opened /\ ~polling
    /\ opened' = TRUE
    /\ sensorA' = Rest /\ sensorO' = Rest
    /\ pendingSensors' = {} /\ seen' = {} /\ due' = NoDue /\ answer' = "none"
    /\ pair' = Rest
    /\ UNCHANGED <<polling, old, new_sensors, woken>>

data_close ==
    /\ opened /\ ~polling
    /\ opened' = FALSE
    /\ UNCHANGED <<polling, sampleVars, pendingSensors, new_sensors, woken,
                   seen, due, answer, pair>>

wake == woken = 0 /\ woken' = 1
        /\ UNCHANGED <<polling, opened, sampleVars, pendingSensors, new_sensors,
                       seen, due, answer, pair>>

-----------------------------------------------------------------------------
(* One turn of the loop, over what has to be known of it *)

\* pick_sensor
Picked(pending) ==
    CHOOSE s \in pending : \A r \in pending : Rank(r) <= Rank(s)

Now == [A |-> sensorA, O |-> sensorO, old |-> old, new |-> new_sensors,
        pending |-> pendingSensors, due |-> due, seen |-> seen,
        got_syn |-> FALSE, exit |-> FALSE]

\* data__poll_process_syn
process_syn(t) ==
    [t EXCEPT !.pending = @ \cup t.new, !.new = {},
              !.due = [A |-> IF "A" \in t.new THEN t.A ELSE @.A,
                       O |-> IF "O" \in t.new THEN t.O ELSE @.O]]

\* data__poll_process_akm_abs, and what follows it
AkmEvents == {"none", "short", "MAGV", "TEMPERATURE", "EV_SYN", "SYN_CONFIG"}
akm(t, e) ==
    CASE e \in {"none", "short"} -> t
      [] e = "MAGV" -> [t EXCEPT !.new = @ \cup {"M"}]
      [] e = "TEMPERATURE" -> [t EXCEPT !.new = @ \cup {"T"}]
      [] e = "EV_SYN" -> process_syn([t EXCEPT !.got_syn = TRUE])
      [] e = "SYN_CONFIG" -> process_syn([t EXCEPT !.got_syn = TRUE, !.exit = TRUE])

\* Mutant: the orientation is of the readings before this one.
abs_late(t, a, v) ==
    [t EXCEPT !.A[a] = v, !.old[a] = v, !.O = t.old,
              !.new = @ \cup {"A", "O"}, !.seen = @ \cup {a}]

\* data__poll_process_kxsd9_abs: every axis also makes a new orientation, of
\* the readings as they are then.
abs(t, a, v) ==
    [t EXCEPT !.A[a] = v, !.old[a] = v, !.O = [t.old EXCEPT ![a] = v],
              !.new = @ \cup {"A", "O"}, !.seen = @ \cup {a}]

\* If the compass ended a frame in this turn, got_syn is still set: the frame
\* of the accelerometer ends after any event, and one with code 1, ABS_Y as
\* well as SYN_CONFIG, ends the call.
KxEvents == [code : Axis, value : Reading] \cup [code : {"none", "short", "EV_SYN"}]
kxsd9(t, e) ==
    CASE e.code \in {"none", "short"} -> t
      [] e.code = "EV_SYN" -> process_syn([t EXCEPT !.got_syn = TRUE])
      [] e.code \in Axis ->
            LET u == [abs(t, e.code, e.value)
                          EXCEPT !.exit = @ \/ (t.got_syn /\ e.code = "ABS_Y")]
            IN  IF t.got_syn THEN process_syn(u) ELSE u

Return(s, pending, samples) ==
    /\ polling' = FALSE
    /\ answer' = s
    /\ pendingSensors' = pending \ {s}
    /\ pair' = IF s = "O" THEN samples.A ELSE pair

\* Mutant: it reads on first, whatever is pending.
poll_on ==
    /\ opened /\ ~polling
    /\ polling' = TRUE /\ new_sensors' = {} /\ answer' = "none"
    /\ UNCHANGED <<opened, sampleVars, pendingSensors, pair, woken, seen, due>>

\* data__poll, up to the first select()
poll ==
    /\ opened /\ ~polling
    /\ IF pendingSensors # {}
       THEN /\ Return(Picked(pendingSensors), pendingSensors, [A |-> sensorA])
            /\ UNCHANGED <<new_sensors>>
       ELSE /\ polling' = TRUE /\ new_sensors' = {} /\ answer' = "none"
            /\ UNCHANGED <<pendingSensors, pair>>
    /\ UNCHANGED <<opened, sampleVars, woken, seen, due>>

\* select() and the events it found
turn ==
    /\ polling
    /\ \E e \in AkmEvents, k \in KxEvents :
           LET t == kxsd9(akm(Now, e), k)
           IN  /\ e = "SYN_CONFIG" => woken = 1
               /\ woken' = IF e = "SYN_CONFIG" THEN 0 ELSE woken
               /\ sensorA' = t.A /\ sensorO' = t.O /\ old' = t.old
               /\ new_sensors' = t.new /\ due' = t.due /\ seen' = t.seen
               /\ IF t.exit
                  THEN /\ polling' = FALSE /\ answer' = "exit"
                       /\ pendingSensors' = t.pending
                       /\ UNCHANGED pair
                  ELSE IF t.got_syn /\ t.pending # {}
                  THEN Return(Picked(t.pending), t.pending, t)
                  ELSE /\ pendingSensors' = t.pending
                       /\ UNCHANGED <<polling, answer, pair>>
    /\ UNCHANGED opened

\* select() fails, and the call with it.
turn_fails ==
    /\ polling
    /\ polling' = FALSE /\ answer' = "error"
    /\ UNCHANGED <<opened, sampleVars, pendingSensors, new_sensors, woken, seen,
                   due, pair>>

Next == data_open \/ data_close \/ wake \/ poll \/ turn \/ turn_fails

Spec == Init /\ [][Next]_dataVars

-----------------------------------------------------------------------------

\* A sample is returned as it was when its frame ended: nothing is read into
\* it while it is pending, over any number of calls.
PendingIsKept ==
    /\ "A" \in pendingSensors => sensorA = due.A
    /\ "O" \in pendingSensors => sensorO = due.O

\* The acceleration that follows an orientation is the one the orientation was
\* computed from, in the axes reported since the client opened the device: the
\* readings of an earlier client show in the orientation only.
PairMatches ==
    answer = "A" => \A a \in seen : sensorA[a] = pair[a] /\ sensorO[a] = pair[a]

\* The inductive invariant.  The two sensors of the accelerometer are new
\* together; what was reported since the device was opened is in the sample, the
\* orientation and the readings alike; a call waits for events only when nothing is
\* pending; and the orientation is returned before its acceleration.
Sample == [Axis -> Reading]

Types ==
    /\ polling \in BOOLEAN
    /\ sensorA \in Sample /\ sensorO \in Sample /\ old \in Sample
    /\ pendingSensors \in SUBSET Sensor /\ new_sensors \in SUBSET Sensor
    /\ seen \in SUBSET Axis /\ due \in [A : Sample, O : Sample]

InStep ==
    /\ "A" \in new_sensors <=> "O" \in new_sensors
    /\ \A a \in seen : sensorA[a] = old[a]
    /\ seen # {} => sensorO = old

OrientationFirst ==
    /\ polling => pendingSensors = {} /\ answer = "none"
    /\ "A" \in pendingSensors => "O" \in pendingSensors \/ pair = sensorA

IInv == Types /\ InStep /\ OrientationFirst /\ PendingIsKept /\ PairMatches
=============================================================================
