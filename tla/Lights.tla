------------------------------- MODULE Lights -------------------------------
(***************************************************************************)
(* liblights/lights.c: the backlight.  Threads of the framework set it;    *)
(* others may meanwhile open the lights that this device does not have.    *)
(* External: the sysfs file of the backlight, and the framework, which     *)
(* opens the backlight before it sets it and then never again, and asks    *)
(* for shades of grey.                                                     *)
(***************************************************************************)
EXTENDS Naturals

CONSTANTS
    Thread, NoThread,
    Level       \* levels asked for
ThreadAssumption == NoThread \notin Thread
LevelAssumption == Level \subseteq 0..255

VARIABLES
    opened,     \* the backlight was opened
    g_lock,     \* its holder
    at,         \* per thread: where it is, and the level it sets
    file,       \* the brightness the kernel has
    reports     \* history: the levels set by calls that returned without error,
                \* the last one

lightVars == <<opened, g_lock, at, file, reports>>

Idle == [pc |-> "idle", level |-> 0]

Init ==
    /\ opened = FALSE /\ g_lock = NoThread
    /\ at = [t \in Thread |-> Idle]
    /\ file = 0 /\ reports = 0

\* The mutex is initialised by an open that succeeds, never by one that fails.
open_lights ==
    /\ ~opened
    /\ opened' = TRUE /\ g_lock' = NoThread
    /\ UNCHANGED <<at, file, reports>>

\* Mutant: the mutex is initialised before the name is looked at.
open_other_initialises ==
    /\ g_lock' = NoThread
    /\ UNCHANGED <<opened, at, file, reports>>

open_other == UNCHANGED lightVars

\* Mutant: weights that do not add up to 256.
rgb_to_brightness_dark(red, green, blue) == (77 * red + 150 * green + 28 * blue) \div 256

rgb_to_brightness(red, green, blue) == (77 * red + 150 * green + 29 * blue) \div 256

Call(t, level) ==
    /\ opened /\ at[t].pc = "idle"
    /\ at' = [at EXCEPT ![t] = [pc |-> "lock", level |-> level]]
    /\ UNCHANGED <<opened, g_lock, file, reports>>

set_light_backlight(t) ==
    /\ at[t].pc = "lock" /\ g_lock = NoThread
    /\ g_lock' = t
    /\ at' = [at EXCEPT ![t].pc = "write"]
    /\ UNCHANGED <<opened, file, reports>>

write_int(t) ==
    /\ at[t].pc = "write"
    /\ \/ /\ file' = rgb_to_brightness(at[t].level, at[t].level, at[t].level)
          /\ at' = [at EXCEPT ![t].pc = "written"]
       \/ at' = [at EXCEPT ![t].pc = "failed"] /\ UNCHANGED file
    /\ UNCHANGED <<opened, g_lock, reports>>

Unlock(t) ==
    /\ at[t].pc \in {"written", "failed"}
    /\ reports' = IF at[t].pc = "written" THEN at[t].level ELSE reports
    /\ g_lock' = NoThread
    /\ at' = [at EXCEPT ![t] = Idle]
    /\ UNCHANGED <<opened, file>>

Next ==
    \/ open_lights \/ open_other
    \/ \E t \in Thread :
          \/ \E level \in Level : Call(t, level)
          \/ set_light_backlight(t) \/ write_int(t) \/ Unlock(t)

Spec == Init /\ [][Next]_lightVars

(* The inductive invariant *)

Types ==
    /\ opened \in BOOLEAN
    /\ at \in [Thread -> [pc : {"idle", "lock", "write", "written", "failed"}, level : Level \cup {0}]]

\* Whoever writes holds the mutex, which nobody touches before the backlight is
\* opened.
Locked ==
    /\ \A t \in Thread : at[t].pc \in {"write", "written", "failed"} => g_lock = t
    /\ ~opened => \A t \in Thread : at[t].pc = "idle"

\* What the file has between a write and the end of its call.
Written ==
    \A t \in Thread : at[t].pc = "written" => file = at[t].level


\* With no call between its write and its end, the backlight has the level of
\* the call that ended last without error: calls of several threads take effect
\* in the order in which they end, and no level is lost in the conversion.
LevelIsLast ==
    (\A t \in Thread : at[t].pc # "written") => file = reports

IInv == Types /\ Locked /\ Written /\ LevelIsLast
=============================================================================
