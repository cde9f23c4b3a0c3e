----------------------------- MODULE CrashGuard -----------------------------
(***************************************************************************)
(* crashguard/crashguard.c: a process that leaves a file in /data while it *)
(* runs and removes it when it is told to stop.  A file found at the start *)
(* means that the last run was cut off, and the RAM console is dumped.     *)
(*                                                                         *)
(* External: the system, which starts the process once per boot, signals   *)
(* it when it shuts down, kills it after that, and may crash at any step.  *)
(***************************************************************************)
EXTENDS Naturals

VARIABLES
    guard,      \* GUARD_FILE exists
    dump,       \* DUMP_FILE, of this boot: "none", "part", "whole"
    pc,
    handlers,   \* signals that have the handler
    told,       \* the handler ran since the guard file was found or made
    last,       \* history: how the run before this one ended
    dumping     \* history: this run took the last one for cut off

guardVars == <<guard, dump, pc, handlers, told, last, dumping>>

Signals == <<"SIGTERM", "SIGABRT", "SIGQUIT">>   \* in the order of their signal()
Signal == {Signals[i] : i \in 1..3}
Alive == {"start", "dump", "install", "pause"}

Init ==
    /\ guard = FALSE /\ dump = "none"
    /\ pc = "off" /\ handlers = {} /\ told = FALSE
    /\ last = "none" /\ dumping = FALSE

\* The process forgets everything; only the files stay.
Ended(state) ==
    /\ pc' = state
    /\ handlers' = {} /\ told' = FALSE /\ dumping' = FALSE
    /\ last' = IF pc \in Alive \ {"start"}
               THEN IF told THEN "told" ELSE "cut"
               ELSE last

Boot ==
    /\ pc = "off"
    /\ pc' = "start" /\ dump' = "none"
    /\ UNCHANGED <<guard, handlers, told, last, dumping>>

\* Mutant: O_EXCL left out.
OpenAny ==
    /\ pc = "start"
    /\ guard' = TRUE /\ dumping' = FALSE
    /\ pc' = "install"
    /\ UNCHANGED <<dump, handlers, told, last>>

\* main: O_EXCL fails on the file of the last run.
Open ==
    /\ pc = "start"
    /\ guard' = TRUE
    /\ dumping' = guard
    /\ pc' = IF guard THEN "dump" ELSE "install"
    /\ UNCHANGED <<dump, handlers, told, last>>

\* The memory or the file cannot be opened, a write fails, or all is written;
\* main goes on in any case.
dump_ram_console ==
    /\ pc = "dump"
    /\ dump' \in {"none", "part", "whole"}
    /\ pc' = "install"
    /\ UNCHANGED <<guard, handlers, told, last, dumping>>

Install ==
    /\ pc = "install"
    /\ \E i \in 1..3 :
          /\ handlers = {Signals[j] : j \in 1..i - 1}
          /\ handlers' = handlers \cup {Signals[i]}
          /\ pc' = IF i = 3 THEN "pause" ELSE pc
    /\ UNCHANGED <<guard, dump, told, last, dumping>>

\* Mutant: the handler only ends the wait.
signal_handler_keeps(s) ==
    /\ pc \in Alive /\ s \in handlers
    /\ guard' = guard /\ told' = TRUE
    /\ pc' = IF pc = "pause" THEN "returned" ELSE pc
    /\ UNCHANGED <<dump, handlers, last, dumping>>

\* A signal that comes before pause() leaves the process waiting for another.
signal_handler(s) ==
    /\ pc \in Alive /\ s \in handlers
    /\ guard' = FALSE /\ told' = TRUE
    /\ pc' = IF pc = "pause" THEN "returned" ELSE pc
    /\ UNCHANGED <<dump, handlers, last, dumping>>

\* main returns.
Return ==
    /\ pc = "returned"
    /\ pc' = "gone" /\ last' = "told"
    /\ handlers' = {} /\ told' = FALSE /\ dumping' = FALSE
    /\ UNCHANGED <<guard, dump>>

\* A signal without the handler, or SIGKILL, ends the process where it is.
Killed(s) ==
    /\ pc \in Alive /\ s \notin handlers
    /\ Ended("gone")
    /\ UNCHANGED <<guard, dump>>

\* The system stops, in order or by a crash.
Stop ==
    /\ pc # "off"
    /\ IF pc = "returned"
       THEN /\ pc' = "off" /\ last' = "told"
            /\ handlers' = {} /\ told' = FALSE /\ dumping' = FALSE
       ELSE Ended("off")
    /\ UNCHANGED <<guard, dump>>

Next ==
    \/ Boot \/ Open \/ dump_ram_console \/ Install \/ Return \/ Stop
    \/ \E s \in Signal : signal_handler(s)
    \/ \E s \in Signal \cup {"SIGKILL"} : Killed(s)

Spec == Init /\ [][Next]_guardVars

\* Wherever a signal or a crash falls, a run takes the last one for cut off
\* exactly when that one had made its file and ended before its handler ran:
\* also when it was cut off during its own dump, or before it could look.
GuardTells == pc \in Alive \ {"start"} => (dumping <=> last = "cut")

(* The inductive invariant *)

Types ==
    /\ guard \in BOOLEAN /\ told \in BOOLEAN /\ dumping \in BOOLEAN
    /\ pc \in Alive \cup {"off", "returned", "gone"}
    /\ last \in {"none", "cut", "told"}
    /\ handlers \subseteq Signal

\* A run keeps its file until its handler runs, which alone ends pause().
FileOfRun ==
    /\ pc \in {"dump", "install", "pause", "returned"} => (guard <=> ~told)
    /\ pc = "returned" => told

\* Between runs the file tells how the last one ended.
FileOfLast == pc \in {"off", "start", "gone"} => (guard <=> last = "cut") /\ handlers = {} /\ ~told

\* A run that dumps, or has dumped, found the file.
IInv == Types /\ FileOfRun /\ FileOfLast /\ GuardTells
=============================================================================
