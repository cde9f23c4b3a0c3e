----------------------- MODULE AudioHardwareInvariant -----------------------
(***************************************************************************)
(* Why the safety properties of AudioHardware hold: an inductive invariant *)
(* that follows the mutexes, the strong pointers and the standby flags     *)
(* through every stretch of code.                                          *)
(***************************************************************************)
EXTENDS AudioHardware

\* Thread t is in a stretch of code that it runs with mutex l held.
Owns(t, l) ==
    \/ l = "hw" /\ pc[t] \in {"w_open", "w_reopen", "w_done", "r_reopen", "r_open", "r_done", "m_apply"}
    \/ l = "hw" /\ t \in Streams /\ pc[t] \in {"d_lock", "d_hw"}
    \/ l \in Streams /\ t = l /\ pc[t] \in {"sb_hw", "sp_hw"}
    \/ l = "out" /\ t = "out" /\ pc[t] \in {"w_hw", "w_lockin", "w_recheck", "w_open", "w_reopen",
                                            "w_done", "w_pcm"}
    \/ l = "out" /\ t = "in" /\ pc[t] \in {"r_relock", "r_recheck", "r_reopen"}
    \/ l = "out" /\ t = "mode" /\ pc[t] = "m_recheckout"
    \/ l = "out" /\ t = "mode" /\ pc[t] \in {"m_lockin", "m_recheckin", "m_apply"} /\ l \in sp[t]
    \/ l = "in" /\ t = "in" /\ pc[t] \in {"r_hw", "r_recheck", "r_reopen", "r_open", "r_done", "r_pcm"}
    \/ l = "in" /\ t = "out" /\ pc[t] = "w_recheck"
    \/ l = "in" /\ t = "out" /\ pc[t] \in {"w_open", "w_reopen"} /\ l \in sp[t]
    \/ l = "in" /\ t = "mode" /\ pc[t] = "m_recheckin"
    \/ l = "in" /\ t = "mode" /\ pc[t] = "m_apply" /\ l \in sp[t]

\* Mutual exclusion: that mutex is t's.
Owned == \A t \in Threads, l \in Locks : Owns(t, l) => lock[l] = t

\* Which streams a thread points to, from where it is.
Pointers ==
    /\ pc["out"] \in {"w_lockin", "w_recheck", "w_reopen"} => sp["out"] = {"in"}
    /\ pc["out"] = "w_open" => sp["out"] \subseteq {"in"}
    /\ pc["in"] \in {"r_lockout", "r_relock", "r_recheck", "r_reopen"} => sp["in"] = {"out"}
    /\ pc["mode"] \in {"m_lockout", "m_recheckout"} => sp["mode"] = {"out"}
    /\ pc["mode"] \in {"m_lockin", "m_recheckin"} => "in" \in sp["mode"]
    /\ \A t \in Threads : pc[t] \in {"idle", "sb_lock", "sb_hw", "sp_lock", "sp_hw",
                                     "w_usleep", "w_lock", "w_hw", "w_done", "w_pcm",
                                     "r_usleep", "r_lock", "r_hw", "r_open", "r_done", "r_pcm",
                                     "m_hw"} => sp[t] = {}

\* A thread between the beginning and the end of leaving standby finds its stream in standby;
\* one that transfers data finds it out of standby.
Flags ==
    /\ pc["out"] \in {"w_hw", "w_lockin", "w_recheck", "w_open", "w_reopen", "w_done"} => mStandby["out"]
    /\ pc["in"] \in {"r_hw", "r_lockout", "r_relock", "r_recheck", "r_reopen", "r_open", "r_done"} => mStandby["in"]
    /\ pc["out"] = "w_pcm" => ~mStandby["out"]
    /\ pc["in"] = "r_pcm" => ~mStandby["in"]

\* A stream that no pointer refers to was closed, and a stream with a call under way is referred to.
Alive ==
    \A s \in Streams :
        /\ pc[s] # "idle" => hwRef[s]
        /\ (\A t \in Threads : s \notin sp[t]) /\ ~hwRef[s] => mStandby[s]

\* A thread that waited, or waits, for s with cnt unchanged: s is out of standby.
Unchanged ==
    /\ pc["in"] \in {"r_lockout", "r_relock", "r_recheck"} /\ cntSame["in"] => ~mStandby["out"]
    /\ pc["mode"] \in {"m_lockout", "m_recheckout"} /\ cntSame["mode"] => ~mStandby["out"]
    /\ pc["mode"] \in {"m_lockin", "m_recheckin", "m_apply"} /\ "out" \in sp["mode"] => ~mStandby["out"]
    /\ pc["mode"] = "m_apply" /\ "in" \in sp["mode"] => ~mStandby["in"]

\* Stream s is closed by the other stream's thread, which will open it again.
Lent(s) ==
    \/ s = "in" /\ pc["out"] \in {"w_open", "w_reopen"} /\ "in" \in sp["out"]
    \/ s = "out" /\ pc["in"] = "r_reopen"

\* Stream s is open and about to leave standby.
Opening(s) ==
    \/ s = "out" /\ pc["out"] \in {"w_reopen", "w_done"}
    \/ s = "in" /\ pc["in"] = "r_done"

\* The handles a stream has.
Handles ==
    \A s \in Streams :
        /\ mStandby[s] /\ ~Opening(s) => ~strPcm[s] /\ ~strMixer[s]
        /\ Lent(s) => ~strPcm[s] /\ ~strMixer[s] /\ ~mStandby[s] /\ hwRef[s]
        /\ ~mStandby[s] /\ ~Lent(s) => strPcm[s]
        /\ strMixer[s] => strPcm[s]

Awake ==
    /\ WakeLocks
    /\ pc["out"] \in {"w_lockin", "w_recheck", "w_open", "w_reopen", "w_done"} => wakeLock["out"]
    /\ pc["in"] \in {"r_lockout", "r_relock", "r_recheck", "r_reopen", "r_open", "r_done"} => wakeLock["in"]

Control == TypeOK /\ Owned /\ Pointers
StreamInv == Flags /\ Alive /\ Unchanged /\ Handles

\* What the threads know of each other, whichever driver refuses what: inductive by itself.
Threading == Control /\ StreamInv /\ Awake

\* The inductive invariant, for drivers that never refuse a call its devices.
IInv == Control /\ StreamInv /\ Awake /\ RefCounts

-----------------------------------------------------------------------------
(* More holds when no stream is closed while calls are under way.          *)

\* While a stream is closed every other thread is idle; and in the middle of a call a
\* pointer is never the last one.
ClosesAlone ==
    /\ pc["close"] \in {"idle", "c_drop", "d_lock", "d_hw"}
    /\ ~(Streams \subseteq sp["close"])
    /\ pc["close"] # "idle" => \A t \in Threads \ {"close"} : pc[t] = "idle"
    /\ \A t \in Threads \ {"close"} :
         /\ pc[t] \notin {"d_lock", "d_hw"}
         /\ \A s \in sp[t] : hwRef[s]
    /\ \A s \in Streams : hwRef[s] \/ mStandby[s] \/ s \in sp["close"]

\* A thread holds no other mutex than those its code was written to hold.
OwnsOnly ==
    \A t \in Threads, l \in Locks : lock[l] = t =>
        Owns(t, l) \/ (t = "close" /\ pc[t] = "d_hw" /\ l \in sp[t])

\* Where a PCM for output may be opened, the capture PCM is closed or about to be.
InputFirstClosed ==
    /\ pc["out"] = "w_open" => ~strPcm["in"]
    /\ pc["mode"] = "m_apply" /\ strPcm["in"] => "in" \in sp["mode"]

OrderInv == ClosesAlone /\ OwnsOnly /\ InputFirstClosed /\ SleepReqHasWaiter

=============================================================================
