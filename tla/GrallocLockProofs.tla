------------------------- MODULE GrallocLockProofs -------------------------
(***************************************************************************)
(* Proofs about GrallocLock, for any number of uses and threads: types,    *)
(* exclusion, the exact count, the WRITE bit and its owner, the mapping,   *)
(* the flush flag, and that the lock word implements ReadersWriter.        *)
(***************************************************************************)
EXTENDS GrallocLock, FiniteSetTheorems, TLAPS

Unlocking == {"unlockRead", "unlockOwner", "unlockCas"}

\* What a thread knows between reading lockState and its compare-and-swap.
Seen ==
    \A l \in Lease :
        /\ pc[l] = "lockCas" => ~seen[l].write /\ (Writes(l) => seen[l].count = 0)
        /\ pc[l] \in {"unlockOwner", "unlockCas"} =>
              /\ seen[l].count >= 1
              /\ seen[l].write <=> Writes(l)
              /\ Writes(l) => seen[l] = lockState
        /\ pc[l] = "unlockCas" => (clears[l] <=> Writes(l))

\* From the store in lock() to the one in unlock(), writeOwner names the writer.
Owner ==
    \A l \in Lease :
        Writes(l) /\ pc[l] \in GrantedAt \ {"owner", "unlockCas", "stranded"}
            => writeOwner = ThreadOf[l]

\* There are no calls about a handle that is gone.
ClosedIsIdle ==
    ~open => ~lockState.mapped /\ \A l \in Lease : pc[l] = "idle"

\* A thread is in one call at a time, and in gralloc_map with the mutex.
OneCall ==
    \A l, k \in Lease :
        ThreadOf[l] = ThreadOf[k] /\ l # k =>
            pc[l] \in {"idle", "held", "stranded"} \/ pc[k] \in {"idle", "held", "stranded"}

Mutex == \A l \in Lease : pc[l] \in {"mapTest", "mapOr"} => sMapLock = ThreadOf[l]

\* The MAPPED bit says that there is an address, and only a mapping that a
\* thread is just about to record is not told by it.
Mapping == \E l \in Lease : pc[l] = "mapOr"

Mapped ==
    /\ lockState.mapped \/ Mapping => base
    /\ kind = "pmem" /\ open => lockState.mapped
    /\ Mapping => ~lockState.mapped
    /\ kind \in {"imported", "ashmem"} /\ (lockState.mapped \/ Mapping) => maps = 1
    /\ kind \in {"pmem", "framebuffer"} \/ ~(lockState.mapped \/ Mapping) => maps = 0
    /\ \A l \in Lease :
         /\ pc[l] \in {"lockCas", "owner", "flag"} /\ seen[l].mapped => lockState.mapped
         /\ pc[l] = "held" /\ UsesCpu(l) => lockState.mapped

\* The flush flag is taken down before the use that raised it ends.
FlushHeld ==
    open /\ needsFlush =>
        \E l \in Lease : "swWrite" \in use[l] /\ pc[l] \in GrantedAt \ Unlocking

\* The inductive invariant.
IInv ==
    /\ TypeOK
    /\ Exclusion
    /\ CountIsUses
    /\ WriteBitHasWriter
    /\ Seen
    /\ Owner
    /\ ClosedIsIdle
    /\ OneCall
    /\ Mutex
    /\ Mapped
    /\ FlushHeld

-----------------------------------------------------------------------------
(* Types                                                                   *)

\* The fields of a lock word, and that it is one.
LEMMA StateFields ==
  ASSUME NEW w \in BOOLEAN, NEW m \in BOOLEAN, NEW c \in Nat
  PROVE  /\ State(w, m, c) \in States
         /\ State(w, m, c).write <=> w
         /\ State(w, m, c).mapped <=> m
         /\ State(w, m, c).count = c
  BY DEF State, States

LEMMA UnlockedFields ==
  Unlocked \in States /\ ~Unlocked.write /\ ~Unlocked.mapped /\ Unlocked.count = 0
  BY DEF Unlocked, State, States

LEMMA UseIsBoolean ==
  \A l \in Lease : Writes(l) \in BOOLEAN /\ UsesCpu(l) \in BOOLEAN
  BY DEF Writes, UsesCpu

LEMMA FieldTypes ==
  ASSUME NEW s \in States
  PROVE  s.write \in BOOLEAN /\ s.mapped \in BOOLEAN /\ s.count \in Nat
  BY DEF States

\* What a call leaves behind when it returns.
LEMMA ReturnTypes ==
  ASSUME TypeOK, NEW l \in Lease, NEW where \in {"idle", "held", "stranded"}, Return(l, where)
  PROVE  /\ pc' = [pc EXCEPT ![l] = where]
         /\ pc' \in [Lease -> GrantedAt \cup {"idle", "lockRead", "lockCas"}]
         /\ use' \in [Lease -> SUBSET UsageBits]
         /\ seen' \in [Lease -> States]
         /\ clears' \in [Lease -> BOOLEAN]
  BY UnlockedFields DEF Return, Goto, TypeOK, GrantedAt

LEMMA TypeStep ==
  ASSUME IInv, [Next]_vars
  PROVE  TypeOK'
  <1> USE DEF IInv, handleVars, TypeOK
  <1>1. ASSUME NEW l \in Lease, NEW u \in Usages, Lock(l, u) PROVE TypeOK'
    BY <1>1, UsageAssumption DEF Lock, Goto, GrantedAt
  <1>2. ASSUME NEW l \in Lease, LockRead(l) PROVE TypeOK'
    BY <1>2, ReturnTypes DEF LockRead, Goto, GrantedAt
  <1>3. ASSUME NEW l \in Lease, LockCas(l) PROVE TypeOK'
    <2>1. lockState' \in States
      BY <1>3, StateFields, FieldTypes, UseIsBoolean DEF LockCas
    <2> QED
      BY <1>3, <2>1 DEF LockCas, Goto, GrantedAt
  <1>4. ASSUME NEW l \in Lease, LockOwner(l) PROVE TypeOK'
    BY <1>4, ThreadAssumption DEF LockOwner, Goto, GrantedAt
  <1>5. ASSUME NEW l \in Lease, LockFlag(l) PROVE TypeOK'
    <2>1. needsFlush' \in BOOLEAN
      BY <1>5 DEF LockFlag
    <2>2. CASE UsesCpu(l) /\ ~seen[l].mapped
      BY <1>5, <2>1, <2>2 DEF LockFlag, Goto, GrantedAt
    <2>3. CASE ~(UsesCpu(l) /\ ~seen[l].mapped)
      BY <1>5, <2>1, <2>3, ReturnTypes DEF LockFlag
    <2> QED
      BY <2>2, <2>3
  <1>6. ASSUME NEW l \in Lease, MapLock(l) PROVE TypeOK'
    BY <1>6, ThreadAssumption DEF MapLock, Goto, GrantedAt
  <1>7. ASSUME NEW l \in Lease, MapTest(l) PROVE TypeOK'
    <2>1. CASE lockState.mapped
      BY <1>7, <2>1, ReturnTypes DEF MapTest
    <2>2. CASE /\ base' /\ maps' = NewMaps /\ Goto(l, "mapOr")
               /\ UNCHANGED <<sMapLock, use, seen, clears>>
      <3>1. NewMaps \in Nat
        BY DEF NewMaps
      <3>2. pc' \in [Lease -> GrantedAt \cup {"idle", "lockRead", "lockCas"}]
        BY <2>2 DEF Goto, GrantedAt
      <3>3. UNCHANGED <<open, kind, lockState, writeOwner, needsFlush>>
        BY <1>7 DEF MapTest
      <3> QED
        BY <2>2, <3>1, <3>2, <3>3
    <2>3. CASE ~base' /\ sMapLock' = NoThread /\ Return(l, "stranded") /\ UNCHANGED maps
      BY <1>7, <2>3, ReturnTypes DEF MapTest
    <2> QED
      BY <1>7, <2>1, <2>2, <2>3 DEF MapTest
  <1>8. ASSUME NEW l \in Lease, MapOr(l) PROVE TypeOK'
    <2>1. lockState' \in States
      BY <1>8, StateFields, FieldTypes DEF MapOr
    <2> QED
      BY <1>8, <2>1, ReturnTypes DEF MapOr
  <1>9. ASSUME NEW l \in Lease, Unlock(l) PROVE TypeOK'
    BY <1>9 DEF Unlock, Goto, GrantedAt
  <1>10. ASSUME NEW l \in Lease, UnlockFlush(l) PROVE TypeOK'
    BY <1>10 DEF UnlockFlush, Goto, GrantedAt
  <1>11. ASSUME NEW l \in Lease, UnlockRead(l) PROVE TypeOK'
    BY <1>11 DEF UnlockRead, Goto, GrantedAt
  <1>12. ASSUME NEW l \in Lease, UnlockOwner(l) PROVE TypeOK'
    <2> DEFINE mine == seen[l].write /\ writeOwner = ThreadOf[l]
    <2>1. mine \in BOOLEAN
      OBVIOUS
    <2>2. writeOwner' \in Thread \cup {NoThread}
      BY <1>12, <2>1 DEF UnlockOwner
    <2>3. CASE seen[l].count = 0
      BY <1>12, <2>2, <2>3, ReturnTypes DEF UnlockOwner
    <2>4. CASE seen[l].count # 0
      <3>1. /\ clears' = [clears EXCEPT ![l] = mine]
            /\ Goto(l, "unlockCas")
            /\ UNCHANGED <<use, seen>>
        BY <1>12, <2>4 DEF UnlockOwner
      <3> HIDE DEF mine
      <3> QED
        BY <1>12, <2>1, <2>2, <3>1 DEF UnlockOwner, Goto, GrantedAt
    <2> QED
      BY <2>3, <2>4
  <1>13. ASSUME NEW l \in Lease, UnlockCas(l) PROVE TypeOK'
    <2>1. lockState' \in States
      <3>1. CASE lockState = seen[l]
        <4>1. /\ (seen[l].write /\ ~clears[l]) \in BOOLEAN
              /\ seen[l].mapped \in BOOLEAN
              /\ seen[l].count - 1 \in Nat
          BY <1>13, FieldTypes DEF UnlockCas, Seen
        <4>2. State(seen[l].write /\ ~clears[l], seen[l].mapped, seen[l].count - 1) \in States
          BY <4>1, StateFields
        <4> QED
          BY <1>13, <3>1, <4>2 DEF UnlockCas
      <3>2. CASE lockState # seen[l]
        BY <1>13, <3>2 DEF UnlockCas
      <3> QED
        BY <3>1, <3>2
    <2> QED
      BY <1>13, <2>1, ReturnTypes DEF UnlockCas, Goto, GrantedAt
  <1>14. ASSUME NEW k \in Kinds, Open(k) PROVE TypeOK'
    <2>1. lockState' \in States
      BY <1>14, StateFields DEF Open, Fresh
    <2>2. base' \in BOOLEAN
      BY <1>14 DEF Open, HasBase
    <2> QED
      BY <1>14, <2>1, <2>2 DEF Open, callVars
  <1>15. CASE Close
    <2>1. maps' \in Nat
      BY <1>15 DEF Close, Mapped
    <2> QED
      BY <1>15, <2>1, UnlockedFields DEF Close, GrantedAt
  <1>16. CASE UNCHANGED vars
    BY <1>16 DEF vars, callVars
  <1> QED
    BY <1>1, <1>2, <1>3, <1>4, <1>5, <1>6, <1>7, <1>8, <1>9, <1>10, <1>11, <1>12, <1>13, <1>14,
       <1>15, <1>16 DEF Next

-----------------------------------------------------------------------------
(* Steps as the users of the lock see them                                 *)

Keeps ==
    /\ Granted' = Granted
    /\ lockState'.write <=> lockState.write
    /\ lockState'.count = lockState.count
    /\ \A k \in Granted : use'[k] = use[k]

Acquires(l) ==
    /\ l \notin Granted
    /\ Granted' = Granted \cup {l}
    /\ ~lockState.write
    /\ Writes(l) => lockState.count = 0
    /\ lockState'.write <=> Writes(l)
    /\ lockState'.count = lockState.count + 1
    /\ use' = use

Releases(l) ==
    /\ l \in Granted
    /\ Granted' = Granted \ {l}
    /\ lockState'.write <=> lockState.write /\ ~Writes(l)
    /\ lockState'.count = lockState.count - 1
    /\ \A k \in Granted' : use'[k] = use[k]

Forgets ==
    /\ Granted' = {}
    /\ ~lockState'.write
    /\ lockState'.count = 0

LEMMA GrantedGoto ==
  ASSUME TypeOK, NEW l \in Lease, NEW where, pc' = [pc EXCEPT ![l] = where]
  PROVE  /\ where \in GrantedAt => Granted' = Granted \cup {l}
         /\ where \notin GrantedAt => Granted' = Granted \ {l}
  BY DEF TypeOK, Granted

\* A move between two places where the lock is held, or two where it is not.
LEMMA GrantedSame ==
  ASSUME TypeOK, NEW l \in Lease, NEW where, pc' = [pc EXCEPT ![l] = where],
         pc[l] \in GrantedAt <=> where \in GrantedAt
  PROVE  Granted' = Granted
  BY DEF TypeOK, Granted

LEMMA ReturnUse ==
  ASSUME TypeOK, NEW l \in Lease, NEW where \in {"idle", "held", "stranded"}, Return(l, where)
  PROVE  /\ where # "idle" => use' = use
         /\ \A k \in Lease : k # l => use'[k] = use[k]
         /\ pc' = [pc EXCEPT ![l] = where]
         /\ \A k \in Lease : k # l => seen'[k] = seen[k] /\ clears'[k] = clears[k]
         /\ seen'[l] = Unlocked
  BY DEF TypeOK, Return, Goto

LEMMA Effects ==
  ASSUME IInv, [Next]_vars
  PROVE  Keeps \/ (\E l \in Lease : Acquires(l) \/ Releases(l)) \/ Forgets
  <1> USE DEF IInv, Goto, handleVars, callVars
  <1>0. \A l \in Lease : l \in Granted <=> pc[l] \in GrantedAt
    BY DEF Granted
  <1>1. ASSUME NEW l \in Lease, NEW u \in Usages, Lock(l, u) PROVE Keeps
    <2>1. Granted' = Granted /\ l \notin Granted
      BY <1>0, <1>1, GrantedSame DEF Lock, GrantedAt
    <2>2. \A k \in Granted : use'[k] = use[k]
      BY <1>1, <2>1 DEF Lock, Granted, TypeOK
    <2> QED
      BY <1>1, <2>1, <2>2 DEF Lock, Keeps
  <1>2. ASSUME NEW l \in Lease, LockRead(l) PROVE Keeps
    <2>1. Granted' = Granted /\ l \notin Granted
      BY <1>0, <1>2, GrantedSame, ReturnUse DEF LockRead, GrantedAt
    <2>2. \A k \in Granted : use'[k] = use[k]
      BY <1>2, <2>1, ReturnUse DEF LockRead, Granted
    <2> QED
      BY <1>2, <2>1, <2>2 DEF LockRead, Keeps
  <1>3. ASSUME NEW l \in Lease, LockCas(l) PROVE Keeps \/ Acquires(l)
    <2>1. CASE lockState = seen[l]
      <3>1. Granted' = Granted \cup {l} /\ l \notin Granted
        BY <1>0, <1>3, <2>1, GrantedGoto DEF LockCas, GrantedAt
      <3>2. lockState' = State(Writes(l), seen[l].mapped, seen[l].count + 1)
        BY <1>3, <2>1 DEF LockCas
      <3>3. lockState'.write <=> Writes(l)
        BY <3>2 DEF State
      <3>4. lockState'.count = lockState.count + 1
        BY <3>2, <2>1 DEF State
      <3> QED
        BY <1>3, <2>1, <3>1, <3>3, <3>4 DEF LockCas, Acquires, Seen
    <2>2. CASE lockState # seen[l]
      BY <1>0, <1>3, <2>2, GrantedSame DEF LockCas, Keeps, GrantedAt
    <2> QED
      BY <2>1, <2>2
  <1>4. ASSUME NEW l \in Lease, LockOwner(l) PROVE Keeps
    BY <1>0, <1>4, GrantedSame DEF LockOwner, Keeps, GrantedAt
  <1>5. ASSUME NEW l \in Lease, LockFlag(l) PROVE Keeps
    BY <1>0, <1>5, GrantedSame, ReturnUse DEF LockFlag, Keeps, GrantedAt
  <1>6. ASSUME NEW l \in Lease, MapLock(l) PROVE Keeps
    BY <1>0, <1>6, GrantedSame DEF MapLock, Keeps, GrantedAt
  <1>7. ASSUME NEW l \in Lease, MapTest(l) PROVE Keeps
    BY <1>0, <1>7, GrantedSame, ReturnUse DEF MapTest, Keeps, GrantedAt
  <1>8. ASSUME NEW l \in Lease, MapOr(l) PROVE Keeps
    <2>1. (lockState'.write <=> lockState.write) /\ lockState'.count = lockState.count
      BY <1>8 DEF MapOr, State
    <2> QED
      BY <1>0, <1>8, <2>1, GrantedSame, ReturnUse DEF MapOr, Keeps, GrantedAt
  <1>9. ASSUME NEW l \in Lease, Unlock(l) PROVE Keeps
    BY <1>0, <1>9, GrantedSame DEF Unlock, Keeps, GrantedAt
  <1>10. ASSUME NEW l \in Lease, UnlockFlush(l) PROVE Keeps
    BY <1>0, <1>10, GrantedSame DEF UnlockFlush, Keeps, GrantedAt
  <1>11. ASSUME NEW l \in Lease, UnlockRead(l) PROVE Keeps
    BY <1>0, <1>11, GrantedSame DEF UnlockRead, Keeps, GrantedAt
  <1>12. ASSUME NEW l \in Lease, UnlockOwner(l) PROVE Keeps
    <2>1. seen[l].count # 0
      BY <1>12 DEF UnlockOwner, Seen, TypeOK, States
    <2> QED
      BY <1>0, <1>12, <2>1, GrantedSame DEF UnlockOwner, Keeps, GrantedAt
  <1>13. ASSUME NEW l \in Lease, UnlockCas(l) PROVE Keeps \/ Releases(l)
    <2>1. CASE lockState = seen[l]
      <3>1. Granted' = Granted \ {l} /\ l \in Granted
        BY <1>0, <1>13, <2>1, GrantedGoto, ReturnUse DEF UnlockCas, GrantedAt
      <3>2. lockState' = State(seen[l].write /\ ~clears[l], seen[l].mapped, seen[l].count - 1)
        BY <1>13, <2>1 DEF UnlockCas
      <3>3. lockState'.write <=> (lockState.write /\ ~Writes(l))
        BY <1>13, <2>1, <3>2 DEF State, UnlockCas, Seen
      <3>4. lockState'.count = lockState.count - 1
        BY <3>2, <2>1 DEF State
      <3>5. \A k \in Granted' : use'[k] = use[k]
        BY <1>13, <2>1, <3>1, ReturnUse DEF UnlockCas, Granted
      <3> QED
        BY <3>1, <3>3, <3>4, <3>5 DEF Releases
    <2>2. CASE lockState # seen[l]
      BY <1>0, <1>13, <2>2, GrantedSame DEF UnlockCas, Keeps, GrantedAt
    <2> QED
      BY <2>1, <2>2
  <1>14. ASSUME NEW k \in Kinds, Open(k) PROVE Forgets
    <2>1. Granted' = {}
      BY <1>14 DEF Open, ClosedIsIdle, Granted, GrantedAt
    <2> QED
      BY <1>14, <2>1 DEF Open, Forgets, Fresh, State
  <1>15. CASE Close
    <2>1. Granted' = {}
      BY <1>15 DEF Close, Granted, GrantedAt
    <2> QED
      BY <1>15, <2>1, UnlockedFields DEF Close, Forgets
  <1>16. CASE UNCHANGED vars
    BY <1>16 DEF vars, Keeps, Granted
  <1> QED
    BY <1>1, <1>2, <1>3, <1>4, <1>5, <1>6, <1>7, <1>8, <1>9, <1>10, <1>11, <1>12, <1>13, <1>14,
       <1>15, <1>16 DEF Next

\* Exclusion, the count and the WRITE bit follow from these steps alone.
LEMMA LockStep ==
  ASSUME IInv, [Next]_vars
  PROVE  Exclusion' /\ CountIsUses' /\ WriteBitHasWriter'
  <1> USE DEF IInv
  <1>0. IsFiniteSet(Granted)
    BY LeaseAssumption, FS_Subset DEF Granted
  <1>1. CASE Keeps
    BY <1>1 DEF Keeps, Exclusion, CountIsUses, WriteBitHasWriter, Writes
  <1>2. ASSUME NEW l \in Lease, Acquires(l)
        PROVE  Exclusion' /\ CountIsUses' /\ WriteBitHasWriter'
    <2>1. CountIsUses'
      BY <1>0, <1>2, FS_AddElement DEF Acquires, CountIsUses
    <2>2. \A k \in Granted : ~Writes(k)
      BY <1>2 DEF Acquires, WriteBitHasWriter
    <2>3. Writes(l) => Granted = {}
      BY <1>0, <1>2, FS_EmptySet DEF Acquires, CountIsUses
    <2>4. Exclusion' /\ WriteBitHasWriter'
      BY <1>2, <2>2, <2>3 DEF Acquires, Exclusion, WriteBitHasWriter, Writes
    <2> QED
      BY <2>1, <2>4
  <1>3. ASSUME NEW l \in Lease, Releases(l)
        PROVE  Exclusion' /\ CountIsUses' /\ WriteBitHasWriter'
    <2>1. CountIsUses'
      BY <1>0, <1>3, FS_RemoveElement DEF Releases, CountIsUses
    <2>2. Exclusion' /\ WriteBitHasWriter'
      BY <1>3 DEF Releases, Exclusion, WriteBitHasWriter, Writes
    <2> QED
      BY <2>1, <2>2
  <1>4. CASE Forgets
    BY <1>4, FS_EmptySet DEF Forgets, Exclusion, CountIsUses, WriteBitHasWriter
  <1> QED
    BY <1>1, <1>2, <1>3, <1>4, Effects


-----------------------------------------------------------------------------
(* What each thread knows                                                  *)

LEMMA ClosedIdleStep ==
  ASSUME IInv, [Next]_vars
  PROVE  ClosedIsIdle'
  <1> USE DEF IInv, TypeOK, Goto, handleVars
  <1>1. ASSUME NEW l \in Lease, NEW u \in Usages, Lock(l, u) PROVE ClosedIsIdle'
    BY <1>1, ReturnUse DEF Lock, ClosedIsIdle
  <1>2. ASSUME NEW l \in Lease, LockRead(l) PROVE ClosedIsIdle'
    BY <1>2, ReturnUse DEF LockRead, ClosedIsIdle
  <1>3. ASSUME NEW l \in Lease, LockCas(l) PROVE ClosedIsIdle'
    BY <1>3, ReturnUse DEF LockCas, ClosedIsIdle
  <1>4. ASSUME NEW l \in Lease, LockOwner(l) PROVE ClosedIsIdle'
    BY <1>4, ReturnUse DEF LockOwner, ClosedIsIdle
  <1>5. ASSUME NEW l \in Lease, LockFlag(l) PROVE ClosedIsIdle'
    BY <1>5, ReturnUse DEF LockFlag, ClosedIsIdle
  <1>6. ASSUME NEW l \in Lease, MapLock(l) PROVE ClosedIsIdle'
    BY <1>6, ReturnUse DEF MapLock, ClosedIsIdle
  <1>7. ASSUME NEW l \in Lease, MapTest(l) PROVE ClosedIsIdle'
    BY <1>7, ReturnUse DEF MapTest, ClosedIsIdle
  <1>8. ASSUME NEW l \in Lease, MapOr(l) PROVE ClosedIsIdle'
    BY <1>8, ReturnUse DEF MapOr, ClosedIsIdle
  <1>9. ASSUME NEW l \in Lease, Unlock(l) PROVE ClosedIsIdle'
    BY <1>9, ReturnUse DEF Unlock, ClosedIsIdle
  <1>10. ASSUME NEW l \in Lease, UnlockFlush(l) PROVE ClosedIsIdle'
    BY <1>10, ReturnUse DEF UnlockFlush, ClosedIsIdle
  <1>11. ASSUME NEW l \in Lease, UnlockRead(l) PROVE ClosedIsIdle'
    BY <1>11, ReturnUse DEF UnlockRead, ClosedIsIdle
  <1>12. ASSUME NEW l \in Lease, UnlockOwner(l) PROVE ClosedIsIdle'
    BY <1>12, ReturnUse DEF UnlockOwner, ClosedIsIdle
  <1>13. ASSUME NEW l \in Lease, UnlockCas(l) PROVE ClosedIsIdle'
    BY <1>13, ReturnUse DEF UnlockCas, ClosedIsIdle
  <1>14. ASSUME NEW h \in Kinds, Open(h) PROVE ClosedIsIdle'
    BY <1>14, ReturnUse DEF Open, ClosedIsIdle
  <1>15. CASE Close
    BY <1>15, UnlockedFields DEF Close, ClosedIsIdle
  <1>16. CASE UNCHANGED vars
    BY <1>16 DEF vars, handleVars, callVars, ClosedIsIdle
  <1> QED
    BY <1>1, <1>2, <1>3, <1>4, <1>5, <1>6, <1>7, <1>8, <1>9, <1>10, <1>11, <1>12, <1>13, <1>14,
       <1>15, <1>16 DEF Next

LEMMA OneCallStep ==
  ASSUME IInv, [Next]_vars
  PROVE  OneCall'
  <1> USE DEF IInv, TypeOK, Goto, handleVars
  <1>1. ASSUME NEW l \in Lease, NEW u \in Usages, Lock(l, u) PROVE OneCall'
    BY <1>1, ReturnUse DEF Lock, OneCall, Free
  <1>2. ASSUME NEW l \in Lease, LockRead(l) PROVE OneCall'
    BY <1>2, ReturnUse DEF LockRead, OneCall, Free
  <1>3. ASSUME NEW l \in Lease, LockCas(l) PROVE OneCall'
    BY <1>3, ReturnUse DEF LockCas, OneCall, Free
  <1>4. ASSUME NEW l \in Lease, LockOwner(l) PROVE OneCall'
    BY <1>4, ReturnUse DEF LockOwner, OneCall, Free
  <1>5. ASSUME NEW l \in Lease, LockFlag(l) PROVE OneCall'
    BY <1>5, ReturnUse DEF LockFlag, OneCall, Free
  <1>6. ASSUME NEW l \in Lease, MapLock(l) PROVE OneCall'
    BY <1>6, ReturnUse DEF MapLock, OneCall, Free
  <1>7. ASSUME NEW l \in Lease, MapTest(l) PROVE OneCall'
    BY <1>7, ReturnUse DEF MapTest, OneCall, Free
  <1>8. ASSUME NEW l \in Lease, MapOr(l) PROVE OneCall'
    BY <1>8, ReturnUse DEF MapOr, OneCall, Free
  <1>9. ASSUME NEW l \in Lease, Unlock(l) PROVE OneCall'
    BY <1>9, ReturnUse DEF Unlock, OneCall, Free
  <1>10. ASSUME NEW l \in Lease, UnlockFlush(l) PROVE OneCall'
    BY <1>10, ReturnUse DEF UnlockFlush, OneCall, Free
  <1>11. ASSUME NEW l \in Lease, UnlockRead(l) PROVE OneCall'
    BY <1>11, ReturnUse DEF UnlockRead, OneCall, Free
  <1>12. ASSUME NEW l \in Lease, UnlockOwner(l) PROVE OneCall'
    BY <1>12, ReturnUse DEF UnlockOwner, OneCall, Free
  <1>13. ASSUME NEW l \in Lease, UnlockCas(l) PROVE OneCall'
    BY <1>13, ReturnUse DEF UnlockCas, OneCall, Free
  <1>14. ASSUME NEW h \in Kinds, Open(h) PROVE OneCall'
    BY <1>14 DEF Open, OneCall, callVars
  <1>15. CASE Close
    BY <1>15 DEF Close, OneCall
  <1>16. CASE UNCHANGED vars
    BY <1>16 DEF vars, handleVars, callVars, OneCall, Free
  <1> QED
    BY <1>1, <1>2, <1>3, <1>4, <1>5, <1>6, <1>7, <1>8, <1>9, <1>10, <1>11, <1>12, <1>13, <1>14,
       <1>15, <1>16 DEF Next

LEMMA MutexStep ==
  ASSUME IInv, [Next]_vars
  PROVE  Mutex'
  <1> USE DEF IInv, TypeOK, Goto, handleVars
  <1>1. ASSUME NEW l \in Lease, NEW u \in Usages, Lock(l, u) PROVE Mutex'
    BY <1>1, ReturnUse DEF Lock, Mutex
  <1>2. ASSUME NEW l \in Lease, LockRead(l) PROVE Mutex'
    BY <1>2, ReturnUse DEF LockRead, Mutex
  <1>3. ASSUME NEW l \in Lease, LockCas(l) PROVE Mutex'
    BY <1>3, ReturnUse DEF LockCas, Mutex
  <1>4. ASSUME NEW l \in Lease, LockOwner(l) PROVE Mutex'
    BY <1>4, ReturnUse DEF LockOwner, Mutex
  <1>5. ASSUME NEW l \in Lease, LockFlag(l) PROVE Mutex'
    BY <1>5, ReturnUse DEF LockFlag, Mutex
  <1>6. ASSUME NEW l \in Lease, MapLock(l) PROVE Mutex'
    BY <1>6, ThreadAssumption, ZenonT(60) DEF MapLock, Mutex
  <1>7. ASSUME NEW l \in Lease, MapTest(l) PROVE Mutex'
    BY <1>7, ReturnUse DEF MapTest, Mutex, OneCall
  <1>8. ASSUME NEW l \in Lease, MapOr(l) PROVE Mutex'
    BY <1>8, ReturnUse DEF MapOr, Mutex, OneCall
  <1>9. ASSUME NEW l \in Lease, Unlock(l) PROVE Mutex'
    BY <1>9, ReturnUse DEF Unlock, Mutex
  <1>10. ASSUME NEW l \in Lease, UnlockFlush(l) PROVE Mutex'
    BY <1>10, ReturnUse DEF UnlockFlush, Mutex
  <1>11. ASSUME NEW l \in Lease, UnlockRead(l) PROVE Mutex'
    BY <1>11, ReturnUse DEF UnlockRead, Mutex
  <1>12. ASSUME NEW l \in Lease, UnlockOwner(l) PROVE Mutex'
    BY <1>12, ReturnUse DEF UnlockOwner, Mutex
  <1>13. ASSUME NEW l \in Lease, UnlockCas(l) PROVE Mutex'
    BY <1>13, ReturnUse DEF UnlockCas, Mutex
  <1>14. ASSUME NEW h \in Kinds, Open(h) PROVE Mutex'
    BY <1>14 DEF Open, Mutex, callVars
  <1>15. CASE Close
    BY <1>15, ReturnUse DEF Close, Mutex
  <1>16. CASE UNCHANGED vars
    BY <1>16 DEF vars, handleVars, callVars, Mutex
  <1> QED
    BY <1>1, <1>2, <1>3, <1>4, <1>5, <1>6, <1>7, <1>8, <1>9, <1>10, <1>11, <1>12, <1>13, <1>14,
       <1>15, <1>16 DEF Next

LEMMA OwnerStep ==
  ASSUME IInv, [Next]_vars
  PROVE  Owner'
  <1> USE DEF IInv, TypeOK, Goto, handleVars
  <1>1. ASSUME NEW l \in Lease, NEW u \in Usages, Lock(l, u) PROVE Owner'
    BY <1>1, ReturnUse DEF Lock, Owner, Writes, GrantedAt
  <1>2. ASSUME NEW l \in Lease, LockRead(l) PROVE Owner'
    BY <1>2, ReturnUse DEF LockRead, Owner, Writes, GrantedAt
  <1>3. ASSUME NEW l \in Lease, LockCas(l) PROVE Owner'
    BY <1>3, ReturnUse DEF LockCas, Owner, Writes, GrantedAt
  <1>4. ASSUME NEW l \in Lease, LockOwner(l) PROVE Owner'
    BY <1>4 DEF LockOwner, Owner, Writes, Exclusion, Granted, GrantedAt
  <1>5. ASSUME NEW l \in Lease, LockFlag(l) PROVE Owner'
    BY <1>5, ReturnUse DEF LockFlag, Owner, Writes, GrantedAt
  <1>6. ASSUME NEW l \in Lease, MapLock(l) PROVE Owner'
    BY <1>6, ReturnUse DEF MapLock, Owner, Writes, GrantedAt
  <1>7. ASSUME NEW l \in Lease, MapTest(l) PROVE Owner'
    BY <1>7, ReturnUse DEF MapTest, Owner, Writes, GrantedAt
  <1>8. ASSUME NEW l \in Lease, MapOr(l) PROVE Owner'
    BY <1>8, ReturnUse DEF MapOr, Owner, Writes, GrantedAt
  <1>9. ASSUME NEW l \in Lease, Unlock(l) PROVE Owner'
    BY <1>9, ReturnUse DEF Unlock, Owner, Writes, GrantedAt
  <1>10. ASSUME NEW l \in Lease, UnlockFlush(l) PROVE Owner'
    BY <1>10, ReturnUse DEF UnlockFlush, Owner, Writes, GrantedAt
  <1>11. ASSUME NEW l \in Lease, UnlockRead(l) PROVE Owner'
    BY <1>11, ReturnUse DEF UnlockRead, Owner, Writes, GrantedAt
  <1>12. ASSUME NEW l \in Lease, UnlockOwner(l) PROVE Owner'
    BY <1>12, ReturnUse DEF UnlockOwner, Owner, Writes, Exclusion, Granted, GrantedAt, Seen
  <1>13. ASSUME NEW l \in Lease, UnlockCas(l) PROVE Owner'
    BY <1>13, ReturnUse DEF UnlockCas, Owner, Writes, GrantedAt, Seen
  <1>14. ASSUME NEW h \in Kinds, Open(h) PROVE Owner'
    BY <1>14 DEF Open, Owner, ClosedIsIdle, GrantedAt, callVars
  <1>15. CASE Close
    BY <1>15, ReturnUse DEF Close, Owner, Writes, GrantedAt
  <1>16. CASE UNCHANGED vars
    BY <1>16 DEF vars, handleVars, callVars, Owner, Writes, GrantedAt
  <1> QED
    BY <1>1, <1>2, <1>3, <1>4, <1>5, <1>6, <1>7, <1>8, <1>9, <1>10, <1>11, <1>12, <1>13, <1>14,
       <1>15, <1>16 DEF Next

LEMMA FlushStep ==
  ASSUME IInv, [Next]_vars
  PROVE  FlushHeld'
  <1> USE DEF IInv, TypeOK, Goto, handleVars
  <1>1. ASSUME NEW l \in Lease, NEW u \in Usages, Lock(l, u) PROVE FlushHeld'
    BY <1>1, ReturnUse DEF Lock, FlushHeld, GrantedAt, Unlocking
  <1>2. ASSUME NEW l \in Lease, LockRead(l) PROVE FlushHeld'
    BY <1>2, ReturnUse DEF LockRead, FlushHeld, GrantedAt, Unlocking
  <1>3. ASSUME NEW l \in Lease, LockCas(l) PROVE FlushHeld'
    BY <1>3, ReturnUse DEF LockCas, FlushHeld, GrantedAt, Unlocking
  <1>4. ASSUME NEW l \in Lease, LockOwner(l) PROVE FlushHeld'
    BY <1>4, ReturnUse DEF LockOwner, FlushHeld, GrantedAt, Unlocking
  <1>5. ASSUME NEW l \in Lease, LockFlag(l) PROVE FlushHeld'
    BY <1>5, ReturnUse DEF LockFlag, FlushHeld, GrantedAt, Unlocking
  <1>6. ASSUME NEW l \in Lease, MapLock(l) PROVE FlushHeld'
    BY <1>6, ReturnUse DEF MapLock, FlushHeld, GrantedAt, Unlocking
  <1>7. ASSUME NEW l \in Lease, MapTest(l) PROVE FlushHeld'
    BY <1>7, ReturnUse DEF MapTest, FlushHeld, GrantedAt, Unlocking
  <1>8. ASSUME NEW l \in Lease, MapOr(l) PROVE FlushHeld'
    BY <1>8, ReturnUse DEF MapOr, FlushHeld, GrantedAt, Unlocking
  <1>9. ASSUME NEW l \in Lease, Unlock(l) PROVE FlushHeld'
    BY <1>9, ReturnUse DEF Unlock, FlushHeld, GrantedAt, Unlocking
  <1>10. ASSUME NEW l \in Lease, UnlockFlush(l) PROVE FlushHeld'
    BY <1>10, ReturnUse DEF UnlockFlush, FlushHeld, GrantedAt, Unlocking
  <1>11. ASSUME NEW l \in Lease, UnlockRead(l) PROVE FlushHeld'
    BY <1>11, ReturnUse DEF UnlockRead, FlushHeld, GrantedAt, Unlocking
  <1>12. ASSUME NEW l \in Lease, UnlockOwner(l) PROVE FlushHeld'
    BY <1>12, ReturnUse DEF UnlockOwner, FlushHeld, GrantedAt, Unlocking
  <1>13. ASSUME NEW l \in Lease, UnlockCas(l) PROVE FlushHeld'
    BY <1>13, ReturnUse DEF UnlockCas, FlushHeld, GrantedAt, Unlocking
  <1>14. ASSUME NEW h \in Kinds, Open(h) PROVE FlushHeld'
    BY <1>14, ReturnUse DEF Open, FlushHeld, GrantedAt, Unlocking
  <1>15. CASE Close
    BY <1>15, ReturnUse DEF Close, FlushHeld, GrantedAt, Unlocking
  <1>16. CASE UNCHANGED vars
    BY <1>16 DEF vars, handleVars, callVars, FlushHeld, GrantedAt, Unlocking
  <1> QED
    BY <1>1, <1>2, <1>3, <1>4, <1>5, <1>6, <1>7, <1>8, <1>9, <1>10, <1>11, <1>12, <1>13, <1>14,
       <1>15, <1>16 DEF Next

LEMMA SeenStep ==
  ASSUME IInv, [Next]_vars
  PROVE  Seen'
  <1> USE DEF IInv, TypeOK, Goto, handleVars
  <1>1. ASSUME NEW l \in Lease, NEW u \in Usages, Lock(l, u) PROVE Seen'
    BY <1>1, ReturnUse DEF Lock, Seen, Writes
  <1>2. ASSUME NEW l \in Lease, LockRead(l) PROVE Seen'
    BY <1>2, ReturnUse DEF LockRead, Busy, Seen, Writes, TypeOK, States
  <1>3. ASSUME NEW l \in Lease, LockCas(l) PROVE Seen'
    BY <1>3 DEF LockCas, Seen, Writes, WriteBitHasWriter, Granted, GrantedAt
  <1>4. ASSUME NEW l \in Lease, LockOwner(l) PROVE Seen'
    BY <1>4, ReturnUse DEF LockOwner, Seen, Writes
  <1>5. ASSUME NEW l \in Lease, LockFlag(l) PROVE Seen'
    BY <1>5, ReturnUse DEF LockFlag, Seen, Writes
  <1>6. ASSUME NEW l \in Lease, MapLock(l) PROVE Seen'
    BY <1>6, ReturnUse DEF MapLock, Seen, Writes
  <1>7. ASSUME NEW l \in Lease, MapTest(l) PROVE Seen'
    BY <1>7, ReturnUse DEF MapTest, Seen, Writes
  <1>8. ASSUME NEW l \in Lease, MapOr(l) PROVE Seen'
    <2>1. \A k \in Lease : pc'[k] = IF k = l THEN "held" ELSE pc[k]
      BY <1>8, ReturnUse DEF MapOr
    <2>2. use' = use /\ \A k \in Lease : k # l => seen'[k] = seen[k] /\ clears'[k] = clears[k]
      BY <1>8, ReturnUse DEF MapOr
    <2>3. \A k \in Lease : k # l /\ pc[k] \in {"unlockOwner", "unlockCas"} => ~Writes(k)
      BY <1>8 DEF MapOr, Exclusion, Granted, GrantedAt
    <2> QED
      BY <2>1, <2>2, <2>3 DEF Seen, Writes
  <1>9. ASSUME NEW l \in Lease, Unlock(l) PROVE Seen'
    BY <1>9, ReturnUse DEF Unlock, Seen, Writes
  <1>10. ASSUME NEW l \in Lease, UnlockFlush(l) PROVE Seen'
    BY <1>10, ReturnUse DEF UnlockFlush, Seen, Writes
  <1>11. ASSUME NEW l \in Lease, UnlockRead(l) PROVE Seen'
    <2>1. l \in Granted /\ IsFiniteSet(Granted)
      BY <1>11, LeaseAssumption, FS_Subset DEF UnlockRead, Granted, GrantedAt
    <2>2. lockState.count >= 1
      BY <2>1, FS_EmptySet, FS_CardinalityType DEF CountIsUses
    <2>3. lockState.write <=> Writes(l)
      BY <2>1 DEF Exclusion, WriteBitHasWriter
    <2> QED
      BY <1>11, <2>2, <2>3 DEF UnlockRead, Seen, Writes
  <1>12. ASSUME NEW l \in Lease, UnlockOwner(l) PROVE Seen'
    <2>1. (seen[l].write /\ writeOwner = ThreadOf[l]) <=> Writes(l)
      BY <1>12 DEF UnlockOwner, Seen, Owner, GrantedAt
    <2>2. seen[l].count # 0
      BY <1>12 DEF UnlockOwner, Seen, States
    <2>3. /\ pc' = [pc EXCEPT ![l] = "unlockCas"]
          /\ clears'[l] <=> Writes(l)
          /\ \A k \in Lease : k # l => clears'[k] = clears[k]
          /\ UNCHANGED <<use, seen, lockState>>
      BY <1>12, <2>1, <2>2 DEF UnlockOwner
    <2> QED
      BY <1>12, <2>3 DEF UnlockOwner, Seen, Writes
  <1>13. ASSUME NEW l \in Lease, UnlockCas(l) PROVE Seen'
    BY <1>13, ReturnUse DEF UnlockCas, Seen, Writes, Exclusion, Granted, GrantedAt
  <1>14. ASSUME NEW h \in Kinds, Open(h) PROVE Seen'
    BY <1>14 DEF Open, Seen, ClosedIsIdle, callVars
  <1>15. CASE Close
    BY <1>15, ReturnUse DEF Close, Seen, Writes
  <1>16. CASE UNCHANGED vars
    BY <1>16 DEF vars, handleVars, callVars, Seen, Writes
  <1> QED
    BY <1>1, <1>2, <1>3, <1>4, <1>5, <1>6, <1>7, <1>8, <1>9, <1>10, <1>11, <1>12, <1>13, <1>14,
       <1>15, <1>16 DEF Next

LEMMA MappedStep ==
  ASSUME IInv, [Next]_vars
  PROVE  Mapped'
  <1> USE DEF IInv, TypeOK, Goto, handleVars
  <1>1. ASSUME NEW l \in Lease, NEW u \in Usages, Lock(l, u) PROVE Mapped'
    BY <1>1, ReturnUse DEF Lock, Mapped, Mapping, UsesCpu
  <1>2. ASSUME NEW l \in Lease, LockRead(l) PROVE Mapped'
    BY <1>2, ReturnUse DEF LockRead, Mapped, Mapping, UsesCpu
  <1>3. ASSUME NEW l \in Lease, LockCas(l) PROVE Mapped'
    <2>1. lockState'.mapped <=> lockState.mapped
      BY <1>3 DEF LockCas, State
    <2> QED
      BY <1>3, <2>1 DEF LockCas, Mapped, Mapping, UsesCpu
  <1>4. ASSUME NEW l \in Lease, LockOwner(l) PROVE Mapped'
    BY <1>4, ReturnUse DEF LockOwner, Mapped, Mapping, UsesCpu
  <1>5. ASSUME NEW l \in Lease, LockFlag(l) PROVE Mapped'
    BY <1>5, ReturnUse DEF LockFlag, Mapped, Mapping, UsesCpu
  <1>6. ASSUME NEW l \in Lease, MapLock(l) PROVE Mapped'
    BY <1>6, ReturnUse DEF MapLock, Mapped, Mapping, UsesCpu
  <1>7. ASSUME NEW l \in Lease, MapTest(l) PROVE Mapped'
    <2>1. CASE lockState.mapped
      BY <1>7, <2>1, ReturnUse DEF MapTest, Mapped, Mapping, UsesCpu
    <2>2. CASE ~lockState.mapped
      <3>1. ~Mapping
        BY <1>7 DEF MapTest, Mapping, Mutex, OneCall
      <3>2. ~lockState'.mapped
        BY <1>7, <2>2 DEF MapTest
      <3> USE <2>2, <3>1, <3>2 DEF MapTest, Mapped, UsesCpu
      <3>3. CASE base' = TRUE /\ maps' = NewMaps /\ Goto(l, "mapOr") /\ UNCHANGED <<seen, use>>
        <4>1. Mapping'
          BY <3>3 DEF Mapping
        <4>2. maps' = IF kind = "framebuffer" THEN 0 ELSE 1
          BY <3>3 DEF NewMaps
        <4>3. UNCHANGED <<open, kind>>
          BY <1>7
        <4>4. \A k \in Lease : pc'[k] = IF k = l THEN "mapOr" ELSE pc[k]
          BY <3>3
        <4> QED
          BY <1>7, <3>3, <4>1, <4>2, <4>3, <4>4 DEF Kinds, ClosedIsIdle
      <3>4. CASE Return(l, "stranded") /\ UNCHANGED maps
        <4>1. ~Mapping'
          BY <3>4, ReturnUse DEF Mapping
        <4> QED
          BY <1>7, <3>4, <4>1, ReturnUse DEF Kinds
      <3> QED
        BY <1>7, <3>3, <3>4
    <2> QED
      BY <2>1, <2>2
  <1>8. ASSUME NEW l \in Lease, MapOr(l) PROVE Mapped'
    <2>1. \A k \in Lease : pc'[k] = IF k = l THEN "held" ELSE pc[k]
      BY <1>8, ReturnUse DEF MapOr
    <2>2. Mapping /\ ~Mapping'
      BY <1>8, <2>1 DEF MapOr, Mapping, Mutex, OneCall
    <2>3. lockState'.mapped
      BY <1>8 DEF MapOr, State
    <2> QED
      BY <1>8, <2>2, <2>3, ReturnUse DEF MapOr, Mapped, UsesCpu
  <1>9. ASSUME NEW l \in Lease, Unlock(l) PROVE Mapped'
    BY <1>9, ReturnUse DEF Unlock, Mapped, Mapping, UsesCpu
  <1>10. ASSUME NEW l \in Lease, UnlockFlush(l) PROVE Mapped'
    BY <1>10, ReturnUse DEF UnlockFlush, Mapped, Mapping, UsesCpu
  <1>11. ASSUME NEW l \in Lease, UnlockRead(l) PROVE Mapped'
    BY <1>11, ReturnUse DEF UnlockRead, Mapped, Mapping, UsesCpu
  <1>12. ASSUME NEW l \in Lease, UnlockOwner(l) PROVE Mapped'
    BY <1>12, ReturnUse DEF UnlockOwner, Mapped, Mapping, UsesCpu
  <1>13. ASSUME NEW l \in Lease, UnlockCas(l) PROVE Mapped'
    <2>1. lockState'.mapped <=> lockState.mapped
      BY <1>13 DEF UnlockCas, State
    <2> QED
      BY <1>13, <2>1, ReturnUse DEF UnlockCas, Mapped, Mapping, UsesCpu
  <1>14. ASSUME NEW h \in Kinds, Open(h) PROVE Mapped'
    <2>1. lockState'.mapped <=> h = "pmem"
      BY <1>14 DEF Open, Fresh, State
    <2>2. ~Mapping /\ ~Mapping'
      BY <1>14 DEF Open, ClosedIsIdle, Mapping, callVars
    <2>3. maps = 0
      BY <1>14, <2>2 DEF Open, Mapped, ClosedIsIdle
    <2> QED
      BY <1>14, <2>1, <2>2, <2>3 DEF Open, ClosedIsIdle, HasBase, Mapped, callVars
  <1>15. CASE Close
    <2>1. ~Mapping /\ ~Mapping'
      BY <1>15 DEF Close, Mapping
    <2>2. ~lockState'.mapped
      BY <1>15, UnlockedFields DEF Close
    <2> QED
      BY <1>15, <2>1, <2>2 DEF Close, Mapped, Kinds
  <1>16. CASE UNCHANGED vars
    BY <1>16 DEF vars, handleVars, callVars, Mapped, Mapping, UsesCpu
  <1> QED
    BY <1>1, <1>2, <1>3, <1>4, <1>5, <1>6, <1>7, <1>8, <1>9, <1>10, <1>11, <1>12, <1>13, <1>14,
       <1>15, <1>16 DEF Next

-----------------------------------------------------------------------------
(* The theorems                                                            *)

LEMMA InitIInv == Init => IInv
  <1> SUFFICES ASSUME Init PROVE IInv
    OBVIOUS
  <1> USE UnlockedFields DEF Init
  <1>1. TypeOK
    BY ThreadAssumption DEF TypeOK, Kinds, GrantedAt
  <1>2. Granted = {}
    BY DEF Granted, GrantedAt
  <1>3. Exclusion /\ WriteBitHasWriter
    BY <1>2 DEF Exclusion, WriteBitHasWriter
  <1>4. CountIsUses
    BY <1>2, FS_EmptySet DEF CountIsUses
  <1>5. Seen /\ Owner /\ ClosedIsIdle /\ OneCall /\ Mutex
    BY DEF Seen, Owner, ClosedIsIdle, OneCall, Mutex, GrantedAt
  <1>6. Mapped /\ FlushHeld
    BY DEF Mapped, Mapping, FlushHeld
  <1> QED
    BY <1>1, <1>3, <1>4, <1>5, <1>6 DEF IInv

\* The invariant is inductive: the initial state has it, and every step keeps it.
THEOREM Inductive == Spec => []IInv
  <1>1. IInv /\ [Next]_vars => IInv'
    BY TypeStep, LockStep, SeenStep, OwnerStep, ClosedIdleStep, OneCallStep, MutexStep,
       MappedStep, FlushStep DEF IInv
  <1> QED
    BY <1>1, InitIInv, PTL DEF Spec

\* Every variable of the buffer lock keeps its type (private_handle_t and the
\* locals of gralloc_lock and gralloc_unlock).
THEOREM TypeCorrect == Spec => []TypeOK
  <1>1. IInv => TypeOK
    BY DEF IInv
  <1> QED
    BY <1>1, Inductive, PTL

\* Whatever the threads and their uses, a use that may write excludes every
\* other one: no compare-and-swap of gralloc_lock lets two of them in.
THEOREM WriterExcludes == Spec => []Exclusion
  <1>1. IInv => Exclusion
    BY DEF IInv
  <1> QED
    BY <1>1, Inductive, PTL

\* READ_MASK counts the uses under way and the WRITE bit tells of a writer, so
\* gralloc_unlock leaves nothing behind that would refuse a later gralloc_lock.
THEOREM LockWordExact == Spec => []LockWord
  <1>1. IInv => LockWord
    BY DEF IInv, LockWord
  <1> QED
    BY <1>1, Inductive, PTL

\* writeOwner names the writer when gralloc_unlock compares it with gettid().
THEOREM OwnerNamed == Spec => []OwnerIsWriter
  <1>1. IInv => OwnerIsWriter
    BY DEF IInv, Owner, OwnerIsWriter, GrantedAt
  <1> QED
    BY <1>1, Inductive, PTL

\* gralloc_lock for the CPU returns an address, and the threads that find the
\* buffer not mapped at the same time map it once (sMapLock).
THEOREM MappingSound == Spec => []MappedForUse
  <1>1. IInv => CpuAddressMapped
    BY DEF IInv, Mapped, CpuAddressMapped
  <1>2. IInv => MappedOnce
    <2> SUFFICES ASSUME IInv PROVE MappedOnce
      OBVIOUS
    <2>1. ~open => ~Mapping
      BY DEF IInv, ClosedIsIdle, Mapping
    <2> QED
      BY <2>1 DEF IInv, Mapped, MappedOnce, ClosedIsIdle, TypeOK, Kinds
  <1>3. IInv => MappedForUse
    BY <1>1, <1>2 DEF MappedForUse
  <1> QED
    BY <1>3, Inductive, PTL

\* gralloc_unlock flushes what the CPU wrote before the use ends.
THEOREM FlushedInTime == Spec => []FlushBeforeNextUse
  <1>1. IInv => FlushBeforeNextUse
    BY DEF IInv, FlushHeld, FlushBeforeNextUse, Granted
  <1> QED
    BY <1>1, Inductive, PTL

\* The lock word of private_handle_t implements the readers-writer lock.
THEOREM Refinement == Spec => IsReadersWriter
  <1>1. Init => RW!Init
    BY DEF Init, RW!Init, readersOf, writersOf, Granted, GrantedAt
  <1>2. ASSUME IInv, [Next]_vars PROVE [RW!Next]_(RW!vars)
    <2> USE DEF readersOf, writersOf, Writes
    <2>1. CASE Keeps
      BY <2>1 DEF Keeps, RW!vars
    <2>2. ASSUME NEW l \in Lease, Acquires(l) PROVE RW!Next
      <3>1. writersOf = {}
        BY <1>2, <2>2 DEF Acquires, IInv, WriteBitHasWriter
      <3>2. CASE Writes(l)
        <4>1. Granted = {}
          BY <1>2, <2>2, <3>2, LeaseAssumption, FS_Subset, FS_EmptySet
             DEF Acquires, IInv, CountIsUses, Granted
        <4> QED
          BY <2>2, <3>2, <4>1 DEF Acquires, RW!Next, RW!AcquireWrite
      <3>3. CASE ~Writes(l)
        BY <2>2, <3>1, <3>3 DEF Acquires, RW!Next, RW!AcquireRead
      <3> QED
        BY <3>2, <3>3
    <2>3. ASSUME NEW l \in Lease, Releases(l) PROVE RW!Next
      BY <2>3 DEF Releases, RW!Next, RW!Release
    <2>4. CASE Forgets
      BY <2>4 DEF Forgets, RW!Next, RW!Forget
    <2> QED
      BY <1>2, <2>1, <2>2, <2>3, <2>4, Effects
  <1> QED
    BY <1>1, <1>2, Inductive, PTL DEF IsReadersWriter, Spec, RW!Spec

=============================================================================
