--------------------------- MODULE FileSwapProofs ---------------------------
(***************************************************************************)
(* The safety of the file switch, for any number of readers, restores,     *)
(* failing file operations and crashes.                                    *)
(*                                                                         *)
(* None of the properties is inductive as it stands: what a switch leaves  *)
(* behind depends on where the original is at each of its steps, and what  *)
(* a reader sees on which steps may run while it is inside.  Inv says both *)
(* for every step of the writer thread.                                    *)
(***************************************************************************)
EXTENDS FileSwap, TLAPS

(* A file that reopen accepts.                                              *)
Usable(v) == v \notin {Absent, Raw}

(* The handles, step by step: all open on the file with the database's      *)
(* name, or all closed; from Shut until the reopening, closed.              *)
HandlesInv ==
  /\ step \in {"idle", "built", "fenced", "discard"} =>
       /\ writer = prototype /\ prototype = readers
       /\ writer # Absent => writer = live /\ Usable(live)
  /\ step \in {"shut", "moved", "published", "giveback", "undo", "recover", "retry", "down"} =>
       writer = Absent /\ prototype = Absent /\ readers = Absent
  /\ step = "exited" =>
       /\ writer = Absent /\ prototype = readers
       /\ readers # Absent => readers = live
       /\ gate = "close" => readers = Absent

(* The lock is released with every handle closed.                           *)
LockInv == ~lock => step = "down" \/ (step = "exited" /\ gate = "close")

(* A reader inside keeps the gate from being taken, and so the handles and  *)
(* the file from being touched.                                             *)
ReaderInv ==
  \A r \in Readers :
    /\ rpc[r] = "inside" => gate = "free" /\ step # "down" /\ view[r] = readers
    /\ step = "down" => rpc[r] = "idle"

(* Where the original is, and how many operations have failed, at each step *)
(* of a switch that began with a database open.                             *)
RollbackInv ==
  /\ step \in {"built", "fenced", "shut", "moved"} => Usable(staging)
  /\ step = "published" => Usable(live)
  /\ step \in {"built", "fenced"} => before = writer
  /\ before # Absent =>
       /\ step \in {"built", "fenced", "shut", "moved", "published"} => faults = 0
       /\ step \in {"built", "fenced", "shut", "moved", "published",
                    "giveback", "undo", "recover", "retry"} => Usable(before)
       /\ step = "shut" => live = before
       /\ step \in {"moved", "published", "giveback", "recover"} => aside = before
       /\ step \in {"giveback", "undo", "recover", "retry"} => faults >= 1
       /\ step \in {"undo", "retry"} /\ faults <= 1 => live = before
       /\ step \in {"exited", "down"} /\ outcome = "failed" /\ faults <= 1 =>
            live = before /\ Usable(before)

(* The version last put in service, on disk from the moment the switch that *)
(* began with it has it in its hands.                                       *)
ServedInv ==
  /\ Usable(served)
  /\ step = "discard" => served = live
  /\ SwitchKeepsServed

Inv ==
  /\ TypeOK
  /\ HandlesInv
  /\ LockInv
  /\ ReaderInv
  /\ RollbackInv
  /\ FailureKeepsOriginal
  /\ ServedInv

-----------------------------------------------------------------------------
(* The contents that are not restored versions.                             *)
LEMMA ContentsFacts ==
  Absent \in Contents /\ Raw \in Contents /\ Empty \in Contents /\ 1 \in Contents
  BY SwapAssumption DEF Contents, Absent, Raw, Empty

(* Every step keeps the types.                                              *)
LEMMA TypePreserved == Inv /\ [Next]_vars => TypeOK'
<1> SUFFICES ASSUME Inv, [Next]_vars PROVE TypeOK'
  OBVIOUS
<1> USE SwapAssumption DEF Inv, Absent, Raw, Empty, TypeOK, Contents, Steps, Fenced, HandlesInv,
    ReaderInv, RollbackInv, Usable, files, handles, calls, bounds, history
<1>1. CASE BuildRestore
  BY <1>1 DEF BuildRestore, Goto
<1>2. CASE BuildCompaction
  BY <1>2 DEF BuildCompaction, Goto
<1>3. CASE Fence
  BY <1>3 DEF Fence, Goto
<1>4. CASE Shut
  BY <1>4 DEF Shut, Goto, AllHandles
<1>5. CASE MoveAside
  BY <1>5 DEF MoveAside, Fault
<1>6. CASE Publish
  BY <1>6 DEF Publish, Fault
<1>7. CASE GiveBack
  BY <1>7 DEF GiveBack, Goto, Fault
<1>8. CASE Undo
  BY <1>8 DEF Undo, Goto, Opens, Refuses, Fault, Ends, AllHandles
<1>9. CASE Reopen
  BY <1>9 DEF Reopen, Opens, Refuses, Fault, AllHandles
<1>10. CASE Discard
  BY <1>10 DEF Discard, Goto, Ends
<1>11. CASE Recover
  BY <1>11 DEF Recover, Fault, Ends
<1>12. CASE Retry
  BY <1>12 DEF Retry, Goto, Opens, Refuses, Fault, Ends, AllHandles
<1>13. CASE \E r \in Readers : Check(r)
  BY <1>13 DEF Check
<1>14. CASE \E r \in Readers : Enter(r)
  BY <1>14 DEF Enter
<1>15. CASE \E r \in Readers : Leave(r)
  BY <1>15 DEF Leave
<1>16. CASE CloseBegin
  BY <1>16 DEF CloseBegin
<1>17. CASE WriterExits
  BY <1>17 DEF WriterExits, Goto
<1>18. CASE CloseHandles
  BY <1>18 DEF CloseHandles
<1>19. CASE ReleaseLock
  BY <1>19 DEF ReleaseLock
<1>20. CASE Exit
  BY <1>20 DEF Exit
<1>21. CASE Crash
  <2>1. /\ rpc' \in [Readers -> {"idle", "checked", "inside"}]
        /\ view' \in [Readers -> Contents]
    BY <1>21, ContentsFacts DEF Crash
  <2>2. faults' \in 0..MaxFaults /\ crashes' \in 0..MaxCrashes
    BY <1>21 DEF Crash
  <2> QED
    BY <1>21, <2>1, <2>2, ContentsFacts DEF Crash, AllHandles
<1>22. CASE Start
  BY <1>22, ContentsFacts DEF Start, AllHandles
<1>23. CASE UNCHANGED vars
  BY <1>23 DEF vars
<1> QED
  BY <1>1, <1>2, <1>3, <1>4, <1>5, <1>6, <1>7, <1>8, <1>9, <1>10, <1>11, <1>12, <1>13, <1>14,
     <1>15, <1>16, <1>17, <1>18, <1>19, <1>20, <1>21, <1>22, <1>23 DEF Next, Swap, Shutdown

(* Every step keeps the handles together.                                   *)
LEMMA HandlesPreserved == Inv /\ [Next]_vars => HandlesInv'
<1> SUFFICES ASSUME Inv, [Next]_vars PROVE HandlesInv'
  OBVIOUS
<1> USE SwapAssumption DEF Inv, Absent, Raw, Empty, TypeOK, Contents, Steps, Fenced, HandlesInv,
    LockInv, RollbackInv, Usable, files, handles, calls, bounds, history
<1>1. CASE BuildRestore
  BY <1>1 DEF BuildRestore, Goto
<1>2. CASE BuildCompaction
  BY <1>2 DEF BuildCompaction, Goto
<1>3. CASE Fence
  BY <1>3 DEF Fence, Goto
<1>4. CASE Shut
  BY <1>4 DEF Shut, Goto, AllHandles
<1>5. CASE MoveAside
  BY <1>5 DEF MoveAside, Fault
<1>6. CASE Publish
  BY <1>6 DEF Publish, Fault
<1>7. CASE GiveBack
  BY <1>7 DEF GiveBack, Goto, Fault
<1>8. CASE Undo
  BY <1>8 DEF Undo, Goto, Opens, Refuses, Fault, Ends, AllHandles
<1>9. CASE Reopen
  BY <1>9 DEF Reopen, Opens, Refuses, Fault, AllHandles
<1>10. CASE Discard
  BY <1>10 DEF Discard, Goto, Ends
<1>11. CASE Recover
  BY <1>11 DEF Recover, Fault, Ends
<1>12. CASE Retry
  BY <1>12 DEF Retry, Goto, Opens, Refuses, Fault, Ends, AllHandles
<1>13. CASE \E r \in Readers : Check(r)
  BY <1>13 DEF Check
<1>14. CASE \E r \in Readers : Enter(r)
  BY <1>14 DEF Enter
<1>15. CASE \E r \in Readers : Leave(r)
  BY <1>15 DEF Leave
<1>16. CASE CloseBegin
  BY <1>16 DEF CloseBegin
<1>17. CASE WriterExits
  BY <1>17 DEF WriterExits, Goto
<1>18. CASE CloseHandles
  BY <1>18 DEF CloseHandles
<1>19. CASE ReleaseLock
  BY <1>19 DEF ReleaseLock
<1>20. CASE Exit
  BY <1>20 DEF Exit
<1>21. CASE Crash
  BY <1>21 DEF Crash, AllHandles
<1>22. CASE Start
  BY <1>22 DEF Start, AllHandles
<1>23. CASE UNCHANGED vars
  BY <1>23 DEF vars
<1> QED
  BY <1>1, <1>2, <1>3, <1>4, <1>5, <1>6, <1>7, <1>8, <1>9, <1>10, <1>11, <1>12, <1>13, <1>14,
     <1>15, <1>16, <1>17, <1>18, <1>19, <1>20, <1>21, <1>22, <1>23 DEF Next, Swap, Shutdown

(* Only the end of close and a crash release the lock.                      *)
LEMMA LockPreserved == Inv /\ [Next]_vars => LockInv'
<1> SUFFICES ASSUME Inv, [Next]_vars PROVE LockInv'
  OBVIOUS
<1> USE SwapAssumption DEF Inv, Absent, Raw, Empty, TypeOK, Steps, Fenced, LockInv, files,
    handles, calls, bounds, history
<1>1. CASE BuildRestore
  BY <1>1 DEF BuildRestore, Goto
<1>2. CASE BuildCompaction
  BY <1>2 DEF BuildCompaction, Goto
<1>3. CASE Fence
  BY <1>3 DEF Fence, Goto
<1>4. CASE Shut
  BY <1>4 DEF Shut, Goto, AllHandles
<1>5. CASE MoveAside
  BY <1>5 DEF MoveAside, Fault
<1>6. CASE Publish
  BY <1>6 DEF Publish, Fault
<1>7. CASE GiveBack
  BY <1>7 DEF GiveBack, Goto, Fault
<1>8. CASE Undo
  BY <1>8 DEF Undo, Goto, Opens, Refuses, Fault, Ends, AllHandles
<1>9. CASE Reopen
  BY <1>9 DEF Reopen, Opens, Refuses, Fault, AllHandles
<1>10. CASE Discard
  BY <1>10 DEF Discard, Goto, Ends
<1>11. CASE Recover
  BY <1>11 DEF Recover, Fault, Ends
<1>12. CASE Retry
  BY <1>12 DEF Retry, Goto, Opens, Refuses, Fault, Ends, AllHandles
<1>13. CASE \E r \in Readers : Check(r)
  BY <1>13 DEF Check
<1>14. CASE \E r \in Readers : Enter(r)
  BY <1>14 DEF Enter
<1>15. CASE \E r \in Readers : Leave(r)
  BY <1>15 DEF Leave
<1>16. CASE CloseBegin
  BY <1>16 DEF CloseBegin
<1>17. CASE WriterExits
  BY <1>17 DEF WriterExits, Goto
<1>18. CASE CloseHandles
  BY <1>18 DEF CloseHandles
<1>19. CASE ReleaseLock
  BY <1>19 DEF ReleaseLock
<1>20. CASE Exit
  BY <1>20 DEF Exit
<1>21. CASE Crash
  BY <1>21 DEF Crash, AllHandles
<1>22. CASE Start
  BY <1>22 DEF Start, AllHandles
<1>23. CASE UNCHANGED vars
  BY <1>23 DEF vars
<1> QED
  BY <1>1, <1>2, <1>3, <1>4, <1>5, <1>6, <1>7, <1>8, <1>9, <1>10, <1>11, <1>12, <1>13, <1>14,
     <1>15, <1>16, <1>17, <1>18, <1>19, <1>20, <1>21, <1>22, <1>23 DEF Next, Swap, Shutdown

(* No step takes the file from a reader inside.                             *)
LEMMA ReadersPreserved == Inv /\ [Next]_vars => ReaderInv'
<1> SUFFICES ASSUME Inv, [Next]_vars PROVE ReaderInv'
  OBVIOUS
<1> USE SwapAssumption DEF Inv, Absent, Raw, Empty, TypeOK, Steps, Fenced, HandlesInv, LockInv,
    ReaderInv, files, handles, calls, bounds, history
<1>1. CASE BuildRestore
  BY <1>1 DEF BuildRestore, Goto
<1>2. CASE BuildCompaction
  BY <1>2 DEF BuildCompaction, Goto
<1>3. CASE Fence
  BY <1>3 DEF Fence, Goto
<1>4. CASE Shut
  BY <1>4 DEF Shut, Goto, AllHandles
<1>5. CASE MoveAside
  BY <1>5 DEF MoveAside, Fault
<1>6. CASE Publish
  BY <1>6 DEF Publish, Fault
<1>7. CASE GiveBack
  BY <1>7 DEF GiveBack, Goto, Fault
<1>8. CASE Undo
  BY <1>8 DEF Undo, Goto, Opens, Refuses, Fault, Ends, AllHandles
<1>9. CASE Reopen
  BY <1>9 DEF Reopen, Opens, Refuses, Fault, AllHandles
<1>10. CASE Discard
  BY <1>10 DEF Discard, Goto, Ends
<1>11. CASE Recover
  BY <1>11 DEF Recover, Fault, Ends
<1>12. CASE Retry
  BY <1>12 DEF Retry, Goto, Opens, Refuses, Fault, Ends, AllHandles
<1>13. CASE \E r \in Readers : Check(r)
  BY <1>13 DEF Check
<1>14. CASE \E r \in Readers : Enter(r)
  BY <1>14 DEF Enter
<1>15. CASE \E r \in Readers : Leave(r)
  BY <1>15 DEF Leave
<1>16. CASE CloseBegin
  BY <1>16 DEF CloseBegin
<1>17. CASE WriterExits
  BY <1>17 DEF WriterExits, Goto
<1>18. CASE CloseHandles
  BY <1>18 DEF CloseHandles
<1>19. CASE ReleaseLock
  BY <1>19 DEF ReleaseLock
<1>20. CASE Exit
  BY <1>20 DEF Exit
<1>21. CASE Crash
  BY <1>21 DEF Crash, AllHandles
<1>22. CASE Start
  BY <1>22 DEF Start, AllHandles
<1>23. CASE UNCHANGED vars
  BY <1>23 DEF vars
<1> QED
  BY <1>1, <1>2, <1>3, <1>4, <1>5, <1>6, <1>7, <1>8, <1>9, <1>10, <1>11, <1>12, <1>13, <1>14,
     <1>15, <1>16, <1>17, <1>18, <1>19, <1>20, <1>21, <1>22, <1>23 DEF Next, Swap, Shutdown

(* Every step of a switch knows where the original is.                      *)
LEMMA RollbackPreserved == Inv /\ [Next]_vars => RollbackInv'
<1> SUFFICES ASSUME Inv, [Next]_vars PROVE RollbackInv'
  OBVIOUS
<1> USE SwapAssumption DEF Inv, Absent, Raw, Empty, TypeOK, Contents, Steps, HandlesInv,
    RollbackInv, Usable, files, handles, calls, bounds, history
<1>1. CASE BuildRestore
  BY <1>1 DEF BuildRestore, Goto
<1>2. CASE BuildCompaction
  BY <1>2 DEF BuildCompaction, Goto
<1>3. CASE Fence
  BY <1>3 DEF Fence, Goto
<1>4. CASE Shut
  BY <1>4 DEF Shut, Goto, AllHandles
<1>5. CASE MoveAside
  BY <1>5 DEF MoveAside, Fault
<1>6. CASE Publish
  BY <1>6 DEF Publish, Fault
<1>7. CASE GiveBack
  BY <1>7 DEF GiveBack, Goto, Fault
<1>8. CASE Undo
  BY <1>8 DEF Undo, Goto, Opens, Refuses, Fault, Ends, AllHandles
<1>9. CASE Reopen
  BY <1>9 DEF Reopen, Opens, Refuses, Fault, AllHandles
<1>10. CASE Discard
  BY <1>10 DEF Discard, Goto, Ends
<1>11. CASE Recover
  BY <1>11 DEF Recover, Fault, Ends
<1>12. CASE Retry
  BY <1>12 DEF Retry, Goto, Opens, Refuses, Fault, Ends, AllHandles
<1>13. CASE \E r \in Readers : Check(r)
  BY <1>13 DEF Check
<1>14. CASE \E r \in Readers : Enter(r)
  BY <1>14 DEF Enter
<1>15. CASE \E r \in Readers : Leave(r)
  BY <1>15 DEF Leave
<1>16. CASE CloseBegin
  BY <1>16 DEF CloseBegin
<1>17. CASE WriterExits
  BY <1>17 DEF WriterExits, Goto, FailureKeepsOriginal
<1>18. CASE CloseHandles
  BY <1>18 DEF CloseHandles
<1>19. CASE ReleaseLock
  BY <1>19 DEF ReleaseLock
<1>20. CASE Exit
  BY <1>20 DEF Exit
<1>21. CASE Crash
  BY <1>21 DEF Crash, AllHandles
<1>22. CASE Start
  BY <1>22 DEF Start, AllHandles
<1>23. CASE UNCHANGED vars
  BY <1>23 DEF vars
<1> QED
  BY <1>1, <1>2, <1>3, <1>4, <1>5, <1>6, <1>7, <1>8, <1>9, <1>10, <1>11, <1>12, <1>13, <1>14,
     <1>15, <1>16, <1>17, <1>18, <1>19, <1>20, <1>21, <1>22, <1>23 DEF Next, Swap, Shutdown

(* A failed switch ends on the original, if only one operation failed.      *)
LEMMA FailurePreserved == Inv /\ [Next]_vars => FailureKeepsOriginal'
<1> SUFFICES ASSUME Inv, [Next]_vars PROVE FailureKeepsOriginal'
  OBVIOUS
<1> USE SwapAssumption DEF Inv, Absent, Raw, Empty, TypeOK, Steps, HandlesInv, RollbackInv,
    Usable, FailureKeepsOriginal, files, handles, calls, bounds, history
<1>1. CASE BuildRestore
  BY <1>1 DEF BuildRestore, Goto
<1>2. CASE BuildCompaction
  BY <1>2 DEF BuildCompaction, Goto
<1>3. CASE Fence
  BY <1>3 DEF Fence, Goto
<1>4. CASE Shut
  BY <1>4 DEF Shut, Goto, AllHandles
<1>5. CASE MoveAside
  BY <1>5 DEF MoveAside, Fault
<1>6. CASE Publish
  BY <1>6 DEF Publish, Fault
<1>7. CASE GiveBack
  BY <1>7 DEF GiveBack, Goto, Fault
<1>8. CASE Undo
  BY <1>8 DEF Undo, Goto, Opens, Refuses, Fault, Ends, AllHandles
<1>9. CASE Reopen
  BY <1>9 DEF Reopen, Opens, Refuses, Fault, AllHandles
<1>10. CASE Discard
  BY <1>10 DEF Discard, Goto, Ends
<1>11. CASE Recover
  BY <1>11 DEF Recover, Fault, Ends
<1>12. CASE Retry
  BY <1>12 DEF Retry, Goto, Opens, Refuses, Fault, Ends, AllHandles
<1>13. CASE \E r \in Readers : Check(r)
  BY <1>13 DEF Check
<1>14. CASE \E r \in Readers : Enter(r)
  BY <1>14 DEF Enter
<1>15. CASE \E r \in Readers : Leave(r)
  BY <1>15 DEF Leave
<1>16. CASE CloseBegin
  BY <1>16 DEF CloseBegin
<1>17. CASE WriterExits
  BY <1>17 DEF WriterExits, Goto
<1>18. CASE CloseHandles
  BY <1>18 DEF CloseHandles
<1>19. CASE ReleaseLock
  BY <1>19 DEF ReleaseLock
<1>20. CASE Exit
  BY <1>20 DEF Exit
<1>21. CASE Crash
  BY <1>21 DEF Crash, AllHandles
<1>22. CASE Start
  BY <1>22 DEF Start, AllHandles
<1>23. CASE UNCHANGED vars
  BY <1>23 DEF vars
<1> QED
  BY <1>1, <1>2, <1>3, <1>4, <1>5, <1>6, <1>7, <1>8, <1>9, <1>10, <1>11, <1>12, <1>13, <1>14,
     <1>15, <1>16, <1>17, <1>18, <1>19, <1>20, <1>21, <1>22, <1>23 DEF Next, Swap, Shutdown

(* A switch keeps the version it began with until another one is open.      *)
LEMMA ServedPreserved == Inv /\ [Next]_vars => ServedInv'
<1> SUFFICES ASSUME Inv, [Next]_vars PROVE ServedInv'
  OBVIOUS
<1> USE SwapAssumption DEF Inv, Absent, Raw, Empty, TypeOK, Steps, HandlesInv, RollbackInv,
    Usable, ServedInv, SwitchKeepsServed, ServedOnDisk, files, handles, calls, bounds, history
<1>1. CASE BuildRestore
  BY <1>1 DEF BuildRestore, Goto
<1>2. CASE BuildCompaction
  BY <1>2 DEF BuildCompaction, Goto
<1>3. CASE Fence
  BY <1>3 DEF Fence, Goto
<1>4. CASE Shut
  BY <1>4 DEF Shut, Goto, AllHandles
<1>5. CASE MoveAside
  BY <1>5 DEF MoveAside, Fault
<1>6. CASE Publish
  BY <1>6 DEF Publish, Fault
<1>7. CASE GiveBack
  BY <1>7 DEF GiveBack, Goto, Fault
<1>8. CASE Undo
  BY <1>8 DEF Undo, Goto, Opens, Refuses, Fault, Ends, AllHandles
<1>9. CASE Reopen
  BY <1>9 DEF Reopen, Opens, Refuses, Fault, AllHandles
<1>10. CASE Discard
  BY <1>10 DEF Discard, Goto, Ends
<1>11. CASE Recover
  BY <1>11 DEF Recover, Fault, Ends
<1>12. CASE Retry
  BY <1>12 DEF Retry, Goto, Opens, Refuses, Fault, Ends, AllHandles
<1>13. CASE \E r \in Readers : Check(r)
  BY <1>13 DEF Check
<1>14. CASE \E r \in Readers : Enter(r)
  BY <1>14 DEF Enter
<1>15. CASE \E r \in Readers : Leave(r)
  BY <1>15 DEF Leave
<1>16. CASE CloseBegin
  BY <1>16 DEF CloseBegin
<1>17. CASE WriterExits
  BY <1>17 DEF WriterExits, Goto
<1>18. CASE CloseHandles
  BY <1>18 DEF CloseHandles
<1>19. CASE ReleaseLock
  BY <1>19 DEF ReleaseLock
<1>20. CASE Exit
  BY <1>20 DEF Exit
<1>21. CASE Crash
  BY <1>21 DEF Crash, AllHandles
<1>22. CASE Start
  BY <1>22 DEF Start, AllHandles
<1>23. CASE UNCHANGED vars
  BY <1>23 DEF vars
<1> QED
  BY <1>1, <1>2, <1>3, <1>4, <1>5, <1>6, <1>7, <1>8, <1>9, <1>10, <1>11, <1>12, <1>13, <1>14,
     <1>15, <1>16, <1>17, <1>18, <1>19, <1>20, <1>21, <1>22, <1>23 DEF Next, Swap, Shutdown

(* The invariant holds in every reachable state.                            *)
THEOREM Invariance == Spec => []Inv
<1>1. Init => Inv
  <2> SUFFICES ASSUME Init PROVE Inv
    OBVIOUS
  <2> USE DEF Init
  <2>1. TypeOK
    <3>1. rpc \in [Readers -> {"idle", "checked", "inside"}]
      OBVIOUS
    <3>2. view \in [Readers -> Contents]
      BY ContentsFacts
    <3>3. faults \in 0..MaxFaults /\ crashes \in 0..MaxCrashes /\ versions \in 1..MaxVersion
      BY SwapAssumption
    <3>4. step \in Steps /\ step \notin Fenced /\ gate = "free"
      BY DEF Steps, Fenced
    <3> HIDE DEF Init
    <3>5. /\ live \in Contents /\ aside \in Contents /\ staging \in Contents
          /\ writer \in Contents /\ prototype \in Contents /\ readers \in Contents
          /\ before \in Contents /\ served \in Contents
      BY ContentsFacts DEF Init
    <3>6. closed \in BOOLEAN /\ lock \in BOOLEAN /\ outcome \in {"none", "ok", "failed"}
      BY DEF Init
    <3> QED
      BY <3>1, <3>2, <3>3, <3>4, <3>5, <3>6 DEF TypeOK
  <2> USE DEF Absent, Raw, Empty
  <2>2. HandlesInv /\ LockInv /\ RollbackInv /\ FailureKeepsOriginal /\ ServedInv
    BY DEF HandlesInv, LockInv, RollbackInv, FailureKeepsOriginal, ServedInv, SwitchKeepsServed,
           ServedOnDisk, Usable
  <2>3. ReaderInv
    BY DEF ReaderInv
  <2> QED
    BY <2>1, <2>2, <2>3 DEF Inv
<1>2. Inv /\ [Next]_vars => Inv'
  BY TypePreserved, HandlesPreserved, LockPreserved, ReadersPreserved, RollbackPreserved,
     FailurePreserved, ServedPreserved DEF Inv
<1> QED
  BY <1>1, <1>2, PTL DEF Spec

(* The variables of the switch keep their types, and the gate is held       *)
(* exclusively by exactly the steps between Fence and the end of a switch   *)
(* (activate), and by the last steps of close.                              *)
THEOREM SwapTypes == Spec => []TypeOK
<1>1. Inv => TypeOK
  BY DEF Inv
<1> QED
  BY <1>1, Invariance, PTL

(* A query runs on one file, the one in service, from its first row to its  *)
(* last (read against activate and close).                                  *)
THEOREM ReadersSafe == Spec => []ReadersSeeLive
<1>1. Inv => ReadersSeeLive
  BY DEF Inv, ReadersSeeLive, TypeOK, Fenced, Steps, HandlesInv, ReaderInv
<1> QED
  BY <1>1, Invariance, PTL

(* Between switches the writer, the prototype and the reader pool are open  *)
(* on one file, the one with the database's name, or all closed (reopen).   *)
THEOREM HandlesTogether == Spec => []HandlesAgree
<1>1. Inv => HandlesAgree
  BY DEF Inv, HandlesAgree, HandlesInv
<1> QED
  BY <1>1, Invariance, PTL

(* A switch in which one file operation fails ends with the original in     *)
(* service (the rollbacks of activate).                                     *)
THEOREM RollbackWorks == Spec => []FailureKeepsOriginal
<1>1. Inv => FailureKeepsOriginal
  BY DEF Inv
<1> QED
  BY <1>1, Invariance, PTL

(* While another process may take the database lock, this one has neither   *)
(* a handle on the file nor a query running (close, and a crash).           *)
THEOREM LockIsLast == Spec => []LockCoversHandles
<1>1. Inv => LockCoversHandles
  BY DEF Inv, LockCoversHandles, LockInv, HandlesInv, ReaderInv
<1> QED
  BY <1>1, Invariance, PTL

(* The version a switch began with, when that is the one last put in        *)
(* service, is under some name at every step, whatever operation fails and  *)
(* wherever the process dies (activate).                                    *)
THEOREM SwitchesKeepData == Spec => []SwitchKeepsServed
<1>1. Inv => SwitchKeepsServed
  BY DEF Inv, ServedInv
<1> QED
  BY <1>1, Invariance, PTL
=============================================================================
