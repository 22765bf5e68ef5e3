------------------------------ MODULE FileSwap ------------------------------
(***************************************************************************)
(* The database file on disk (server/src/db/backup.rs, db/mod.rs): a       *)
(* restore or a compaction builds a second file and switches to it while   *)
(* readers come and go, the Hub shuts down, or it crashes between two file *)
(* operations and is started again.                                        *)
(*                                                                         *)
(* A file is the version of the data it holds.  Version 1 is the database  *)
(* the Hub starts with, a restore brings a version of its own, and a       *)
(* compaction copies the version in service.  The writer's connection, the *)
(* prototype and the reader pool are each open on a version or closed.     *)
(* Closing the last connection folds the write-ahead log into the file, so *)
(* a file moves with all of its data.  The in-memory database, which has   *)
(* no file to switch, and the archive format are left out.                 *)
(***************************************************************************)
EXTENDS Integers, FiniteSets

CONSTANTS
  Readers,       (* callers of Db::read, read_short and read_bounded       *)
  MaxVersion,    (* bound: restores, plus one                              *)
  MaxFaults,     (* bound: file operations that fail during one switch     *)
  MaxCrashes     (* bound: crashes                                         *)

ASSUME SwapAssumption ==
  /\ MaxVersion \in Nat \ {0}
  /\ MaxFaults \in Nat
  /\ MaxCrashes \in Nat

Absent == -2    (* no such file; of a handle, closed                       *)
Raw    == -1    (* a file the engine created and nobody initialized        *)
Empty  == 0     (* a database the Hub initialized on an empty path         *)

VARIABLES
  live, aside, staging,      (* the files: --db, <db>.replaced, the scratch *)
  writer, prototype, readers,(* the open handles: ex.conn, Inner's           *)
  gate,                      (* Inner::gate: free, or held exclusively by    *)
  step,                      (* the writer thread                            *)
  closed, lock,              (* Inner::closed; whether <db>.lock is held     *)
  rpc, view,                 (* the readers, and the handle each uses        *)
  faults, crashes, versions, (* how much of each bound is used               *)
  before, outcome,           (* history: the version the switch began with,  *)
                             (* and how the last switch ended                *)
  served                     (* history: the version last put in service by  *)
                             (* a switch                                     *)

files   == <<live, aside, staging>>
handles == <<writer, prototype, readers>>
calls   == <<rpc, view>>
bounds  == <<faults, crashes, versions>>
history == <<before, outcome, served>>
vars    == <<files, handles, gate, step, closed, lock, calls, bounds, history>>

Contents == Absent..MaxVersion

Steps == {"idle", "built", "fenced", "shut", "moved", "published", "giveback", "undo",
          "recover", "retry", "discard", "exited", "down"}

(* The steps that have the gate to themselves.                              *)
Fenced == Steps \ {"idle", "built", "exited", "down"}

TypeOK ==
  /\ live \in Contents /\ aside \in Contents /\ staging \in Contents
  /\ writer \in Contents /\ prototype \in Contents /\ readers \in Contents
  /\ step \in Steps
  /\ gate \in IF step \in Fenced THEN {"swap"}
               ELSE IF step = "exited" THEN {"free", "close"} ELSE {"free"}
  /\ closed \in BOOLEAN /\ lock \in BOOLEAN
  /\ rpc \in [Readers -> {"idle", "checked", "inside"}]
  /\ view \in [Readers -> Contents]
  /\ faults \in 0..MaxFaults /\ crashes \in 0..MaxCrashes /\ versions \in 1..MaxVersion
  /\ before \in Contents /\ served \in Contents
  /\ outcome \in {"none", "ok", "failed"}

Init ==
  /\ live = 1 /\ aside = Absent /\ staging = Absent
  /\ writer = 1 /\ prototype = 1 /\ readers = 1
  /\ gate = "free" /\ step = "idle"
  /\ closed = FALSE /\ lock = TRUE
  /\ rpc = [r \in Readers |-> "idle"] /\ view = [r \in Readers |-> Absent]
  /\ faults = 0 /\ crashes = 0 /\ versions = 1
  /\ before = 1 /\ outcome = "none" /\ served = 1

AllHandles(v) == writer' = v /\ prototype' = v /\ readers' = v

Goto(from, to) == step = from /\ step' = to

(* One more file operation of this switch fails.                            *)
Fault == faults < MaxFaults /\ faults' = faults + 1

(* The switch is over: the barrier is lifted, the scratch file removed.     *)
Ends(how) == outcome' = how /\ gate' = "free" /\ staging' = Absent

-----------------------------------------------------------------------------
(* The switch.                                                              *)

(* restore and apply_maintenance, up to activate: the second file is built  *)
(* and validated while the database stays readable.  A restore works with   *)
(* no database open, a compaction does not.                                 *)
BuildRestore ==
  /\ Goto("idle", "built")
  /\ versions < MaxVersion
  /\ versions' = versions + 1
  /\ staging' = versions + 1
  /\ before' = writer
  /\ faults' = 0 /\ outcome' = "none"
  /\ UNCHANGED <<live, aside, handles, gate, closed, lock, calls, crashes, served>>

BuildCompaction ==
  /\ Goto("idle", "built")
  /\ writer # Absent
  /\ staging' = writer
  /\ before' = writer
  /\ faults' = 0 /\ outcome' = "none"
  /\ UNCHANGED <<live, aside, handles, gate, closed, lock, calls, crashes, versions, served>>

(* Mutant: the barrier does not wait for the readers inside.                *)
FenceNow ==
  /\ Goto("built", "fenced")
  /\ gate = "free"
  /\ gate' = "swap"
  /\ aside' = Absent
  /\ UNCHANGED <<live, staging, handles, closed, lock, calls, bounds, history>>

(* activate: the barrier, and the file a previous switch left beside.       *)
Fence ==
  /\ Goto("built", "fenced")
  /\ gate = "free" /\ \A r \in Readers : rpc[r] # "inside"
  /\ gate' = "swap"
  /\ aside' = Absent
  /\ UNCHANGED <<live, staging, handles, closed, lock, calls, bounds, history>>

(* Every handle on the old file is closed.                                  *)
Shut ==
  /\ Goto("fenced", "shut")
  /\ AllHandles(Absent)
  /\ UNCHANGED <<files, gate, closed, lock, calls, bounds, history>>

(* Mutant: the original is removed instead of moved.                        *)
MoveAsideRemoves ==
  /\ Goto("shut", "moved")
  /\ live' = Absent
  /\ UNCHANGED <<aside, staging, handles, gate, closed, lock, calls, bounds, history>>

(* 1. The original moves aside; a failure has changed nothing.              *)
MoveAside ==
  /\ step = "shut"
  /\ \/ /\ live # Absent
        /\ step' = "moved"
        /\ aside' = live /\ live' = Absent
        /\ UNCHANGED faults
     \/ /\ Fault \/ (live = Absent /\ UNCHANGED faults)
        /\ step' = "undo"
        /\ UNCHANGED <<live, aside>>
  /\ UNCHANGED <<staging, handles, gate, closed, lock, calls, crashes, versions, history>>

(* 2. The new file is published.                                            *)
Publish ==
  /\ step = "moved"
  /\ \/ /\ step' = "published"
        /\ live' = staging /\ staging' = Absent
        /\ UNCHANGED faults
     \/ /\ Fault
        /\ step' = "giveback"
        /\ UNCHANGED <<live, staging>>
  /\ UNCHANGED <<aside, handles, gate, closed, lock, calls, crashes, versions, history>>

(* Mutant: the original is not renamed back.                                *)
GiveBackForgotten ==
  /\ Goto("giveback", "undo")
  /\ UNCHANGED <<files, handles, gate, closed, lock, calls, bounds, history>>

(* ... or the original is renamed back, an error of the rename ignored.     *)
GiveBack ==
  /\ Goto("giveback", "undo")
  /\ \/ live' = aside /\ aside' = Absent /\ UNCHANGED faults
     \/ Fault /\ UNCHANGED <<live, aside>>
  /\ UNCHANGED <<staging, handles, gate, closed, lock, calls, crashes, versions, history>>

(* Mutant: the writer's own connection is not opened again.                 *)
OpensReadersOnly ==
  /\ live \notin {Absent, Raw}
  /\ prototype' = live /\ readers' = live
  /\ UNCHANGED <<writer, live, faults>>

(* reopen: the engine creates a missing file, and a file without a schema   *)
(* record is refused.  Every handle is opened, or none.                     *)
Opens == live \notin {Absent, Raw} /\ AllHandles(live) /\ UNCHANGED <<live, faults>>
Refuses ==
  /\ UNCHANGED handles
  /\ \/ live \in {Absent, Raw} /\ live' = Raw /\ UNCHANGED faults
     \/ live \notin {Absent, Raw} /\ Fault /\ UNCHANGED live

(* The reopening after step 1 or 2 failed.                                  *)
Undo ==
  /\ Goto("undo", "idle")
  /\ Opens \/ Refuses
  /\ Ends("failed")
  /\ UNCHANGED <<aside, closed, lock, calls, crashes, versions, before, served>>

(* 3. The new file is opened.                                               *)
Reopen ==
  /\ step = "published"
  /\ \/ Opens /\ step' = "discard" /\ served' = live
     \/ Refuses /\ step' = "recover" /\ UNCHANGED served
  /\ UNCHANGED <<aside, staging, gate, closed, lock, calls, crashes, versions, before, outcome>>

(* The original is removed, now that the new file is open.                  *)
Discard ==
  /\ Goto("discard", "idle")
  /\ aside' = Absent
  /\ Ends("ok")
  /\ UNCHANGED <<live, handles, closed, lock, calls, bounds, before, served>>

(* The new file cannot be opened: it is removed, the original comes back... *)
Recover ==
  /\ step = "recover"
  /\ \/ /\ step' = "retry"
        /\ live' = aside /\ aside' = Absent
        /\ UNCHANGED <<staging, faults, gate, outcome>>
     \/ /\ Fault
        /\ step' = "idle"
        /\ live' = Absent
        /\ Ends("failed")
        /\ UNCHANGED aside
  /\ UNCHANGED <<handles, closed, lock, calls, crashes, versions, before, served>>

(* ... and is opened.                                                       *)
Retry ==
  /\ Goto("retry", "idle")
  /\ Opens \/ Refuses
  /\ Ends("failed")
  /\ UNCHANGED <<aside, closed, lock, calls, crashes, versions, before, served>>

Swap ==
  \/ BuildRestore \/ BuildCompaction \/ Fence \/ Shut \/ MoveAside \/ Publish \/ GiveBack
  \/ Undo \/ Reopen \/ Discard \/ Recover \/ Retry

-----------------------------------------------------------------------------
(* The readers: ensure_open, the shared side of the gate, then the pool or  *)
(* the prototype, for as long as the query runs.                            *)

Check(r) ==
  /\ ~closed /\ step # "down"
  /\ rpc[r] = "idle"
  /\ rpc' = [rpc EXCEPT ![r] = "checked"]
  /\ UNCHANGED <<files, handles, gate, step, closed, lock, view, bounds, history>>

Enter(r) ==
  /\ gate = "free"
  /\ rpc[r] = "checked"
  /\ rpc' = [rpc EXCEPT ![r] = "inside"]
  /\ view' = [view EXCEPT ![r] = readers]
  /\ UNCHANGED <<files, handles, gate, step, closed, lock, bounds, history>>

Leave(r) ==
  /\ rpc[r] = "inside"
  /\ rpc' = [rpc EXCEPT ![r] = "idle"]
  /\ view' = [view EXCEPT ![r] = Absent]
  /\ UNCHANGED <<files, handles, gate, step, closed, lock, bounds, history>>

-----------------------------------------------------------------------------
(* Db::close, and the end of the process.                                   *)

CloseBegin ==
  /\ ~closed /\ step # "down"
  /\ closed' = TRUE
  /\ UNCHANGED <<files, handles, gate, step, lock, calls, bounds, history>>

(* The writer thread drains its queue, drops its connection and is joined.  *)
WriterExits ==
  /\ closed
  /\ Goto("idle", "exited")
  /\ writer' = Absent
  /\ UNCHANGED <<files, prototype, readers, gate, closed, lock, calls, bounds, history>>

CloseHandles ==
  /\ step = "exited"
  /\ gate = "free" /\ \A r \in Readers : rpc[r] # "inside"
  /\ gate' = "close"
  /\ prototype' = Absent /\ readers' = Absent
  /\ UNCHANGED <<files, writer, step, closed, lock, calls, bounds, history>>

(* Mutant: the lock goes with the writer, before the readers are out.       *)
ReleaseLockEarly ==
  /\ step = "exited" /\ lock
  /\ lock' = FALSE
  /\ UNCHANGED <<files, handles, gate, step, closed, calls, bounds, history>>

(* The lock is released last, and close returns.                            *)
ReleaseLock ==
  /\ gate = "close" /\ lock
  /\ lock' = FALSE
  /\ UNCHANGED <<files, handles, gate, step, closed, calls, bounds, history>>

(* The process ends after close returned; the calls still in it fail.       *)
Exit ==
  /\ step = "exited" /\ ~lock
  /\ \A r \in Readers : rpc[r] # "inside"
  /\ step' = "down" /\ gate' = "free"
  /\ rpc' = [r \in Readers |-> "idle"]
  /\ UNCHANGED <<files, handles, closed, lock, view, bounds, history>>

(* The process dies: the kernel closes its files and frees the lock.  The   *)
(* scratch file has a random name and is never looked at again.             *)
Crash ==
  /\ step # "down" /\ crashes < MaxCrashes
  /\ crashes' = crashes + 1
  /\ step' = "down"
  /\ AllHandles(Absent)
  /\ gate' = "free" /\ lock' = FALSE
  /\ rpc' = [r \in Readers |-> "idle"] /\ view' = [r \in Readers |-> Absent]
  /\ staging' = Absent
  /\ outcome' = "none" /\ faults' = 0
  /\ UNCHANGED <<live, aside, closed, versions, before, served>>

(* open_with: whatever file has the name is opened, and an empty path gets  *)
(* an empty database.                                                       *)
Start ==
  /\ step = "down" /\ ~lock
  /\ step' = "idle"
  /\ lock' = TRUE /\ closed' = FALSE
  /\ live' = IF live \in {Absent, Raw} THEN Empty ELSE live
  /\ AllHandles(live')
  /\ UNCHANGED <<aside, staging, gate, calls, bounds, history>>

Shutdown == CloseBegin \/ WriterExits \/ CloseHandles \/ ReleaseLock \/ Exit

Next ==
  \/ Swap
  \/ \E r \in Readers : Check(r) \/ Enter(r) \/ Leave(r)
  \/ Shutdown
  \/ Crash
  \/ Start

Spec == Init /\ [][Next]_vars
-----------------------------------------------------------------------------
(* Properties.                                                              *)

(* A query runs on the database in service from its first row to its last:  *)
(* no handle it uses is closed or moved to another file under it (the gate  *)
(* of read and activate).                                                   *)
ReadersSeeLive ==
  \A r \in Readers :
    rpc[r] = "inside" /\ view[r] # Absent => view[r] = live /\ readers = view[r]

(* Between switches the three handles are open on one file, the one with    *)
(* the database's name, or all closed: no switch leaves the Hub reading one *)
(* database and writing another, or unable to write what it can read        *)
(* (reopen).                                                                *)
HandlesAgree ==
  step = "idle" =>
    /\ writer = prototype /\ prototype = readers
    /\ writer # Absent => writer = live

(* A switch that fails on one file operation leaves the Hub in service on   *)
(* the database it began with (the three rollbacks of activate).            *)
FailureKeepsOriginal ==
  step = "idle" /\ outcome = "failed" /\ faults <= 1 /\ before # Absent =>
    writer = before /\ live = before

(* The original is removed only once the new file is open: the version last *)
(* put in service is on disk, under the database's name or beside it, at    *)
(* every moment (activate, docs/storage.md).                                *)
ServedOnDisk == served \in {live, aside}

(* A switch that began on the version last put in service has that version  *)
(* under some name at every step, however many of its operations fail or    *)
(* wherever it crashes (the order of renames and removals in activate).     *)
SwitchKeepsServed == before = served => ServedOnDisk

(* The lock is the last thing to go: while another process could open the   *)
(* file, this one has no handle on it and no query running (close).         *)
LockCoversHandles ==
  ~lock => /\ writer = Absent /\ prototype = Absent /\ readers = Absent
           /\ \A r \in Readers : rpc[r] # "inside"
=============================================================================
