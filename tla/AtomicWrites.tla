---------------------------- MODULE AtomicWrites ----------------------------
(***************************************************************************)
(* What the writer queue promises its callers (server/src/db/mod.rs),      *)
(* without queue, batches, replays or generations: a write takes effect at *)
(* one moment between its call and its return, at most once, and only in   *)
(* the database that was in service when it was called; the return says    *)
(* whether it did.                                                         *)
(***************************************************************************)
EXTENDS Naturals

CONSTANT Jobs

VARIABLES
  state,   (* of each call: idle, called, applied, returned                *)
  born,    (* the database in service when the call was made               *)
  epoch,   (* the database in service                                      *)
  told     (* what the return said: none, yes, no                          *)

vars == <<state, born, epoch, told>>

Init ==
  /\ state = [j \in Jobs |-> "idle"]
  /\ born = [j \in Jobs |-> 0]
  /\ epoch = 1
  /\ told = [j \in Jobs |-> "none"]

Call(j) ==
  /\ state[j] = "idle"
  /\ state' = [state EXCEPT ![j] = "called"]
  /\ born' = [born EXCEPT ![j] = epoch]
  /\ UNCHANGED <<epoch, told>>

(* Some calls take effect together: a transaction.                          *)
Apply(some) ==
  /\ some # {}
  /\ \A j \in some : state[j] = "called" /\ born[j] = epoch
  /\ state' = [j \in Jobs |-> IF j \in some THEN "applied" ELSE state[j]]
  /\ UNCHANGED <<born, epoch, told>>

(* A call replaces the database.                                            *)
Switch(j) ==
  /\ state[j] = "called" /\ born[j] = epoch
  /\ state' = [state EXCEPT ![j] = "applied"]
  /\ epoch' = epoch + 1
  /\ UNCHANGED <<born, told>>

Return(j) ==
  /\ state[j] \in {"called", "applied"}
  /\ state' = [state EXCEPT ![j] = "returned"]
  /\ told' = [told EXCEPT ![j] = IF state[j] = "applied" THEN "yes" ELSE "no"]
  /\ UNCHANGED <<born, epoch>>

Next ==
  \/ \E j \in Jobs : Call(j) \/ Switch(j) \/ Return(j)
  \/ \E some \in SUBSET Jobs : Apply(some)

Spec == Init /\ [][Next]_vars
=============================================================================
