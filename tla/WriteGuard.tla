----------------------------- MODULE WriteGuard -----------------------------
(***************************************************************************)
(* The writer's relationship cache (server/src/db/mod.rs, struct Guard).   *)
(*                                                                         *)
(* The engine cannot declare the foreign keys, and checking them in SQL    *)
(* costs more than the insert.  The writer thread therefore keeps, beside  *)
(* the database, which nodes and assignments exist and the newest stamp    *)
(* filed for each, and chooses its statements from that: a report for an   *)
(* unknown node writes nothing, and a row is deleted before it is inserted *)
(* only when its stamp is not newer than the newest one.  The cache is     *)
(* changed by a job inside the transaction (stamps) or after its commit    *)
(* (nodes, assignments), and reloaded when something failed or the file    *)
(* was replaced.                                                           *)
(*                                                                         *)
(* Jobs reach the writer one at a time (WriterQueue), so a transaction is  *)
(* the only concurrency here: a telemetry batch holds several jobs, may    *)
(* fail at any of them or at the commit, and is then replayed job by job.  *)
(* A table is the set of its keys.                                         *)
(***************************************************************************)
EXTENDS Integers, FiniteSets, Sequences

CONSTANTS
  MaxNode, MaxTask,      (* bounds: the ids issued                         *)
  MaxStamp,              (* bound: the stamps of reports and results       *)
  BATCH_OPS,             (* the most jobs one transaction may carry        *)
  MAX_PROBES_PER_NODE,   (* the most probes a node may be assigned         *)
  Archives               (* what an uploaded archive may hold              *)

NodeIds == 1..MaxNode
TaskIds == 1..MaxTask
Stamps  == 1..MaxStamp
Pairs   == NodeIds \X TaskIds

(* The tables.  The counters of romi_id run ahead of every id issued.       *)
Databases ==
  [node : SUBSET NodeIds, traffic : SUBSET NodeIds,
   task : SUBSET TaskIds, assign : SUBSET Pairs,
   metric : SUBSET (NodeIds \X Stamps), metric_hour : SUBSET NodeIds,
   ping : SUBSET (NodeIds \X TaskIds \X Stamps), ping_hour : SUBSET Pairs,
   next_node : 1..(MaxNode + 1), next_task : 1..(MaxTask + 1)]

(* The cache; a stamp of 0 is a key the map does not hold.                  *)
Guards ==
  [nodes : SUBSET NodeIds, assignments : SUBSET Pairs,
   minutes : [NodeIds -> 0..MaxStamp], stamps : [Pairs -> 0..MaxStamp]]

(* A telemetry job: insert_metric, insert_ping or accumulate.               *)
TelemetryJobs ==
  [op : {"metric"}, node : NodeIds, task : {1}, ts : Stamps] \cup
  [op : {"ping"}, node : NodeIds, task : TaskIds, ts : Stamps] \cup
  [op : {"traffic"}, node : NodeIds, task : {1}, ts : {1}]

(* verify_relationships: every row names a node and a probe that exist, and *)
(* every node has its counters.                                             *)
Related(d) ==
  /\ d.traffic = d.node
  /\ \A r \in d.metric : r[1] \in d.node
  /\ d.metric_hour \subseteq d.node
  /\ \A r \in d.ping : r[1] \in d.node /\ r[2] \in d.task
  /\ \A r \in d.ping_hour : r[1] \in d.node /\ r[2] \in d.task
  /\ \A r \in d.assign : r[1] \in d.node /\ r[2] \in d.task

ASSUME GuardAssumption ==
  /\ MaxNode \in Nat \ {0} /\ MaxTask \in Nat \ {0} /\ MaxStamp \in Nat \ {0}
  /\ BATCH_OPS \in Nat \ {0} /\ MAX_PROBES_PER_NODE \in Nat
  /\ Archives \subseteq Databases

VARIABLES
  db,        (* the committed database                                     *)
  work,      (* the database as the open transaction sees it               *)
  guard,     (* Inner::guard                                               *)
  phase,     (* of the writer: no transaction, in a batch, replaying one   *)
  batch,     (* the jobs of the batch                                      *)
  poisoned,  (* history: a job failed on a key or on a missing row         *)
  misled,    (* history: the last restore could not load the cache         *)
  issued     (* history: every node and probe id a database has held       *)

vars == <<db, work, guard, phase, batch, poisoned, misled, issued>>

Ids(d) == [node |-> d.node, task |-> d.task]

TypeOK ==
  /\ db \in Databases /\ work \in Databases
  /\ guard \in Guards
  /\ phase \in {"idle", "open", "replay"}
  /\ batch \in Seq(TelemetryJobs) /\ Len(batch) <= BATCH_OPS
  /\ poisoned \in BOOLEAN /\ misled \in BOOLEAN
  /\ issued \in [node : SUBSET NodeIds, task : SUBSET TaskIds]

Empty ==
  [node |-> {}, traffic |-> {}, task |-> {}, assign |-> {}, metric |-> {}, metric_hour |-> {},
   ping |-> {}, ping_hour |-> {}, next_node |-> 1, next_task |-> 1]

-----------------------------------------------------------------------------
(* Guard.                                                                   *)

Newest(stamps) == CHOOSE s \in stamps \cup {0} : \A t \in stamps : t <= s

(* Guard::load.                                                             *)
Load(d) ==
  [nodes |-> d.node,
   assignments |-> d.assign,
   minutes |-> [n \in NodeIds |-> Newest({s \in Stamps : <<n, s>> \in d.metric})],
   stamps |-> [p \in Pairs |-> Newest({s \in Stamps : <<p[1], p[2], s>> \in d.ping})]]

(* reload_guard, over the committed database; an error leaves the cache.    *)
Reload(d, g) == guard' \in {Load(d), g}

ForgetTask(g, t) ==
  [g EXCEPT !.assignments = {p \in @ : p[2] # t},
            !.stamps = [p \in Pairs |-> IF p[2] = t THEN 0 ELSE @[p]]]

ForgetNode(g, n) ==
  [g EXCEPT !.nodes = @ \ {n},
            !.assignments = {p \in @ : p[1] # n},
            !.minutes = [g.minutes EXCEPT ![n] = 0],
            !.stamps = [p \in Pairs |-> IF p[1] = n THEN 0 ELSE @[p]]]

-----------------------------------------------------------------------------
(* The telemetry jobs.  Each takes a database and the cache to the database *)
(* and the cache it leaves; ok is false when a statement fails.             *)

Outcome(d, g, ok) == [db |-> d, guard |-> g, ok |-> ok]

Later(a, b) == IF a >= b THEN a ELSE b

(* Mutant: a report is filed whether or not its node is known.              *)
InsertMetricUnchecked(d, g, n, ts) ==
  LET kept == IF g.minutes[n] >= ts THEN d.metric \ {<<n, ts>>} ELSE d.metric
  IN  IF <<n, ts>> \in kept THEN Outcome(d, g, FALSE)
      ELSE Outcome([d EXCEPT !.metric = kept \cup {<<n, ts>>}],
                   [g EXCEPT !.minutes = [g.minutes EXCEPT ![n] = Later(g.minutes[n], ts)]], TRUE)

(* A node the cache does not know writes nothing; a minute that may have    *)
(* been written already is deleted first.                                   *)
InsertMetric(d, g, n, ts) ==
  LET kept == IF g.minutes[n] >= ts THEN d.metric \ {<<n, ts>>} ELSE d.metric
  IN  IF n \notin g.nodes THEN Outcome(d, g, TRUE)
      ELSE IF <<n, ts>> \in kept THEN Outcome(d, g, FALSE)
      ELSE Outcome([d EXCEPT !.metric = kept \cup {<<n, ts>>}],
                   [g EXCEPT !.minutes = [g.minutes EXCEPT ![n] = Later(g.minutes[n], ts)]], TRUE)

InsertPing(d, g, n, t, ts) ==
  LET kept == IF g.stamps[<<n, t>>] >= ts THEN d.ping \ {<<n, t, ts>>} ELSE d.ping
  IN  IF <<n, t>> \notin g.assignments THEN Outcome(d, g, TRUE)
      ELSE IF <<n, t, ts>> \in kept THEN Outcome(d, g, FALSE)
      ELSE Outcome([d EXCEPT !.ping = kept \cup {<<n, t, ts>>}],
                   [g EXCEPT !.stamps =
                      [g.stamps EXCEPT ![<<n, t>>] = Later(g.stamps[<<n, t>>], ts)]], TRUE)

(* The counters are updated in place: the row has to be there.              *)
Accumulate(d, g, n) ==
  IF n \notin g.nodes THEN Outcome(d, g, TRUE)
  ELSE Outcome(d, g, n \in d.node /\ n \in d.traffic)

Run(job, d, g) ==
  CASE job.op = "metric"  -> InsertMetric(d, g, job.node, job.ts)
    [] job.op = "ping"    -> InsertPing(d, g, job.node, job.task, job.ts)
    [] job.op = "traffic" -> Accumulate(d, g, job.node)

-----------------------------------------------------------------------------
(* run_batch and run_alone.                                                 *)

Begin ==
  /\ phase = "idle"
  /\ phase' = "open" /\ work' = db
  /\ UNCHANGED <<db, guard, batch, poisoned, misled, issued>>

BatchRoom == Len(batch) < BATCH_OPS

(* A job runs inside the transaction, or fails it: the batch is rolled back *)
(* and replayed.  The engine may fail a job for reasons of its own.         *)
RunJob(job) ==
  /\ phase = "open" /\ BatchRoom
  /\ batch' = Append(batch, job)
  /\ LET out == Run(job, work, guard) IN
       \/ /\ out.ok
          /\ work' = out.db /\ guard' = out.guard
          /\ UNCHANGED <<phase, poisoned>>
       \/ /\ phase' = "replay" /\ work' = db
          /\ poisoned' = (poisoned \/ (~out.ok /\ ~misled))
          /\ Reload(db, guard)
  /\ UNCHANGED <<db, misled, issued>>

Commit ==
  /\ phase = "open" /\ batch # <<>>
  /\ phase' = "idle" /\ batch' = <<>>
  /\ \/ db' = work /\ UNCHANGED <<work, guard>>
     \/ work' = db /\ UNCHANGED db /\ Reload(db, guard)
  /\ UNCHANGED <<poisoned, misled, issued>>

(* run_alone: the job's own transaction commits, or leaves nothing behind;  *)
(* the cache may have been changed by the time a commit fails.              *)
Replay ==
  /\ phase = "replay"
  /\ batch' = Tail(batch)
  /\ phase' = IF Len(batch) = 1 THEN "idle" ELSE "replay"
  /\ LET out == Run(Head(batch), db, guard) IN
       /\ poisoned' = (poisoned \/ (~out.ok /\ ~misled))
       /\ \/ out.ok /\ db' = out.db /\ guard' = out.guard
          \/ UNCHANGED db /\ Reload(db, guard)
          \/ out.ok /\ UNCHANGED db /\ Reload(db, out.guard)
  /\ work' = db'
  /\ UNCHANGED <<misled, issued>>

-----------------------------------------------------------------------------
(* The configuration jobs, each in a transaction of its own, with the cache *)
(* changed after the commit.                                                *)

Solo(d, g) ==
  /\ phase = "idle"
  /\ db' = d /\ work' = d /\ guard' = g
  /\ issued' = [node |-> issued.node \cup d.node, task |-> issued.task \cup d.task]
  /\ UNCHANGED <<phase, batch, poisoned, misled>>

(* A job that is refused or fails, and a compaction: nothing changes but    *)
(* the cache, which is loaded again.                                        *)
Refuse ==
  /\ phase = "idle"
  /\ Reload(db, guard)
  /\ UNCHANGED <<db, work, phase, batch, poisoned, misled, issued>>

CreateNode ==
  LET id == db.next_node IN
  /\ id <= MaxNode
  /\ Solo([db EXCEPT !.node = @ \cup {id}, !.traffic = @ \cup {id}, !.next_node = id + 1],
          [guard EXCEPT !.nodes = @ \cup {id}])

DeleteNode(n) ==
  Solo([db EXCEPT !.node = @ \ {n}, !.traffic = @ \ {n},
                  !.assign = {p \in @ : p[1] # n},
                  !.metric = {r \in @ : r[1] # n}, !.metric_hour = @ \ {n},
                  !.ping = {r \in @ : r[1] # n}, !.ping_hour = {p \in @ : p[1] # n}],
       ForgetNode(guard, n))

(* Mutant: the probe's stamps are forgotten with its assignments.           *)
ReassignForgets(g, t, nodes) ==
  [ForgetTask(g, t) EXCEPT !.assignments = @ \cup (nodes \X {t})]

(* Only the assignments are replaced; the stamps stay.                      *)
Reassign(g, t, nodes) ==
  [g EXCEPT !.assignments = {p \in @ : p[2] # t} \cup (nodes \X {t})]

(* save_ping_task, for a probe that exists or the next one.                 *)
SavePingTask(t, nodes) ==
  LET assign == {p \in db.assign : p[2] # t} \cup (nodes \X {t}) IN
  /\ t \in db.task \/ t = db.next_task
  /\ nodes \subseteq db.node
  /\ \A n \in NodeIds : Cardinality({p \in assign : p[1] = n}) <= MAX_PROBES_PER_NODE
  /\ Solo([db EXCEPT !.task = @ \cup {t}, !.assign = assign,
                     !.next_task = IF t \in db.task THEN @ ELSE t + 1],
          Reassign(guard, t, nodes))

DeletePingTask(t) ==
  Solo([db EXCEPT !.task = @ \ {t}, !.assign = {p \in @ : p[2] # t},
                  !.ping = {r \in @ : r[2] # t}, !.ping_hour = {p \in @ : p[2] # t}],
       ForgetTask(guard, t))

(* prune: the rows before the cutoff are folded into their hours.  The      *)
(* hours themselves are dropped after a year.                               *)
Prune(cutoff) ==
  \E old_metric \in SUBSET db.metric_hour, old_ping \in SUBSET db.ping_hour :
    Solo([db EXCEPT !.metric = {r \in @ : r[2] >= cutoff},
                    !.metric_hour = (@ \ old_metric) \cup {r[1] : r \in {q \in db.metric : q[2] < cutoff}},
                    !.ping = {r \in @ : r[3] >= cutoff},
                    !.ping_hour = (@ \ old_ping) \cup
                                  {<<r[1], r[2]>> : r \in {q \in db.ping : q[3] < cutoff}}],
         guard)

-----------------------------------------------------------------------------
(* restore.                                                                 *)

(* Mutant: the counters of the database being replaced are not carried.     *)
RestoredIdsFromArchive(a) ==
  [a EXCEPT !.next_node = Newest(a.node) + 1, !.next_task = Newest(a.task) + 1]

(* resync_ids past the archive's ids, then raise_ids to the live counters.  *)
RestoredIds(a) ==
  [a EXCEPT !.next_node = Later(Newest(a.node) + 1, db.next_node),
            !.next_task = Later(Newest(a.task) + 1, db.next_task)]

(* The archive is validated and replaces the database; the cache is loaded  *)
(* again, and if that fails it still describes the old database.            *)
Restore(a) ==
  LET d == RestoredIds(a) IN
  /\ phase = "idle"
  /\ Related(a)
  /\ db' = d /\ work' = d
  /\ \/ guard' = Load(d) /\ misled' = FALSE
     \/ UNCHANGED guard /\ misled' = TRUE
  /\ issued' = [node |-> issued.node \cup d.node, task |-> issued.task \cup d.task]
  /\ UNCHANGED <<phase, batch, poisoned>>

-----------------------------------------------------------------------------
Init ==
  /\ db = Empty /\ work = Empty
  /\ guard = Load(Empty)
  /\ phase = "idle" /\ batch = <<>>
  /\ poisoned = FALSE /\ misled = FALSE
  /\ issued = Ids(Empty)

Telemetry == Begin \/ (\E job \in TelemetryJobs : RunJob(job)) \/ Commit \/ Replay

Configure ==
  \/ Refuse
  \/ CreateNode
  \/ \E n \in NodeIds : DeleteNode(n)
  \/ \E t \in TaskIds, nodes \in SUBSET NodeIds : SavePingTask(t, nodes)
  \/ \E t \in TaskIds : DeletePingTask(t)
  \/ \E cutoff \in Stamps : Prune(cutoff)
  \/ \E a \in Archives : Restore(a)

Next == Telemetry \/ Configure

Spec == Init /\ [][Next]_vars
-----------------------------------------------------------------------------
(* Properties.                                                              *)

(* Telemetry is never refused by the database: no insert meets the key of a *)
(* row already there, and no report misses its node's counters, so one      *)
(* node's report cannot roll back the batch it shares with others.  The     *)
(* newest stamps cover every row through rollbacks, replays, pruning,       *)
(* reassignment and restores (insert_metric, insert_ping, accumulate).      *)
TelemetryNeverClashes == ~poisoned

(* No row outlives its node or its probe, whatever was in flight when they  *)
(* were deleted or the database was replaced: what foreign keys would       *)
(* guarantee holds of every committed database (delete_node,                *)
(* delete_ping_task, the guard checks of insert_metric and insert_ping).    *)
NoOrphans == ~misled => Related(db)

(* An id is issued once: a node or a probe that is created never takes the  *)
(* id of one that existed, also after a restore to a backup older than it   *)
(* (alloc_id, resync_ids, raise_ids).                                       *)
IdsAreFresh ==
  /\ \A n \in issued.node : n < db.next_node
  /\ \A t \in issued.task : t < db.next_task
=============================================================================
