-------------------------- MODULE WriteGuardProofs --------------------------
(***************************************************************************)
(* The relationship cache stands in for the foreign keys, for any number   *)
(* of nodes, probes and stamps, any batch size and any archives.           *)
(*                                                                         *)
(* The three properties rest on one relation between a database and the    *)
(* cache (Consistent): the cache knows exactly the nodes and assignments,  *)
(* and no row is newer than the stamp cached for its key.  It has to hold  *)
(* of the committed database and of the one an open transaction sees, with *)
(* the same cache: a rollback returns to the first without reloading.      *)
(***************************************************************************)
EXTENDS WriteGuard, WellFoundedInduction, TLAPS

Shape ==
  /\ db \in Databases /\ work \in Databases
  /\ guard \in Guards
  /\ phase \in {"idle", "open", "replay"}
  /\ batch \in Seq(TelemetryJobs)
  /\ poisoned \in BOOLEAN /\ misled \in BOOLEAN
  /\ issued \in [node : SUBSET NodeIds, task : SUBSET TaskIds]

(* No row of d is newer than what g has for its key.                        *)
Covers(g, d) ==
  /\ g.nodes = d.node /\ g.assignments = d.assign
  /\ \A n \in NodeIds, s \in Stamps : <<n, s>> \in d.metric => s <= g.minutes[n]
  /\ \A n \in NodeIds, t \in TaskIds, s \in Stamps :
       <<n, t, s>> \in d.ping => s <= g.stamps[<<n, t>>]

Consistent(d, g) == Related(d) /\ Covers(g, d)

(* The tables telemetry leaves alone.                                       *)
Same(d, e) ==
  /\ d.node = e.node /\ d.traffic = e.traffic /\ d.task = e.task /\ d.assign = e.assign
  /\ d.next_node = e.next_node /\ d.next_task = e.next_task

(* A transaction sees the same nodes and probes; outside one there is only  *)
(* the committed database.                                                  *)
TransactionInv ==
  /\ Same(work, db)
  /\ phase # "open" => work = db
  /\ phase = "replay" => batch # <<>>

CacheInv == ~misled => Consistent(db, guard) /\ Consistent(work, guard)

HistoryInv == db.node \subseteq issued.node /\ db.task \subseteq issued.task

IInv ==
  Shape /\ TransactionInv /\ CacheInv /\ HistoryInv /\ IdsAreFresh /\ TelemetryNeverClashes

-----------------------------------------------------------------------------
(* A set of naturals has a least, and a bounded one a greatest element.     *)
LEMMA LeastNatural ==
  ASSUME NEW T, T \subseteq Nat, T # {}
  PROVE  \E x \in T : \A y \in T : x <= y
<1> DEFINE R == {ss \in Nat \X Nat : ss[1] < ss[2]}
<1>1. IsWellFoundedOn(R, Nat)
  BY NatLessThanWellFounded DEF OpToRel
<1>2. PICK x \in T : \A y \in T : ~(<<y, x>> \in R)
  <2> HIDE DEF R
  <2> QED BY <1>1, WFMin
<1>3. ASSUME NEW y \in T PROVE x <= y
  <2>1. x \in Nat /\ y \in Nat
    OBVIOUS
  <2>2. y < x => <<y, x>> \in R
    BY <2>1
  <2>3. ~(y < x)
    BY <1>2, <2>2
  <2> QED BY <2>1, <2>3
<1> QED BY <1>3

LEMMA NewestIsUpper ==
  ASSUME NEW m \in Nat, NEW S, S \subseteq 1..m
  PROVE  Newest(S) \in 0..m /\ Newest(S) \in S \cup {0} /\ \A t \in S : t <= Newest(S)
<1> DEFINE T == {m - s : s \in S \cup {0}}
<1>1. T \subseteq Nat /\ T # {}
  OBVIOUS
<1>2. PICK x \in T : \A y \in T : x <= y
  BY <1>1, LeastNatural
<1>3. PICK s \in S \cup {0} : x = m - s
  BY <1>2
<1>4. \A t \in S : t <= s
  <2> SUFFICES ASSUME NEW t \in S PROVE t <= s
    OBVIOUS
  <2>1. m - t \in T
    OBVIOUS
  <2>2. m - s <= m - t
    BY <1>2, <1>3, <2>1
  <2>3. s \in Int /\ t \in Int /\ m \in Int
    OBVIOUS
  <2> QED BY <2>2, <2>3
<1>5. \E r \in S \cup {0} : \A t \in S : t <= r
  BY <1>4
<1>6. Newest(S) \in S \cup {0} /\ \A t \in S : t <= Newest(S)
  BY <1>5 DEF Newest
<1>7. ASSUME NEW r, r \in S \cup {0} PROVE r \in 0..m
  BY <1>7
<1> QED BY <1>6, <1>7
-----------------------------------------------------------------------------
(* Guard::load.                                                             *)
LEMMA LoadCovers ==
  ASSUME NEW d \in Databases
  PROVE  Load(d) \in Guards /\ Covers(Load(d), d)
<1> DEFINE M(n) == {s \in Stamps : <<n, s>> \in d.metric}
           P(p) == {s \in Stamps : <<p[1], p[2], s>> \in d.ping}
           mm == [n \in NodeIds |-> Newest(M(n))]
           ss == [p \in Pairs |-> Newest(P(p))]
<1>1. MaxStamp \in Nat
  BY GuardAssumption
<1>2. ASSUME NEW n \in NodeIds
      PROVE  Newest(M(n)) \in 0..MaxStamp /\ \A t \in M(n) : t <= Newest(M(n))
  <2>1. M(n) \subseteq 1..MaxStamp
    BY DEF Stamps
  <2> QED BY <1>1, <2>1, NewestIsUpper
<1>3. ASSUME NEW p \in Pairs
      PROVE  Newest(P(p)) \in 0..MaxStamp /\ \A t \in P(p) : t <= Newest(P(p))
  <2>1. P(p) \subseteq 1..MaxStamp
    BY DEF Stamps
  <2> QED BY <1>1, <2>1, NewestIsUpper
<1>4. mm \in [NodeIds -> 0..MaxStamp] /\ ss \in [Pairs -> 0..MaxStamp]
  BY <1>2, <1>3
<1>5. Load(d) = [nodes |-> d.node, assignments |-> d.assign, minutes |-> mm, stamps |-> ss]
  BY DEF Load
<1>6. ASSUME NEW n \in NodeIds, NEW s \in Stamps, <<n, s>> \in d.metric
      PROVE  s <= mm[n]
  BY <1>2, <1>6
<1>7. ASSUME NEW n \in NodeIds, NEW t \in TaskIds, NEW s \in Stamps, <<n, t, s>> \in d.ping
      PROVE  s <= ss[<<n, t>>]
  <2>1. PICK p \in Pairs : p = <<n, t>>
    BY DEF Pairs
  <2>2. s \in P(p)
    BY <1>7, <2>1
  <2>3. ss[p] = Newest(P(p))
    OBVIOUS
  <2> QED BY <1>3, <2>1, <2>2, <2>3
<1> HIDE DEF mm, ss
<1>8. d.node \subseteq NodeIds /\ d.assign \subseteq Pairs
  BY DEF Databases
<1>9. Load(d) \in Guards
  BY <1>4, <1>5, <1>8 DEF Guards
<1>10. Covers(Load(d), d)
  BY <1>5, <1>6, <1>7 DEF Covers
<1> QED BY <1>9, <1>10

(* What a telemetry job leaves: the same nodes and probes, stamps that only *)
(* grow, and a consistent pair wherever it met one, which cannot fail it.   *)
Good(out, d, g) ==
  /\ out.db \in Databases /\ out.guard \in Guards
  /\ Same(out.db, d)
  /\ out.guard.nodes = g.nodes /\ out.guard.assignments = g.assignments
  /\ \A n \in NodeIds : g.minutes[n] <= out.guard.minutes[n]
  /\ \A p \in Pairs : g.stamps[p] <= out.guard.stamps[p]
  /\ Consistent(d, g) => out.ok /\ Consistent(out.db, out.guard)

LEMMA NothingIsGood ==
  ASSUME NEW d \in Databases, NEW g \in Guards, NEW ok, Consistent(d, g) => ok
  PROVE  Good(Outcome(d, g, ok), d, g)
<1>1. \A n \in NodeIds : g.minutes[n] \in Int
  BY DEF Guards
<1>2. \A p \in Pairs : g.stamps[p] \in Int
  BY DEF Guards
<1>3. \A i \in Int : i <= i
  OBVIOUS
<1> QED BY <1>1, <1>2, <1>3 DEF Good, Outcome, Same

LEMMA MetricIsGood ==
  ASSUME NEW d \in Databases, NEW g \in Guards, NEW n \in NodeIds, NEW ts \in Stamps
  PROVE  Good(InsertMetric(d, g, n, ts), d, g)
<1> DEFINE kept == IF g.minutes[n] >= ts THEN d.metric \ {<<n, ts>>} ELSE d.metric
<1>1. CASE n \notin g.nodes
  BY <1>1, NothingIsGood DEF InsertMetric
<1>2. CASE n \in g.nodes /\ <<n, ts>> \in kept
  <2>1. ~Consistent(d, g)
    <3>1. ~(g.minutes[n] >= ts) /\ <<n, ts>> \in d.metric
      BY <1>2
    <3>2. g.minutes[n] \in Int /\ ts \in Int
      BY DEF Guards, Stamps
    <3> QED BY <3>1, <3>2 DEF Consistent, Covers
  <2> QED BY <1>2, <2>1, NothingIsGood DEF InsertMetric
<1>3. CASE n \in g.nodes /\ <<n, ts>> \notin kept
  <2> DEFINE e == [d EXCEPT !.metric = kept \cup {<<n, ts>>}]
             l == Later(g.minutes[n], ts)
             mm == [g.minutes EXCEPT ![n] = l]
             h == [g EXCEPT !.minutes = mm]
  <2>1. InsertMetric(d, g, n, ts) = [db |-> e, guard |-> h, ok |-> TRUE]
    BY <1>3 DEF InsertMetric, Outcome
  <2>2. g.minutes \in [NodeIds -> 0..MaxStamp] /\ ts \in 1..MaxStamp /\ MaxStamp \in Nat
    BY GuardAssumption DEF Guards, Stamps
  <2>3. l \in 0..MaxStamp /\ g.minutes[n] <= l /\ ts <= l
    BY <2>2 DEF Later
  <2> HIDE DEF l
  <2>4. mm \in [NodeIds -> 0..MaxStamp] /\ mm[n] = l
        /\ \A k \in NodeIds : g.minutes[k] <= mm[k]
    BY <2>2, <2>3
  <2>5. kept \cup {<<n, ts>>} \subseteq NodeIds \X Stamps
    BY DEF Databases
  <2>6. kept \subseteq d.metric
    OBVIOUS
  <2> HIDE DEF kept
  <2>7. e \in Databases /\ Same(e, d) /\ e.metric = kept \cup {<<n, ts>>}
        /\ e.metric_hour = d.metric_hour /\ e.ping = d.ping /\ e.ping_hour = d.ping_hour
    BY <2>5 DEF Databases, Same
  <2> HIDE DEF mm
  <2>8. h \in Guards /\ h.nodes = g.nodes /\ h.assignments = g.assignments
        /\ h.minutes = mm /\ h.stamps = g.stamps
    BY <2>4 DEF Guards
  <2>9. \A p \in Pairs : g.stamps[p] \in Int /\ g.stamps[p] <= h.stamps[p]
    BY <2>8 DEF Guards
  <2> HIDE DEF e, h
  <2>10. ASSUME Consistent(d, g) PROVE Related(e)
    <3>1. Related(d) /\ n \in d.node
      BY <1>3, <2>10 DEF Consistent, Covers
    <3> QED BY <2>6, <2>7, <3>1 DEF Related, Same
  <2>11. ASSUME Consistent(d, g) PROVE Covers(h, e)
    <3>1. Covers(g, d)
      BY <2>11 DEF Consistent
    <3>2. ASSUME NEW k \in NodeIds, NEW s \in Stamps, <<k, s>> \in e.metric
          PROVE  s <= h.minutes[k]
      <4>1. CASE <<k, s>> = <<n, ts>>
        BY <2>3, <2>4, <2>8, <4>1
      <4>2. CASE <<k, s>> \in d.metric
        <5>1. s <= g.minutes[k] /\ g.minutes[k] <= mm[k]
          BY <2>4, <3>1, <4>2 DEF Covers
        <5>2. s \in Int /\ g.minutes[k] \in Int /\ mm[k] \in Int
          BY <2>2, <2>4 DEF Stamps
        <5> QED BY <2>8, <5>1, <5>2
      <4> QED BY <2>6, <2>7, <3>2, <4>1, <4>2
    <3> QED BY <2>7, <2>8, <3>1, <3>2 DEF Covers, Same
  <2> QED BY <2>1, <2>4, <2>7, <2>8, <2>9, <2>10, <2>11 DEF Good, Consistent
<1> QED BY <1>1, <1>2, <1>3

LEMMA PingIsGood ==
  ASSUME NEW d \in Databases, NEW g \in Guards, NEW n \in NodeIds, NEW t \in TaskIds,
         NEW ts \in Stamps
  PROVE  Good(InsertPing(d, g, n, t, ts), d, g)
<1> DEFINE p == <<n, t>>
           kept == IF g.stamps[p] >= ts THEN d.ping \ {<<n, t, ts>>} ELSE d.ping
<1>1. CASE p \notin g.assignments
  BY <1>1, NothingIsGood DEF InsertPing
<1>2. CASE p \in g.assignments /\ <<n, t, ts>> \in kept
  <2>1. ~Consistent(d, g)
    <3>1. ~(g.stamps[p] >= ts) /\ <<n, t, ts>> \in d.ping
      BY <1>2
    <3>2. g.stamps[p] \in Int /\ ts \in Int
      BY DEF Guards, Stamps, Pairs
    <3> QED BY <3>1, <3>2 DEF Consistent, Covers
  <2> QED BY <1>2, <2>1, NothingIsGood DEF InsertPing
<1>3. CASE p \in g.assignments /\ <<n, t, ts>> \notin kept
  <2> DEFINE e == [d EXCEPT !.ping = kept \cup {<<n, t, ts>>}]
             l == Later(g.stamps[p], ts)
             ss == [g.stamps EXCEPT ![p] = l]
             h == [g EXCEPT !.stamps = ss]
  <2>1. InsertPing(d, g, n, t, ts) = [db |-> e, guard |-> h, ok |-> TRUE]
    BY <1>3 DEF InsertPing, Outcome
  <2>2. /\ g.stamps \in [Pairs -> 0..MaxStamp] /\ ts \in 1..MaxStamp /\ MaxStamp \in Nat
        /\ p \in Pairs
    BY GuardAssumption DEF Guards, Stamps, Pairs
  <2>3. l \in 0..MaxStamp /\ g.stamps[p] <= l /\ ts <= l
    BY <2>2 DEF Later
  <2> HIDE DEF l
  <2>4. ss \in [Pairs -> 0..MaxStamp] /\ ss[p] = l
        /\ \A k \in Pairs : g.stamps[k] <= ss[k]
    <3> HIDE DEF p
    <3> QED BY <2>2, <2>3
  <2>5. kept \cup {<<n, t, ts>>} \subseteq NodeIds \X TaskIds \X Stamps
    BY DEF Databases
  <2>6. kept \subseteq d.ping
    OBVIOUS
  <2> HIDE DEF kept
  <2>7. e \in Databases /\ Same(e, d) /\ e.ping = kept \cup {<<n, t, ts>>}
        /\ e.metric_hour = d.metric_hour /\ e.metric = d.metric /\ e.ping_hour = d.ping_hour
    BY <2>5 DEF Databases, Same
  <2> HIDE DEF ss
  <2>8. h \in Guards /\ h.nodes = g.nodes /\ h.assignments = g.assignments
        /\ h.stamps = ss /\ h.minutes = g.minutes
    BY <2>4 DEF Guards
  <2>9. \A k \in NodeIds : g.minutes[k] \in Int /\ g.minutes[k] <= h.minutes[k]
    BY <2>8 DEF Guards
  <2> HIDE DEF e, h
  <2>10. ASSUME Consistent(d, g) PROVE Related(e)
    <3>1. Related(d) /\ n \in d.node /\ t \in d.task
      BY <1>3, <2>10 DEF Consistent, Covers, Related
    <3> QED BY <2>6, <2>7, <3>1 DEF Related, Same
  <2>11. ASSUME Consistent(d, g) PROVE Covers(h, e)
    <3>1. Covers(g, d)
      BY <2>11 DEF Consistent
    <3>2. ASSUME NEW k \in NodeIds, NEW u \in TaskIds, NEW s \in Stamps, <<k, u, s>> \in e.ping
          PROVE  s <= h.stamps[<<k, u>>]
      <4>1. CASE <<k, u, s>> = <<n, t, ts>>
        BY <2>3, <2>4, <2>8, <4>1
      <4>2. CASE <<k, u, s>> \in d.ping
        <5>1. PICK q \in Pairs : q = <<k, u>>
          BY DEF Pairs
        <5>2. s <= g.stamps[q] /\ g.stamps[q] <= ss[q]
          BY <2>4, <3>1, <4>2, <5>1 DEF Covers
        <5>3. s \in Int /\ g.stamps[q] \in Int /\ ss[q] \in Int
          BY <2>2, <2>4 DEF Stamps
        <5> QED BY <2>8, <5>1, <5>2, <5>3
      <4> QED BY <2>6, <2>7, <3>2, <4>1, <4>2
    <3> QED BY <2>7, <2>8, <3>1, <3>2 DEF Covers, Same
  <2> QED BY <2>1, <2>4, <2>7, <2>8, <2>9, <2>10, <2>11 DEF Good, Consistent
<1> QED BY <1>1, <1>2, <1>3

LEMMA TrafficIsGood ==
  ASSUME NEW d \in Databases, NEW g \in Guards, NEW n \in NodeIds
  PROVE  Good(Accumulate(d, g, n), d, g)
<1>1. CASE n \notin g.nodes
  BY <1>1, NothingIsGood DEF Accumulate
<1>2. CASE n \in g.nodes
  <2>1. Consistent(d, g) => n \in d.node /\ n \in d.traffic
    BY <1>2 DEF Consistent, Covers, Related
  <2> QED BY <1>2, <2>1, NothingIsGood DEF Accumulate
<1> QED BY <1>1, <1>2

LEMMA RunIsGood ==
  ASSUME NEW d \in Databases, NEW g \in Guards, NEW job \in TelemetryJobs
  PROVE  Good(Run(job, d, g), d, g)
<1>1. CASE job \in [op : {"metric"}, node : NodeIds, task : {1}, ts : Stamps]
  <2>1. Run(job, d, g) = InsertMetric(d, g, job.node, job.ts)
    BY <1>1 DEF Run
  <2> QED BY <1>1, <2>1, MetricIsGood
<1>2. CASE job \in [op : {"ping"}, node : NodeIds, task : TaskIds, ts : Stamps]
  <2>1. Run(job, d, g) = InsertPing(d, g, job.node, job.task, job.ts)
    BY <1>2 DEF Run
  <2> QED BY <1>2, <2>1, PingIsGood
<1>3. CASE job \in [op : {"traffic"}, node : NodeIds, task : {1}, ts : {1}]
  <2>1. Run(job, d, g) = Accumulate(d, g, job.node)
    BY <1>3 DEF Run
  <2> QED BY <1>3, <2>1, TrafficIsGood
<1> QED BY <1>1, <1>2, <1>3 DEF TelemetryJobs

(* A cache whose stamps have grown still covers what it covered.            *)
LEMMA GrownCovers ==
  ASSUME NEW d \in Databases, NEW g \in Guards, NEW out, NEW e \in Databases,
         Good(out, d, g), Consistent(e, g)
  PROVE  Consistent(e, out.guard)
<1> DEFINE h == out.guard
<1>1. h \in Guards
  BY DEF Good
<1>2. ASSUME NEW n \in NodeIds, NEW s \in Stamps, <<n, s>> \in e.metric
      PROVE  s <= h.minutes[n]
  <2>1. s <= g.minutes[n] /\ g.minutes[n] <= h.minutes[n]
    BY <1>2 DEF Consistent, Covers, Good
  <2>2. s \in Int /\ g.minutes[n] \in Int /\ h.minutes[n] \in Int
    BY <1>1 DEF Stamps, Guards
  <2> QED BY <2>1, <2>2
<1>3. ASSUME NEW n \in NodeIds, NEW t \in TaskIds, NEW s \in Stamps, <<n, t, s>> \in e.ping
      PROVE  s <= h.stamps[<<n, t>>]
  <2>1. PICK p \in Pairs : p = <<n, t>>
    BY DEF Pairs
  <2>2. s <= g.stamps[p] /\ g.stamps[p] <= h.stamps[p]
    BY <1>3, <2>1 DEF Consistent, Covers, Good
  <2>3. s \in Int /\ g.stamps[p] \in Int /\ h.stamps[p] \in Int
    BY <1>1 DEF Stamps, Guards
  <2> QED BY <2>1, <2>2, <2>3
<1>4. h.nodes = e.node /\ h.assignments = e.assign
  BY DEF Consistent, Covers, Good
<1> QED BY <1>2, <1>3, <1>4 DEF Consistent, Covers

-----------------------------------------------------------------------------
(* run_batch and run_alone.                                                 *)

(* reload_guard gives a cache as consistent as the one there.               *)
LEMMA ReloadKeeps ==
  ASSUME NEW d \in Databases, NEW g \in Guards, Reload(d, g)
  PROVE  guard' \in Guards /\ (Consistent(d, g) => Consistent(d, guard'))
<1>1. guard' = Load(d) \/ guard' = g
  BY DEF Reload
<1> QED BY <1>1, LoadCovers DEF Consistent

LEMMA BeginKeeps ==
  ASSUME IInv, Begin
  PROVE  IInv'
BY DEF Begin, IInv, Shape, TransactionInv, CacheInv, HistoryInv, Same, IdsAreFresh,
       TelemetryNeverClashes

LEMMA RunJobKeeps ==
  ASSUME IInv, NEW job \in TelemetryJobs, RunJob(job)
  PROVE  IInv'
<1> DEFINE out == Run(job, work, guard)
<1>1. Shape /\ TransactionInv /\ CacheInv
  BY DEF IInv
<1>2. Good(out, work, guard)
  BY <1>1, RunIsGood DEF Shape
<1>3. UNCHANGED <<db, misled, issued>> /\ phase = "open" /\ batch' = Append(batch, job)
  BY DEF RunJob
<1>4. batch' \in Seq(TelemetryJobs) /\ batch' # <<>>
  BY <1>1, <1>3 DEF Shape
<1>5. CASE out.ok /\ work' = out.db /\ guard' = out.guard /\ UNCHANGED <<phase, poisoned>>
  <2> HIDE DEF out
  <2>1. Shape'
    BY <1>1, <1>2, <1>3, <1>4, <1>5 DEF Shape, Good
  <2>2. Same(work', db)
    BY <1>1, <1>2, <1>5 DEF TransactionInv, Good, Same
  <2>3. ~misled => Consistent(db, guard')
    BY <1>1, <1>2, <1>5, GrownCovers DEF CacheInv, Shape
  <2>4. ~misled => Consistent(work', guard')
    BY <1>1, <1>2, <1>5 DEF CacheInv, Good
  <2>5. TransactionInv' /\ CacheInv'
    BY <1>3, <1>5, <2>2, <2>3, <2>4 DEF TransactionInv, CacheInv
  <2>6. (HistoryInv /\ IdsAreFresh /\ TelemetryNeverClashes)'
    BY <1>3, <1>5 DEF IInv, HistoryInv, IdsAreFresh, TelemetryNeverClashes
  <2> QED BY <2>1, <2>5, <2>6 DEF IInv
<1>6. CASE /\ phase' = "replay" /\ work' = db
           /\ poisoned' = (poisoned \/ (~out.ok /\ ~misled))
           /\ Reload(db, guard)
  <2>1. ~misled => out.ok
    BY <1>1, <1>2 DEF CacheInv, Good
  <2> HIDE DEF out
  <2>2. ~poisoned'
    BY <1>6, <2>1 DEF IInv, TelemetryNeverClashes
  <2>3. guard' \in Guards /\ (~misled => Consistent(db, guard'))
    BY <1>1, <1>6, ReloadKeeps DEF Shape, CacheInv
  <2>4. Shape'
    BY <1>1, <1>3, <1>4, <1>6, <2>2, <2>3 DEF Shape
  <2>5. TransactionInv' /\ CacheInv'
    BY <1>3, <1>4, <1>6, <2>3 DEF TransactionInv, CacheInv, Same
  <2>6. (HistoryInv /\ IdsAreFresh /\ TelemetryNeverClashes)'
    BY <1>3, <2>2 DEF IInv, HistoryInv, IdsAreFresh, TelemetryNeverClashes
  <2> QED BY <2>4, <2>5, <2>6 DEF IInv
<1> QED BY <1>5, <1>6 DEF RunJob

LEMMA CommitKeeps ==
  ASSUME IInv, Commit
  PROVE  IInv'
<1>1. Shape /\ TransactionInv /\ CacheInv /\ HistoryInv /\ IdsAreFresh
  BY DEF IInv
<1>2. UNCHANGED <<poisoned, misled, issued>> /\ phase' = "idle" /\ batch' = <<>>
  BY DEF Commit
<1>3. CASE db' = work /\ UNCHANGED <<work, guard>>
  <2>1. Shape'
    BY <1>1, <1>2, <1>3 DEF Shape
  <2>2. TransactionInv' /\ CacheInv'
    BY <1>1, <1>2, <1>3 DEF TransactionInv, CacheInv, Same
  <2>3. db'.node = db.node /\ db'.task = db.task
        /\ db'.next_node = db.next_node /\ db'.next_task = db.next_task
    BY <1>1, <1>3 DEF TransactionInv, Same
  <2>4. (HistoryInv /\ IdsAreFresh /\ TelemetryNeverClashes)'
    BY <1>1, <1>2, <2>3 DEF IInv, HistoryInv, IdsAreFresh, TelemetryNeverClashes
  <2> QED BY <2>1, <2>2, <2>4 DEF IInv
<1>4. CASE work' = db /\ UNCHANGED db /\ Reload(db, guard)
  <2>1. guard' \in Guards /\ (~misled => Consistent(db, guard'))
    BY <1>1, <1>4, ReloadKeeps DEF Shape, CacheInv
  <2>2. Shape'
    BY <1>1, <1>2, <1>4, <2>1 DEF Shape
  <2>3. TransactionInv' /\ CacheInv'
    BY <1>2, <1>4, <2>1 DEF TransactionInv, CacheInv, Same
  <2>4. (HistoryInv /\ IdsAreFresh /\ TelemetryNeverClashes)'
    BY <1>1, <1>2, <1>4 DEF IInv, HistoryInv, IdsAreFresh, TelemetryNeverClashes
  <2> QED BY <2>2, <2>3, <2>4 DEF IInv
<1> QED BY <1>3, <1>4 DEF Commit

LEMMA ReplayKeeps ==
  ASSUME IInv, Replay
  PROVE  IInv'
<1> DEFINE out == Run(Head(batch), db, guard)
<1>1. Shape /\ TransactionInv /\ CacheInv /\ HistoryInv /\ IdsAreFresh
  BY DEF IInv
<1>2. /\ UNCHANGED <<misled, issued>> /\ batch' = Tail(batch) /\ work' = db'
      /\ phase' = IF Len(batch) = 1 THEN "idle" ELSE "replay"
      /\ phase = "replay" /\ batch # <<>>
  BY <1>1 DEF Replay, TransactionInv
<1>3. Head(batch) \in TelemetryJobs /\ batch' \in Seq(TelemetryJobs)
      /\ (phase' = "replay" => batch' # <<>>)
  <2>1. batch \in Seq(TelemetryJobs) /\ Len(batch) \in Nat \ {0}
    BY <1>1, <1>2 DEF Shape
  <2>2. Head(batch) \in TelemetryJobs /\ batch' \in Seq(TelemetryJobs)
        /\ Len(batch') = Len(batch) - 1
    BY <1>2, <2>1
  <2>3. phase' = "replay" => Len(batch') # 0
    BY <1>2, <2>1, <2>2
  <2>4. batch' = <<>> => Len(batch') = 0
    OBVIOUS
  <2> QED BY <2>2, <2>3, <2>4
<1>4. Good(out, db, guard)
  BY <1>1, <1>3, RunIsGood DEF Shape
<1>5. ~misled => out.ok
  BY <1>1, <1>4 DEF CacheInv, Good
<1>6. poisoned' = FALSE
  BY <1>5 DEF Replay, IInv, Shape, TelemetryNeverClashes
<1>7. /\ db' \in Databases /\ guard' \in Guards /\ Same(db', db)
      /\ ~misled => Consistent(db', guard')
  <2>1. CASE out.ok /\ db' = out.db /\ guard' = out.guard
    BY <1>1, <1>4, <2>1 DEF Good, CacheInv
  <2>2. CASE UNCHANGED db /\ Reload(db, guard)
    BY <1>1, <2>2, ReloadKeeps DEF Shape, CacheInv, Same
  <2>3. CASE out.ok /\ UNCHANGED db /\ Reload(db, out.guard)
    <3> HIDE DEF out
    <3>1. out.guard \in Guards /\ (~misled => Consistent(db, out.guard))
      BY <1>1, <1>4, GrownCovers DEF Shape, CacheInv, Good
    <3>2. guard' \in Guards /\ (Consistent(db, out.guard) => Consistent(db, guard'))
      BY <1>1, <2>3, <3>1, ReloadKeeps DEF Shape
    <3> QED BY <1>1, <2>3, <3>1, <3>2 DEF Shape, Same
  <2> QED BY <2>1, <2>2, <2>3 DEF Replay
<1> HIDE DEF out
<1>8. Shape'
  BY <1>1, <1>2, <1>3, <1>6, <1>7 DEF Shape
<1>9. TransactionInv' /\ CacheInv'
  BY <1>2, <1>3, <1>7 DEF TransactionInv, CacheInv, Same
<1>10. (HistoryInv /\ IdsAreFresh /\ TelemetryNeverClashes)'
  BY <1>1, <1>2, <1>6, <1>7 DEF HistoryInv, IdsAreFresh, TelemetryNeverClashes, Same
<1> QED BY <1>8, <1>9, <1>10 DEF IInv

-----------------------------------------------------------------------------
(* The configuration jobs.                                                  *)

LEMMA RefuseKeeps ==
  ASSUME IInv, Refuse
  PROVE  IInv'
<1>1. Shape /\ TransactionInv /\ CacheInv
  BY DEF IInv
<1>2. UNCHANGED <<db, work, phase, batch, poisoned, misled, issued>> /\ work = db
  BY <1>1 DEF Refuse, TransactionInv
<1>3. guard' \in Guards /\ (~misled => Consistent(db, guard'))
  BY <1>1, ReloadKeeps DEF Refuse, Shape, CacheInv
<1>4. Shape' /\ TransactionInv' /\ CacheInv'
  BY <1>1, <1>2, <1>3 DEF Shape, TransactionInv, CacheInv, Same
<1>5. (HistoryInv /\ IdsAreFresh /\ TelemetryNeverClashes)'
  BY <1>2 DEF IInv, HistoryInv, IdsAreFresh, TelemetryNeverClashes
<1> QED BY <1>4, <1>5 DEF IInv

(* Ids are issued from the counters only.                                   *)
Issues(d) ==
  /\ \A n \in db.node \cup d.node : n < d.next_node
  /\ \A t \in db.task \cup d.task : t < d.next_task
  /\ db.next_node <= d.next_node /\ db.next_task <= d.next_task

(* A job with a transaction of its own, given what it does to the tables    *)
(* and to the cache.                                                        *)
LEMMA SoloKeeps ==
  ASSUME IInv, NEW d \in Databases, NEW g \in Guards, Solo(d, g), Issues(d),
         Consistent(db, guard) => Consistent(d, g)
  PROVE  IInv'
<1>1. Shape /\ CacheInv /\ HistoryInv /\ IdsAreFresh
  BY DEF IInv
<1>2. /\ db' = d /\ work' = d /\ guard' = g
      /\ issued' = [node |-> issued.node \cup d.node, task |-> issued.task \cup d.task]
      /\ UNCHANGED <<phase, batch, poisoned, misled>> /\ phase = "idle"
  BY DEF Solo
<1>3. issued'.node = issued.node \cup d.node /\ issued'.task = issued.task \cup d.task
      /\ issued' \in [node : SUBSET NodeIds, task : SUBSET TaskIds]
  BY <1>1, <1>2 DEF Shape, Databases
<1>4. Shape'
  BY <1>1, <1>2, <1>3 DEF Shape
<1>5. TransactionInv' /\ CacheInv'
  BY <1>1, <1>2 DEF TransactionInv, CacheInv, Same
<1>6. HistoryInv' /\ TelemetryNeverClashes'
  BY <1>2, <1>3 DEF IInv, HistoryInv, TelemetryNeverClashes
<1>7. IdsAreFresh'
  <2>1. ASSUME NEW n \in issued'.node PROVE n < d.next_node
    <3>1. n \in Int /\ db.next_node \in Int /\ d.next_node \in Int
      BY <1>1, <1>3, GuardAssumption DEF Shape, Databases, NodeIds
    <3>2. n \in issued.node => n < db.next_node
      BY <1>1 DEF IdsAreFresh
    <3> QED BY <1>3, <3>1, <3>2 DEF Issues
  <2>2. ASSUME NEW t \in issued'.task PROVE t < d.next_task
    <3>1. t \in Int /\ db.next_task \in Int /\ d.next_task \in Int
      BY <1>1, <1>3, GuardAssumption DEF Shape, Databases, TaskIds
    <3>2. t \in issued.task => t < db.next_task
      BY <1>1 DEF IdsAreFresh
    <3> QED BY <1>3, <3>1, <3>2 DEF Issues
  <2> QED BY <1>2, <2>1, <2>2 DEF IdsAreFresh
<1> QED BY <1>4, <1>5, <1>6, <1>7 DEF IInv

(* A job that issues no id.                                                 *)
LEMMA IssuesNothing ==
  ASSUME IInv, NEW d, d.node \subseteq db.node, d.task \subseteq db.task,
         d.next_node = db.next_node, d.next_task = db.next_task
  PROVE  Issues(d)
<1>1. \A n \in db.node : n < db.next_node
  BY DEF IInv, HistoryInv, IdsAreFresh
<1>2. \A t \in db.task : t < db.next_task
  BY DEF IInv, HistoryInv, IdsAreFresh
<1>3. db.next_node \in Int /\ db.next_task \in Int
  BY DEF IInv, Shape, Databases
<1> QED BY <1>1, <1>2, <1>3 DEF Issues

LEMMA CreateNodeKeeps ==
  ASSUME IInv, CreateNode
  PROVE  IInv'
<1> DEFINE id == db.next_node
           d == [db EXCEPT !.node = @ \cup {id}, !.traffic = @ \cup {id}, !.next_node = id + 1]
           g == [guard EXCEPT !.nodes = @ \cup {id}]
<1>1. db \in Databases /\ guard \in Guards /\ id <= MaxNode /\ Solo(d, g)
  BY DEF IInv, Shape, CreateNode
<1>2. id \in NodeIds /\ id + 1 \in 1..(MaxNode + 1) /\ id \in Int
  BY <1>1, GuardAssumption DEF Databases, NodeIds
<1> HIDE DEF id
<1>3. /\ d \in Databases
      /\ d.node = db.node \cup {id} /\ d.traffic = db.traffic \cup {id}
      /\ d.task = db.task /\ d.assign = db.assign
      /\ d.metric = db.metric /\ d.metric_hour = db.metric_hour
      /\ d.ping = db.ping /\ d.ping_hour = db.ping_hour
      /\ d.next_node = id + 1 /\ d.next_task = db.next_task
  BY <1>1, <1>2 DEF Databases
<1>4. /\ g \in Guards /\ g.nodes = guard.nodes \cup {id} /\ g.assignments = guard.assignments
      /\ g.minutes = guard.minutes /\ g.stamps = guard.stamps
  BY <1>1, <1>2 DEF Guards
<1> HIDE DEF d, g
<1>5. Consistent(db, guard) => Consistent(d, g)
  BY <1>3, <1>4 DEF Consistent, Covers, Related
<1>6. Issues(d)
  <2>1. \A n \in db.node : n < id /\ n \in Int
    BY <1>1 DEF IInv, HistoryInv, IdsAreFresh, id, Databases, NodeIds
  <2>2. \A t \in db.task : t < db.next_task
    BY DEF IInv, HistoryInv, IdsAreFresh
  <2>3. db.next_task \in Int
    BY <1>1 DEF Databases
  <2>4. \A n \in db.node \cup {id} : n < id + 1
    BY <1>2, <2>1
  <2> QED BY <1>2, <1>3, <2>1, <2>2, <2>3, <2>4 DEF Issues, id
<1> QED BY <1>1, <1>3, <1>4, <1>5, <1>6, SoloKeeps

(* The rows of a node go with it, and so does what the cache has of it.     *)
LEMMA DeleteNodeKeeps ==
  ASSUME IInv, NEW n \in NodeIds, DeleteNode(n)
  PROVE  IInv'
<1> DEFINE d == [db EXCEPT !.node = @ \ {n}, !.traffic = @ \ {n},
                           !.assign = {p \in @ : p[1] # n},
                           !.metric = {r \in @ : r[1] # n}, !.metric_hour = @ \ {n},
                           !.ping = {r \in @ : r[1] # n}, !.ping_hour = {p \in @ : p[1] # n}]
           g == ForgetNode(guard, n)
<1>1. db \in Databases /\ guard \in Guards /\ Solo(d, g)
  BY DEF IInv, Shape, DeleteNode
<1>2. /\ d \in Databases
      /\ d.node = db.node \ {n} /\ d.traffic = db.traffic \ {n}
      /\ d.task = db.task /\ d.assign = {p \in db.assign : p[1] # n}
      /\ d.metric = {r \in db.metric : r[1] # n} /\ d.metric_hour = db.metric_hour \ {n}
      /\ d.ping = {r \in db.ping : r[1] # n} /\ d.ping_hour = {p \in db.ping_hour : p[1] # n}
      /\ d.next_node = db.next_node /\ d.next_task = db.next_task
  BY <1>1 DEF Databases
<1> DEFINE mm == [guard.minutes EXCEPT ![n] = 0]
           ss == [p \in Pairs |-> IF p[1] = n THEN 0 ELSE guard.stamps[p]]
<1>3. mm \in [NodeIds -> 0..MaxStamp] /\ ss \in [Pairs -> 0..MaxStamp]
  BY <1>1, GuardAssumption DEF Guards
<1>4. \A k \in NodeIds : k # n => mm[k] = guard.minutes[k]
  BY <1>1 DEF Guards
<1>5. \A k \in NodeIds, t \in TaskIds : k # n => ss[<<k, t>>] = guard.stamps[<<k, t>>]
  BY DEF Pairs
<1>6. /\ g.nodes = guard.nodes \ {n}
      /\ g.assignments = {p \in guard.assignments : p[1] # n}
      /\ g.minutes = mm /\ g.stamps = ss
  BY <1>1 DEF ForgetNode, Guards
<1> HIDE DEF mm, ss
<1>7. g \in Guards
  <2> DEFINE nn == guard.nodes \ {n}
             aa == {p \in guard.assignments : p[1] # n}
  <2>1. nn \subseteq NodeIds /\ aa \subseteq Pairs
    BY <1>1 DEF Guards
  <2>2. ss = [p \in Pairs |-> IF p[1] = n THEN 0 ELSE guard.stamps[p]]
        /\ mm = [guard.minutes EXCEPT ![n] = 0]
    BY DEF ss, mm
  <2>3. g = [guard EXCEPT !.nodes = nn, !.assignments = aa, !.minutes = mm, !.stamps = ss]
    BY <1>1, <2>2 DEF ForgetNode, Guards
  <2> HIDE DEF g, nn, aa
  <2> QED BY <1>1, <1>3, <2>1, <2>3 DEF Guards
<1> HIDE DEF d, g
<1>8. ASSUME Related(db) PROVE Related(d)
  BY <1>2, <1>8 DEF Related
<1>9. ASSUME Covers(guard, db) PROVE Covers(g, d)
  <2>1. g.nodes = d.node /\ g.assignments = d.assign
    BY <1>2, <1>6, <1>9 DEF Covers
  <2>2. ASSUME NEW k \in NodeIds, NEW s \in Stamps, <<k, s>> \in d.metric
        PROVE  s <= g.minutes[k]
    <3>1. <<k, s>> \in db.metric /\ k # n
      BY <1>2, <2>2
    <3> QED BY <1>4, <1>6, <1>9, <3>1 DEF Covers
  <2>3. ASSUME NEW k \in NodeIds, NEW t \in TaskIds, NEW s \in Stamps, <<k, t, s>> \in d.ping
        PROVE  s <= g.stamps[<<k, t>>]
    <3>1. <<k, t, s>> \in db.ping /\ k # n
      BY <1>2, <2>3
    <3> QED BY <1>5, <1>6, <1>9, <3>1 DEF Covers
  <2> QED BY <2>1, <2>2, <2>3 DEF Covers
<1>10. Issues(d)
  BY <1>2, IssuesNothing
<1> QED BY <1>1, <1>2, <1>7, <1>8, <1>9, <1>10, SoloKeeps DEF Consistent

(* Only the assignments change: the rows of a probe stay, and so do their   *)
(* stamps.                                                                  *)
LEMMA SavePingTaskKeeps ==
  ASSUME IInv, NEW t \in TaskIds, NEW nodes \in SUBSET NodeIds, SavePingTask(t, nodes)
  PROVE  IInv'
<1> DEFINE assign == {p \in db.assign : p[2] # t} \cup (nodes \X {t})
           next == IF t \in db.task THEN db.next_task ELSE t + 1
           d == [db EXCEPT !.task = @ \cup {t}, !.assign = assign,
                           !.next_task = IF t \in db.task THEN @ ELSE t + 1]
           g == Reassign(guard, t, nodes)
<1>1. /\ db \in Databases /\ guard \in Guards /\ Solo(d, g)
      /\ t \in db.task \/ t = db.next_task
      /\ nodes \subseteq db.node
  BY DEF IInv, Shape, SavePingTask
<1>2. next \in 1..(MaxTask + 1) /\ assign \subseteq Pairs
  BY <1>1, GuardAssumption DEF Databases, TaskIds, Pairs
<1>3. \A p \in assign : p \in db.assign \/ (p[1] \in nodes /\ p[2] = t)
  OBVIOUS
<1>4. d = [db EXCEPT !.task = @ \cup {t}, !.assign = assign, !.next_task = next]
  OBVIOUS
<1> DEFINE old == {p \in guard.assignments : p[2] # t} \cup (nodes \X {t})
<1>5. guard.assignments = db.assign => old = assign
  OBVIOUS
<1>6. old \subseteq Pairs
  BY <1>1 DEF Guards, Pairs
<1>7. g = [guard EXCEPT !.assignments = old]
  BY DEF Reassign
<1> HIDE DEF d, g, next, assign, old
<1>8. /\ d \in Databases
      /\ d.node = db.node /\ d.traffic = db.traffic
      /\ d.task = db.task \cup {t} /\ d.assign = assign
      /\ d.metric = db.metric /\ d.metric_hour = db.metric_hour
      /\ d.ping = db.ping /\ d.ping_hour = db.ping_hour
      /\ d.next_node = db.next_node /\ d.next_task = next
  BY <1>1, <1>2, <1>4 DEF Databases
<1>9. /\ g \in Guards /\ g.nodes = guard.nodes /\ g.assignments = old
      /\ g.minutes = guard.minutes /\ g.stamps = guard.stamps
  BY <1>1, <1>6, <1>7 DEF Guards
<1>10. ASSUME Related(db) PROVE Related(d)
  BY <1>1, <1>3, <1>8, <1>10 DEF Related
<1>11. ASSUME Covers(guard, db) PROVE Covers(g, d)
  BY <1>5, <1>8, <1>9, <1>11 DEF Covers
<1>12. Issues(d)
  <2>1. \A n \in db.node : n < db.next_node
    BY DEF IInv, HistoryInv, IdsAreFresh
  <2>2. \A k \in db.task : k < db.next_task /\ k \in Int
    BY <1>1 DEF IInv, HistoryInv, IdsAreFresh, Databases, TaskIds
  <2>3. db.next_node \in Int /\ db.next_task \in Int /\ t \in Int
    BY <1>1 DEF Databases, TaskIds
  <2>4. db.next_task <= next /\ next \in Int /\ t < next
    BY <1>1, <2>2, <2>3 DEF next
  <2>5. \A k \in db.task \cup {t} : k < next
    BY <2>2, <2>3, <2>4
  <2> QED BY <1>8, <2>1, <2>3, <2>4, <2>5 DEF Issues
<1> QED BY <1>1, <1>8, <1>9, <1>10, <1>11, <1>12, SoloKeeps DEF Consistent

LEMMA DeletePingTaskKeeps ==
  ASSUME IInv, NEW t \in TaskIds, DeletePingTask(t)
  PROVE  IInv'
<1> DEFINE d == [db EXCEPT !.task = @ \ {t}, !.assign = {p \in @ : p[2] # t},
                           !.ping = {r \in @ : r[2] # t}, !.ping_hour = {p \in @ : p[2] # t}]
           g == ForgetTask(guard, t)
<1>1. db \in Databases /\ guard \in Guards /\ Solo(d, g)
  BY DEF IInv, Shape, DeletePingTask
<1>2. /\ d \in Databases
      /\ d.node = db.node /\ d.traffic = db.traffic
      /\ d.task = db.task \ {t} /\ d.assign = {p \in db.assign : p[2] # t}
      /\ d.metric = db.metric /\ d.metric_hour = db.metric_hour
      /\ d.ping = {r \in db.ping : r[2] # t} /\ d.ping_hour = {p \in db.ping_hour : p[2] # t}
      /\ d.next_node = db.next_node /\ d.next_task = db.next_task
  BY <1>1 DEF Databases
<1> DEFINE ss == [p \in Pairs |-> IF p[2] = t THEN 0 ELSE guard.stamps[p]]
           aa == {p \in guard.assignments : p[2] # t}
<1>3. ss \in [Pairs -> 0..MaxStamp] /\ aa \subseteq Pairs
  BY <1>1, GuardAssumption DEF Guards
<1>4. \A n \in NodeIds, k \in TaskIds : k # t => ss[<<n, k>>] = guard.stamps[<<n, k>>]
  BY DEF Pairs
<1>5. g = [guard EXCEPT !.assignments = aa, !.stamps = ss]
  BY <1>1 DEF ForgetTask, Guards
<1>6. guard.assignments = db.assign => aa = d.assign
  BY <1>2
<1> HIDE DEF d, g, ss, aa
<1>7. /\ g \in Guards /\ g.nodes = guard.nodes /\ g.assignments = aa
      /\ g.minutes = guard.minutes /\ g.stamps = ss
  BY <1>1, <1>3, <1>5 DEF Guards
<1>8. ASSUME Related(db) PROVE Related(d)
  BY <1>2, <1>8 DEF Related
<1>9. ASSUME Covers(guard, db) PROVE Covers(g, d)
  <2>1. ASSUME NEW n \in NodeIds, NEW k \in TaskIds, NEW s \in Stamps, <<n, k, s>> \in d.ping
        PROVE  s <= g.stamps[<<n, k>>]
    <3>1. <<n, k, s>> \in db.ping /\ k # t
      BY <1>2, <2>1
    <3> QED BY <1>4, <1>7, <1>9, <3>1 DEF Covers
  <2> QED BY <1>2, <1>6, <1>7, <1>9, <2>1 DEF Covers
<1>10. Issues(d)
  BY <1>2, IssuesNothing
<1> QED BY <1>1, <1>2, <1>7, <1>8, <1>9, <1>10, SoloKeeps DEF Consistent

(* Rows leave for their hours; an hour's node and probe are the row's.      *)
LEMMA PruneKeeps ==
  ASSUME IInv, NEW cutoff \in Stamps, Prune(cutoff)
  PROVE  IInv'
<1>1. PICK old_metric \in SUBSET db.metric_hour, old_ping \in SUBSET db.ping_hour :
        Solo([db EXCEPT !.metric = {r \in @ : r[2] >= cutoff},
                    !.metric_hour = (@ \ old_metric) \cup {r[1] : r \in {q \in db.metric : q[2] < cutoff}},
                    !.ping = {r \in @ : r[3] >= cutoff},
                    !.ping_hour = (@ \ old_ping) \cup
                                  {<<r[1], r[2]>> : r \in {q \in db.ping : q[3] < cutoff}}],
             guard)
  BY DEF Prune
<1> DEFINE m == {r \in db.metric : r[2] >= cutoff}
           mh == (db.metric_hour \ old_metric) \cup {r[1] : r \in {q \in db.metric : q[2] < cutoff}}
           p == {r \in db.ping : r[3] >= cutoff}
           ph == (db.ping_hour \ old_ping) \cup
                   {<<r[1], r[2]>> : r \in {q \in db.ping : q[3] < cutoff}}
           d == [db EXCEPT !.metric = m, !.metric_hour = mh, !.ping = p, !.ping_hour = ph]
<1>2. db \in Databases /\ guard \in Guards
  BY DEF IInv, Shape
<1>3. Solo(d, guard)
  BY <1>1
<1>4. /\ m \subseteq db.metric /\ p \subseteq db.ping
      /\ m \subseteq NodeIds \X Stamps /\ mh \subseteq NodeIds
      /\ p \subseteq NodeIds \X TaskIds \X Stamps
  BY <1>2 DEF Databases
<1>5. ph \subseteq Pairs
  BY <1>2 DEF Databases, Pairs
<1>6. \A n \in mh : n \in db.metric_hour \/ \E r \in db.metric : n = r[1]
  OBVIOUS
<1>7. \A q \in ph : q \in db.ping_hour \/ \E r \in db.ping : q = <<r[1], r[2]>>
  OBVIOUS
<1> HIDE DEF m, mh, p, ph
<1>8. /\ d \in Databases
      /\ d.node = db.node /\ d.traffic = db.traffic
      /\ d.task = db.task /\ d.assign = db.assign
      /\ d.metric = m /\ d.metric_hour = mh /\ d.ping = p /\ d.ping_hour = ph
      /\ d.next_node = db.next_node /\ d.next_task = db.next_task
  BY <1>2, <1>4, <1>5 DEF Databases
<1> HIDE DEF d
<1>9. ASSUME Related(db) PROVE Related(d)
  <2>1. \A r \in d.metric : r[1] \in d.node
    BY <1>4, <1>8, <1>9 DEF Related
  <2>2. d.metric_hour \subseteq d.node
    BY <1>6, <1>8, <1>9 DEF Related
  <2>3. \A r \in d.ping : r[1] \in d.node /\ r[2] \in d.task
    BY <1>4, <1>8, <1>9 DEF Related
  <2>4. ASSUME NEW q \in d.ping_hour PROVE q[1] \in d.node /\ q[2] \in d.task
    <3>1. CASE q \in db.ping_hour
      BY <1>8, <1>9, <3>1 DEF Related
    <3>2. ASSUME NEW r \in db.ping, q = <<r[1], r[2]>> PROVE q[1] \in d.node /\ q[2] \in d.task
      BY <1>8, <1>9, <3>2 DEF Related
    <3> QED BY <1>7, <1>8, <3>1, <3>2
  <2> QED BY <1>8, <1>9, <2>1, <2>2, <2>3, <2>4 DEF Related
<1>10. ASSUME Covers(guard, db) PROVE Covers(guard, d)
  BY <1>4, <1>8, <1>10 DEF Covers
<1>11. Issues(d)
  BY <1>8, IssuesNothing
<1> QED BY <1>2, <1>3, <1>8, <1>9, <1>10, <1>11, SoloKeeps DEF Consistent

(* The counters are past the archive's ids and the live ones, so no id that *)
(* was ever issued comes back; the cache is the archive's, or misled.       *)
LEMMA RestoreKeeps ==
  ASSUME IInv, NEW a \in Archives, Restore(a)
  PROVE  IInv'
<1> DEFINE nn == Later(Newest(a.node) + 1, db.next_node)
           nt == Later(Newest(a.task) + 1, db.next_task)
<1>1. PICK d : d = RestoredIds(a)
  OBVIOUS
<1>2. /\ phase = "idle" /\ Related(a) /\ db' = d /\ work' = d
      /\ (guard' = Load(d) /\ misled' = FALSE) \/ (guard' = guard /\ misled' = TRUE)
      /\ issued' = [node |-> issued.node \cup d.node, task |-> issued.task \cup d.task]
      /\ UNCHANGED <<phase, batch, poisoned>>
  BY <1>1 DEF Restore
<1>3. a \in Databases /\ db \in Databases
  BY GuardAssumption DEF IInv, Shape
<1>4. MaxNode \in Nat /\ MaxTask \in Nat
  BY GuardAssumption
<1>5. Newest(a.node) \in 0..MaxNode /\ \A n \in a.node : n <= Newest(a.node)
  <2>1. a.node \subseteq 1..MaxNode
    BY <1>3 DEF Databases, NodeIds
  <2> QED BY <1>4, <2>1, NewestIsUpper
<1>6. Newest(a.task) \in 0..MaxTask /\ \A t \in a.task : t <= Newest(a.task)
  <2>1. a.task \subseteq 1..MaxTask
    BY <1>3 DEF Databases, TaskIds
  <2> QED BY <1>4, <2>1, NewestIsUpper
<1>7. db.next_node \in 1..(MaxNode + 1) /\ db.next_task \in 1..(MaxTask + 1)
  BY <1>3 DEF Databases
<1>8. /\ nn \in 1..(MaxNode + 1) /\ Newest(a.node) < nn /\ db.next_node <= nn
      /\ nt \in 1..(MaxTask + 1) /\ Newest(a.task) < nt /\ db.next_task <= nt
  BY <1>4, <1>5, <1>6, <1>7 DEF Later
<1>9. d = [a EXCEPT !.next_node = nn, !.next_task = nt]
  BY <1>1 DEF RestoredIds
<1> HIDE DEF nn, nt
<1>10. /\ d \in Databases
       /\ d.node = a.node /\ d.traffic = a.traffic /\ d.task = a.task /\ d.assign = a.assign
       /\ d.metric = a.metric /\ d.metric_hour = a.metric_hour
       /\ d.ping = a.ping /\ d.ping_hour = a.ping_hour
       /\ d.next_node = nn /\ d.next_task = nt
  BY <1>3, <1>8, <1>9 DEF Databases
<1>11. Related(d)
  BY <1>2, <1>10 DEF Related
<1>12. Load(d) \in Guards /\ Consistent(d, Load(d))
  BY <1>10, <1>11, LoadCovers DEF Consistent
<1>13. issued'.node = issued.node \cup d.node /\ issued'.task = issued.task \cup d.task
       /\ issued' \in [node : SUBSET NodeIds, task : SUBSET TaskIds]
  BY <1>2, <1>10 DEF IInv, Shape, Databases
<1>14. Shape'
  BY <1>2, <1>10, <1>12, <1>13 DEF IInv, Shape
<1>15. TransactionInv' /\ CacheInv'
  BY <1>2, <1>12 DEF TransactionInv, CacheInv, Same
<1>16. HistoryInv' /\ TelemetryNeverClashes'
  BY <1>2, <1>13 DEF IInv, HistoryInv, TelemetryNeverClashes
<1>17. ASSUME NEW n \in issued'.node PROVE n < nn
  <2>1. n \in Int /\ db.next_node \in Int /\ nn \in Int /\ Newest(a.node) \in Int
    BY <1>4, <1>5, <1>7, <1>8, <1>13 DEF NodeIds
  <2>2. n \in issued.node => n < db.next_node
    BY DEF IInv, IdsAreFresh
  <2>3. n \in a.node => n <= Newest(a.node)
    BY <1>5
  <2> QED BY <1>8, <1>10, <1>13, <2>1, <2>2, <2>3
<1>18. ASSUME NEW t \in issued'.task PROVE t < nt
  <2>1. t \in Int /\ db.next_task \in Int /\ nt \in Int /\ Newest(a.task) \in Int
    BY <1>4, <1>6, <1>7, <1>8, <1>13 DEF TaskIds
  <2>2. t \in issued.task => t < db.next_task
    BY DEF IInv, IdsAreFresh
  <2>3. t \in a.task => t <= Newest(a.task)
    BY <1>6
  <2> QED BY <1>8, <1>10, <1>13, <2>1, <2>2, <2>3
<1>19. IdsAreFresh'
  BY <1>2, <1>10, <1>17, <1>18 DEF IdsAreFresh
<1> QED BY <1>14, <1>15, <1>16, <1>19 DEF IInv

-----------------------------------------------------------------------------
LEMMA InitIInv == Init => IInv
<1> SUFFICES ASSUME Init PROVE IInv
  OBVIOUS
<1>1. Empty \in Databases
  BY GuardAssumption DEF Empty, Databases
<1>2. Related(Empty)
  BY DEF Empty, Related
<1>3. Load(Empty) \in Guards /\ Consistent(Empty, Load(Empty))
  BY <1>1, <1>2, LoadCovers DEF Consistent
<1>4. issued.node = {} /\ issued.task = {} /\ db.node = {} /\ db.task = {}
      /\ issued \in [node : SUBSET NodeIds, task : SUBSET TaskIds]
  BY DEF Init, Ids, Empty
<1>5. Shape
  <2>1. batch \in Seq(TelemetryJobs) /\ Len(batch) <= BATCH_OPS
    BY GuardAssumption DEF Init
  <2>2. poisoned \in BOOLEAN /\ misled \in BOOLEAN
    BY DEF Init
  <2>3. db \in Databases /\ work \in Databases /\ guard \in Guards
        /\ phase \in {"idle", "open", "replay"}
    BY <1>1, <1>3 DEF Init
  <2> QED BY <1>4, <2>1, <2>2, <2>3 DEF Shape
<1>6. TransactionInv /\ CacheInv
  BY <1>3 DEF Init, TransactionInv, CacheInv, Same
<1>7. HistoryInv /\ IdsAreFresh /\ TelemetryNeverClashes
  BY <1>4 DEF Init, HistoryInv, IdsAreFresh, TelemetryNeverClashes
<1> QED BY <1>5, <1>6, <1>7 DEF IInv

(* Every step keeps the invariant.                                          *)
LEMMA NextKeepsIInv == IInv /\ [Next]_vars => IInv'
<1> SUFFICES ASSUME IInv, [Next]_vars PROVE IInv'
  OBVIOUS
<1>1. CASE UNCHANGED vars
  BY <1>1 DEF vars, IInv, Shape, TransactionInv, CacheInv, HistoryInv, IdsAreFresh,
              TelemetryNeverClashes
<1>2. CASE Telemetry
  BY <1>2, BeginKeeps, RunJobKeeps, CommitKeeps, ReplayKeeps DEF Telemetry
<1>3. CASE Configure
  BY <1>3, RefuseKeeps, CreateNodeKeeps, DeleteNodeKeeps, SavePingTaskKeeps,
     DeletePingTaskKeeps, PruneKeeps, RestoreKeeps DEF Configure
<1> QED BY <1>1, <1>2, <1>3 DEF Next

LEMMA Invariance == Spec => []IInv
<1>1. Init => IInv
  BY InitIInv
<1>2. IInv /\ [Next]_vars => IInv'
  BY NextKeepsIInv
<1> QED BY <1>1, <1>2, PTL DEF Spec

(* No telemetry insert meets the key of a row already there, and no report  *)
(* misses its counters, through any rollbacks, replays, pruning,            *)
(* reassignment and restores (insert_metric, insert_ping, accumulate).      *)
THEOREM NeverClashes == Spec => []TelemetryNeverClashes
<1>1. IInv => TelemetryNeverClashes
  BY DEF IInv
<1> QED BY <1>1, Invariance, PTL

(* The cache does the work of the foreign keys the engine cannot declare:   *)
(* every committed row names a node and a probe that exist (delete_node,    *)
(* delete_ping_task, prune, restore and the guard checks).                  *)
THEOREM ForeignKeysHold == Spec => []NoOrphans
<1>1. IInv => NoOrphans
  BY DEF IInv, CacheInv, Consistent, NoOrphans
<1> QED BY <1>1, Invariance, PTL

(* alloc_id never issues an id again, whichever backups are restored        *)
(* (resync_ids, raise_ids).                                                 *)
THEOREM IdsNeverReturn == Spec => []IdsAreFresh
<1>1. IInv => IdsAreFresh
  BY DEF IInv
<1> QED BY <1>1, Invariance, PTL
=============================================================================
