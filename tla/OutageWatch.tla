---------------------------- MODULE OutageWatch -----------------------------
(***************************************************************************)
(* Outage and traffic alerts (server/src/notify.rs, watch and sweep).      *)
(*                                                                         *)
(* Every SWEEP the watcher looks at all nodes: a node it has found absent  *)
(* for the grace period is marked down in the database and announced, one  *)
(* that is back is unmarked and announced, and a node whose traffic        *)
(* crossed a step of its allowance is announced.  The absence clocks, the  *)
(* last returns and the traffic steps live in memory and restart with the  *)
(* Hub; the mark is stored.  The marks are written one by one, and a write *)
(* that fails ends the sweep: what it had gathered is not announced.       *)
(*                                                                         *)
(* Nobody else writes the mark, and the sweep takes who is online and the  *)
(* nodes' rows once, at its start, so a sweep is one step.  The grace and  *)
(* percentage settings do not change, and every node has an allowance.     *)
(* What happens to an alert once it is raised (the queue, the channels and *)
(* their retries) is left out.                                             *)
(***************************************************************************)
EXTENDS Integers, FiniteSetsExt

CONSTANTS
  Last,          (* the nodes are 1..Last, in the order of the list        *)
  Grace,         (* notify_grace                                           *)
  FLAP_WINDOW, FLAP_GRACE,
  MaxTime,       (* bound: sweeps since the first start                    *)
  MaxPeriod,     (* bound: days on which a billing period may begin        *)
  MaxFaults      (* bound: failing writes and reads of a sweep             *)

Nodes == 1..Last

ASSUME WatchAssumption ==
  /\ Last \in Nat
  /\ Grace \in Nat \ {0} /\ FLAP_GRACE \in Nat /\ FLAP_WINDOW \in Nat
  /\ Grace <= FLAP_GRACE /\ FLAP_GRACE <= FLAP_WINDOW
  /\ MaxTime \in Nat \ {0} /\ MaxPeriod \in Nat \ {0} /\ MaxFaults \in Nat

Never == 0

VARIABLES
  now, period,     (* period: the last day a billing period could begin    *)
  (* The Hub's view. *)
  online,          (* App::agents                                          *)
  armed,           (* some channel is configured                           *)
  seen, notify,    (* node.last_seen # 0, node.notify                      *)
  down,            (* node.down_since # 0                                  *)
  began,           (* when each node's billing period began, from its      *)
                   (* reset day                                            *)
  step, stamp,     (* the step of its allowance the stored counters reach, *)
                   (* 0, 1 for the configured percentage, 2 for all of it, *)
                   (* and the period they were counted in                  *)
  (* Watch. *)
  absent, returned, traffic, primed,
  (* History. *)
  raised,          (* what the last sweep announced                        *)
  told,            (* the last announcement about each node                *)
  sighted,         (* the last sweep that found the node online, or the    *)
                   (* start of the process                                 *)
  alerted,         (* when this process last announced the node's outage   *)
  crossed,         (* the steps announced this period and not corrected    *)
                   (* away since; forgotten when the reset day is edited,  *)
                   (* and when the first sweep of a process records no     *)
                   (* step, having no channel or failing to read them      *)
  muted,           (* the nodes whose mark was last changed by a sweep     *)
                   (* that failed later on and announced nothing           *)
  faults

clock == <<now, period>>
usage == <<began, step, stamp>>
rows == <<seen, notify, down, usage>>
watch == <<absent, returned, traffic, primed>>
history == <<raised, told, sighted, alerted, crossed, muted>>
vars == <<clock, online, armed, rows, watch, history, faults>>

Nothing == [offline |-> {}, online |-> {}, traffic |-> {}]

TypeOK ==
  /\ now \in 1..MaxTime /\ period \in 1..MaxPeriod
  /\ online \subseteq Nodes /\ armed \in BOOLEAN
  /\ seen \subseteq Nodes /\ notify \subseteq Nodes /\ down \subseteq Nodes
  /\ began \in [Nodes -> 1..MaxPeriod] /\ stamp \in [Nodes -> 1..MaxPeriod]
  /\ step \in [Nodes -> 0..2]
  /\ absent \in [Nodes -> 0..MaxTime] /\ returned \in [Nodes -> 0..MaxTime]
  /\ traffic \in [Nodes -> (0..MaxPeriod) \X (0..2)]
  /\ primed \in BOOLEAN
  /\ raised \in [offline : SUBSET Nodes, online : SUBSET Nodes, traffic : SUBSET Nodes]
  /\ told \in [Nodes -> {"nothing", "offline", "online"}]
  /\ sighted \in [Nodes -> 1..MaxTime] /\ alerted \in [Nodes -> 0..MaxTime]
  /\ crossed \in [Nodes -> SUBSET (1..2)]
  /\ muted \subseteq Nodes
  /\ faults \in 0..MaxFaults

(* Watch::default.                                                          *)
Forget ==
  /\ absent' = [n \in Nodes |-> Never]
  /\ returned' = [n \in Nodes |-> Never]
  /\ traffic' = [n \in Nodes |-> <<Never, 0>>]
  /\ primed' = FALSE

Init ==
  /\ now = 1 /\ period = 1
  /\ online = {} /\ armed \in BOOLEAN
  /\ seen \in SUBSET Nodes /\ notify \in SUBSET Nodes /\ down = {}
  /\ began = [n \in Nodes |-> 1] /\ stamp = [n \in Nodes |-> 1]
  /\ step = [n \in Nodes |-> 0]
  /\ absent = [n \in Nodes |-> Never] /\ returned = [n \in Nodes |-> Never]
  /\ traffic = [n \in Nodes |-> <<Never, 0>>] /\ primed = FALSE
  /\ raised = Nothing /\ told = [n \in Nodes |-> "nothing"]
  /\ sighted = [n \in Nodes |-> 1] /\ alerted = [n \in Nodes |-> Never]
  /\ crossed = [n \in Nodes |-> {}]
  /\ muted = {}
  /\ faults = 0

-----------------------------------------------------------------------------
(* What happens to the nodes between sweeps.                                *)

(* A node connects, and with its first report is known to have been seen.   *)
Connect(n) ==
  /\ n \notin online
  /\ online' = online \cup {n} /\ seen' = seen \cup {n}
  /\ UNCHANGED <<clock, armed, notify, down, usage, watch, history, faults>>

Disconnect(n) ==
  /\ n \in online
  /\ online' = online \ {n}
  /\ UNCHANGED <<clock, armed, rows, watch, history, faults>>

(* The panel configures or removes the channels, or a node's alerts.        *)
Configure ==
  /\ \/ armed' \in BOOLEAN /\ UNCHANGED notify
     \/ \E n \in Nodes : notify' \in {notify \cup {n}, notify \ {n}} /\ UNCHANGED armed
  /\ UNCHANGED <<clock, online, seen, down, usage, watch, history, faults>>

(* all_traffic: counters of another period than the current one read zero.  *)
Reached(n) == IF stamp[n] = began[n] THEN step[n] ELSE 0

(* A report, which counts from zero in a new period, leaves the traffic at  *)
(* its step or takes it to the next.                                        *)
Climb(n) ==
  /\ \E s \in {Reached(n), Reached(n) + 1} \cap 0..2 : step' = [step EXCEPT ![n] = s]
  /\ stamp' = [stamp EXCEPT ![n] = began[n]]
  /\ UNCHANGED <<clock, online, armed, seen, notify, down, began, watch, history, faults>>

(* A correction by hand.                                                    *)
Correct(n) ==
  /\ Reached(n) > 0
  /\ step' = [step EXCEPT ![n] = @ - 1]
  /\ crossed' = [crossed EXCEPT ![n] = @ \cap 1..step'[n]]
  /\ UNCHANGED <<clock, online, armed, seen, notify, down, began, stamp, watch, raised, told,
                 sighted, alerted, muted, faults>>

(* Another day, and with it the billing period of some nodes.               *)
NewPeriod ==
  /\ period < MaxPeriod
  /\ period' = period + 1
  /\ \E S \in SUBSET Nodes :
       /\ began' = [n \in Nodes |-> IF n \in S THEN period' ELSE began[n]]
       /\ crossed' = [n \in Nodes |-> IF n \in S THEN {} ELSE crossed[n]]
  /\ UNCHANGED <<now, online, armed, seen, notify, down, step, stamp, watch, raised, told,
                 sighted, alerted, muted, faults>>

(* The panel edits a node's reset day: its period began another day, and    *)
(* the day may be one whose counters are still in the row.                  *)
EditResetDay(n) ==
  /\ \E d \in 1..period \ {began[n]} : began' = [began EXCEPT ![n] = d]
  /\ crossed' = [crossed EXCEPT ![n] = {}]
  /\ UNCHANGED <<clock, online, armed, seen, notify, down, step, stamp, watch, raised, told,
                 sighted, alerted, muted, faults>>

-----------------------------------------------------------------------------
(* The sweep, node by node.                                                 *)

(* Mutant: a node that just returned gets no longer wait.                   *)
WaitAlike(n, since) == Grace

(* How long an absence that began at since goes unannounced.                *)
Wait(n, since) ==
  IF returned[n] # Never /\ since - returned[n] < FLAP_WINDOW THEN FLAP_GRACE ELSE Grace

(* Mutant: an absence is counted from the sweep after the one that finds it. *)
SinceNext(n, t) == IF absent[n] = Never THEN t + 1 ELSE absent[n]

(* When the absence of a node that is offline began.                        *)
Since(n, t) == IF absent[n] = Never THEN t ELSE absent[n]

(* A return from an absence longer than the grace period.                   *)
Back(n, t) == absent[n] # Never /\ t - absent[n] >= Grace

(* Mutant: a return is announced whether or not the outage was.             *)
ComesUpAnyway(n) == n \in online /\ absent[n] # Never

ComesUp(n) == n \in online /\ n \in down

Absent(n) == n \notin online /\ n \in seen

GoesDown(n, t) ==
  /\ Absent(n) /\ armed /\ n \in notify /\ n \notin down
  /\ t - Since(n, t) >= Wait(n, Since(n, t))

(* Mutant: the clock of a node that is back is not cleared.                 *)
ClocksRunOn(reached, t) ==
  /\ absent' = [n \in Nodes |->
       IF n \in reached /\ Absent(n) THEN Since(n, t) ELSE absent[n]]
  /\ returned' = [n \in Nodes |->
       IF n \in reached /\ n \in online /\ Back(n, t) THEN t ELSE returned[n]]
  /\ sighted' = [n \in Nodes |-> IF n \in reached /\ n \in online THEN t ELSE sighted[n]]

(* The clocks of the nodes a sweep got to.                                  *)
Clocks(reached, t) ==
  /\ absent' = [n \in Nodes |->
       IF n \notin reached THEN absent[n]
       ELSE IF n \in online THEN Never
       ELSE IF Absent(n) THEN Since(n, t) ELSE absent[n]]
  /\ returned' = [n \in Nodes |->
       IF n \in reached /\ n \in online /\ Back(n, t) THEN t ELSE returned[n]]
  /\ sighted' = [n \in Nodes |-> IF n \in reached /\ n \in online THEN t ELSE sighted[n]]

(* Mutant: the step is announced as long as it lasts.                       *)
CrossesAgain(n) == primed /\ Reached(n) > 0

(* A step above the one recorded in this period, except at the first sweep. *)
Crosses(n) ==
  /\ primed /\ Reached(n) > 0
  /\ ~(traffic[n][1] = began[n] /\ traffic[n][2] >= Reached(n))

(* A sweep that completes, having read the traffic of the nodes in read:    *)
(* the marks, the clocks, the steps and the notes.                          *)
Completes(read) ==
  LET t  == now + 1
      off == {n \in Nodes : GoesDown(n, t)}
      on == {n \in Nodes : ComesUp(n)}
      metered == {n \in read : Crosses(n)}
  IN
  /\ now < MaxTime
  /\ now' = t
  /\ Clocks(Nodes, t)
  /\ down' = (down \cup off) \ on
  /\ traffic' = [n \in Nodes |-> IF n \in read THEN <<began[n], Reached(n)>> ELSE traffic[n]]
  /\ primed' = TRUE
  /\ raised' = [offline |-> off, online |-> on, traffic |-> metered]
  /\ told' = [n \in Nodes |-> IF n \in off THEN "offline"
                              ELSE IF n \in on THEN "online" ELSE told[n]]
  /\ alerted' = [n \in Nodes |-> IF n \in off THEN t ELSE alerted[n]]
  /\ crossed' = [n \in Nodes |-> IF n \in metered THEN crossed[n] \cup {Reached(n)}
                                 ELSE IF n \notin read /\ ~primed THEN {} ELSE crossed[n]]
  /\ muted' = muted \ (off \cup on)
  /\ UNCHANGED <<period, online, armed, seen, notify, usage>>

(* The traffic is read only when there is a channel.  A failing read is     *)
(* logged and yields nothing, and the sweep goes on.                        *)
Sweep ==
  \/ Completes(IF armed THEN Nodes ELSE {}) /\ UNCHANGED faults
  \/ armed /\ faults < MaxFaults /\ faults' = faults + 1 /\ Completes({})

(* The write for one node fails.  The nodes before it are marked, and the   *)
(* clocks have been set up to and including it; nothing is announced.       *)
SweepFails ==
  LET t == now + 1
      written(k) == {n \in Nodes : n < k}
  IN
  /\ now < MaxTime /\ faults < MaxFaults
  /\ now' = t /\ faults' = faults + 1
  /\ \E k \in Nodes :
       /\ GoesDown(k, t) \/ ComesUp(k)
       /\ Clocks(1..k, t)
       /\ down' = (down \cup {n \in written(k) : GoesDown(n, t)})
                    \ {n \in written(k) : ComesUp(n)}
       /\ muted' = muted \cup SymDiff(down, down')
  /\ raised' = Nothing
  /\ UNCHANGED <<period, online, armed, seen, notify, usage, traffic, primed, told, alerted,
                 crossed>>

(* The Hub restarts: every agent is absent and the watcher starts anew.     *)
Restart ==
  /\ Forget
  /\ online' = {}
  /\ raised' = Nothing
  /\ sighted' = [n \in Nodes |-> now]
  /\ alerted' = [n \in Nodes |-> Never]
  /\ UNCHANGED <<clock, armed, rows, told, crossed, muted, faults>>

-----------------------------------------------------------------------------
Between ==
  \/ \E n \in Nodes : Connect(n) \/ Disconnect(n) \/ Climb(n) \/ Correct(n) \/ EditResetDay(n)
  \/ Configure
  \/ NewPeriod

Next == Between \/ Sweep \/ SweepFails \/ Restart

Spec == Init /\ [][Next]_vars
-----------------------------------------------------------------------------
(* Properties.                                                              *)

(* A return is announced only after an offline alert, and an outage once:   *)
(* the announcements about a node alternate, also across restarts of the    *)
(* Hub, and whatever the panel switches on and off meanwhile (sweep).  The  *)
(* nodes whose mark a failed sweep wrote and did not announce are excepted. *)
AnnouncementsAlternate ==
  [][now' # now => /\ \A n \in raised'.online \ muted : told[n] = "offline"
                   /\ \A n \in raised'.offline \ muted : told[n] # "offline"]_vars

(* No alert for an interruption within the grace period: a node announced   *)
(* offline was found online by no sweep for longer than that, and a node    *)
(* whose Hub just restarted gets the whole period to reconnect.             *)
GraceRespected ==
  [][\A n \in Nodes : alerted'[n] # alerted[n] /\ alerted'[n] # Never =>
       now' - sighted[n] > Grace]_vars

(* A flapping node is quiet: two alerts of one process about its outages    *)
(* are at least FLAP_GRACE apart (Watch::returned, FLAP_WINDOW).            *)
FlappingIsQuiet ==
  [][\A n \in Nodes :
       alerted'[n] # alerted[n] /\ alerted'[n] # Never /\ alerted[n] # Never =>
         alerted'[n] - alerted[n] >= FLAP_GRACE]_vars

(* A traffic step is announced once in a billing period, also when the Hub  *)
(* restarts in it, and never a lower one after a higher one, unless a       *)
(* correction took the counter below it, the reset day was edited, or the   *)
(* first sweep of a process recorded no step, for want of a channel or      *)
(* because the read failed (Watch::primed and Watch::traffic).              *)
StepsOnce ==
  [][now' # now => \A n \in raised'.traffic : \A s \in crossed[n] : s < Reached(n)]_vars
=============================================================================
