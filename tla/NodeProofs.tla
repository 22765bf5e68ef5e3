----------------------------- MODULE NodeProofs -----------------------------
(***************************************************************************)
(* The two accounts the Hub keeps of a node, whether it is there and what  *)
(* crossed its interfaces.                                                 *)
(*                                                                         *)
(* OutageWatch, for any number of nodes, sweeps, failed writes and         *)
(* restarts, and any grace settings: the state is well typed, the          *)
(* announcements about a node alternate, no outage is announced within the *)
(* grace period, a flapping node is announced rarely, and a traffic step   *)
(* once in its period.                                                     *)
(*                                                                         *)
(* Traffic, for any interfaces, calendar, corrections and largest figure:  *)
(* the state is well typed, a report books only bytes that crossed, and    *)
(* all of them while the machine stays as it is, a billing period starts   *)
(* on the last reset day that has come, and the figures shown are those of *)
(* the calendar.                                                           *)
(***************************************************************************)
EXTENDS OutageWatch, Traffic, FiniteSetTheorems, WellFoundedInduction, TLAPS

(* The mark on disk says what was announced last, unless the sweep that     *)
(* wrote it failed: this is what lets a new process go on where the old one *)
(* stopped, although it has forgotten all else.                             *)
MarkIsWord == \A n \in Nodes \ muted : n \in down <=> told[n] = "offline"

(* A node is online or not, so no sweep finds it both back and gone.        *)
LEMMA NotBoth ==
  ASSUME NEW n \in Nodes, NEW t, GoesDown(n, t) PROVE ~ComesUp(n)
BY DEF GoesDown, Absent, ComesUp

LEMMA InitMarks == Init => MarkIsWord
BY DEF Init, MarkIsWord

(* What happens between sweeps, and a restart, changes neither.             *)
LEMMA OthersKeepMarks ==
  Between \/ Restart \/ UNCHANGED vars => UNCHANGED <<now, down, told, muted>>
BY DEF Between, Connect, Disconnect, Climb, Correct, Configure, NewPeriod, EditResetDay, Restart, Forget,
       vars, clock, rows, watch, history

LEMMA SweepKeepsMarks == MarkIsWord /\ Sweep => MarkIsWord'
<1> DEFINE t == now + 1
           off == {n \in Nodes : GoesDown(n, t)}
           on == {n \in Nodes : ComesUp(n)}
<1> SUFFICES ASSUME MarkIsWord, Sweep, NEW n \in Nodes \ muted'
             PROVE  n \in down' <=> told'[n] = "offline"
  BY DEF MarkIsWord
<1>1. /\ down' = (down \cup off) \ on
      /\ told'[n] = IF n \in off THEN "offline" ELSE IF n \in on THEN "online" ELSE told[n]
      /\ muted' = muted \ (off \cup on)
  BY DEF Sweep, Completes
<1>2. CASE n \in off
  BY <1>1, <1>2, NotBoth
<1>3. CASE n \in on
  BY <1>1, <1>3, NotBoth
<1>4. CASE n \notin off \cup on
  <2>1. n \in Nodes \ muted
    BY <1>1, <1>4
  <2> QED BY <1>1, <1>4, <2>1 DEF MarkIsWord
<1> QED BY <1>2, <1>3, <1>4

(* The nodes a failed sweep marked or unmarked are muted.                   *)
LEMMA FailedSweepKeepsMarks == MarkIsWord /\ SweepFails => MarkIsWord'
<1> SUFFICES ASSUME MarkIsWord, SweepFails, NEW n \in Nodes \ muted'
             PROVE  n \in down' <=> told'[n] = "offline"
  BY DEF MarkIsWord
<1>1. /\ muted' = muted \cup SymDiff(down, down')
      /\ told' = told
  BY DEF SweepFails
<1>2. n \notin muted /\ (n \in down' <=> n \in down)
  BY <1>1 DEF SymDiff
<1> QED BY <1>1, <1>2 DEF MarkIsWord

LEMMA NextKeepsMarks == MarkIsWord /\ [Next]_vars => MarkIsWord'
<1> SUFFICES ASSUME MarkIsWord, [Next]_vars PROVE MarkIsWord'
  OBVIOUS
<1>1. CASE Between \/ Restart \/ UNCHANGED vars
  BY <1>1, OthersKeepMarks DEF MarkIsWord
<1>2. CASE Sweep
  BY <1>2, SweepKeepsMarks
<1>3. CASE SweepFails
  BY <1>3, FailedSweepKeepsMarks
<1> QED BY <1>1, <1>2, <1>3 DEF Next

(* A sweep announces the return of a marked node only, and the outage of an *)
(* unmarked one only; a failed one announces nothing.                       *)
LEMMA StepsAlternate ==
  MarkIsWord /\ [Next]_vars =>
    [now' # now => /\ \A n \in raised'.online \ muted : told[n] = "offline"
                   /\ \A n \in raised'.offline \ muted : told[n] # "offline"]_vars
<1> SUFFICES ASSUME MarkIsWord, [Next]_vars, now' # now
             PROVE  /\ \A n \in raised'.online \ muted : told[n] = "offline"
                    /\ \A n \in raised'.offline \ muted : told[n] # "offline"
  OBVIOUS
<1>1. CASE Sweep
  <2>1. /\ raised'.online = {n \in Nodes : ComesUp(n)}
        /\ raised'.offline = {n \in Nodes : GoesDown(n, now + 1)}
    BY <1>1 DEF Sweep, Completes
  <2>2. \A n \in Nodes : ComesUp(n) => n \in down
    BY DEF ComesUp
  <2>3. \A n \in Nodes : GoesDown(n, now + 1) => n \notin down
    BY DEF GoesDown
  <2> QED BY <2>1, <2>2, <2>3 DEF MarkIsWord
<1>2. CASE SweepFails
  BY <1>2 DEF SweepFails, Nothing
<1> QED BY <1>1, <1>2, OthersKeepMarks DEF Next

(* In every run of the Hub a return is announced only after the outage was, *)
(* and an outage only once, through restarts, changes of the settings and   *)
(* failed writes, for the nodes no failed sweep has muted (sweep, watch).   *)
THEOREM AlternationHolds == Spec => AnnouncementsAlternate
BY InitMarks, NextKeepsMarks, StepsAlternate, PTL DEF Spec, AnnouncementsAlternate
-----------------------------------------------------------------------------
(* Types.                                                                   *)

LEMMA InitTypes == Init => TypeOK
<1> SUFFICES ASSUME Init PROVE TypeOK
  OBVIOUS
<1>1. traffic \in [Nodes -> (0..MaxPeriod) \X (0..2)]
  <2>1. <<Never, 0>> \in (0..MaxPeriod) \X (0..2)
    BY WatchAssumption DEF Never
  <2> QED BY <2>1 DEF Init
<1>2. raised \in [offline : SUBSET Nodes, online : SUBSET Nodes, traffic : SUBSET Nodes]
  BY DEF Init, Nothing
<1>3. /\ absent \in [Nodes -> 0..MaxTime] /\ returned \in [Nodes -> 0..MaxTime]
      /\ alerted \in [Nodes -> 0..MaxTime] /\ sighted \in [Nodes -> 1..MaxTime]
  BY WatchAssumption DEF Init, Never
<1>4. /\ began \in [Nodes -> 1..MaxPeriod] /\ stamp \in [Nodes -> 1..MaxPeriod]
  BY WatchAssumption DEF Init
<1>7. /\ step \in [Nodes -> 0..2] /\ crossed \in [Nodes -> SUBSET (1..2)]
      /\ told \in [Nodes -> {"nothing", "offline", "online"}]
  BY DEF Init
<1>5. now \in 1..MaxTime /\ period \in 1..MaxPeriod /\ faults \in 0..MaxFaults
  BY WatchAssumption DEF Init
<1>6. primed \in BOOLEAN
  BY DEF Init
<1> QED BY <1>1, <1>2, <1>3, <1>4, <1>5, <1>6, <1>7 DEF Init, TypeOK

(* The clocks a sweep at time t leaves.                                     *)
LEMMA ClockTypes ==
  ASSUME TypeOK, now < MaxTime, NEW reached, Clocks(reached, now + 1)
  PROVE  /\ absent' \in [Nodes -> 0..MaxTime]
         /\ returned' \in [Nodes -> 0..MaxTime]
         /\ sighted' \in [Nodes -> 1..MaxTime]
<1>1. now + 1 \in 1..MaxTime
  BY WatchAssumption DEF TypeOK
<1>2. \A n \in Nodes : /\ absent[n] \in 0..MaxTime
                       /\ returned[n] \in 0..MaxTime
                       /\ sighted[n] \in 1..MaxTime
  BY DEF TypeOK
<1>3. \A n \in Nodes : Since(n, now + 1) \in 0..MaxTime
  BY <1>1, <1>2 DEF Since
<1>4. absent' \in [Nodes -> 0..MaxTime]
  <2>1. Never \in 0..MaxTime
    BY WatchAssumption DEF Never
  <2> QED BY <1>2, <1>3, <2>1 DEF Clocks
<1>5. returned' \in [Nodes -> 0..MaxTime]
  <2>1. now + 1 \in 0..MaxTime
    BY <1>1, WatchAssumption
  <2> QED BY <1>2, <2>1 DEF Clocks
<1>6. sighted' \in [Nodes -> 1..MaxTime]
  BY <1>1, <1>2 DEF Clocks
<1> QED BY <1>4, <1>5, <1>6

(* What a node shows of its traffic.                                        *)
LEMMA ReachedTyped == ASSUME TypeOK, NEW n \in Nodes PROVE Reached(n) \in 0..2
BY DEF TypeOK, Reached

LEMMA BetweenTypes == TypeOK /\ Between => TypeOK'
<1> SUFFICES ASSUME TypeOK, Between PROVE TypeOK'
  OBVIOUS
<1>1. ASSUME NEW n \in Nodes, Connect(n) PROVE TypeOK'
  BY <1>1 DEF Connect, TypeOK, clock, usage, watch, history
<1>2. ASSUME NEW n \in Nodes, Disconnect(n) PROVE TypeOK'
  BY <1>2 DEF Disconnect, TypeOK, clock, rows, usage, watch, history
<1>3. ASSUME NEW n \in Nodes, Climb(n) PROVE TypeOK'
  <2>1. step' \in [Nodes -> 0..2] /\ stamp' \in [Nodes -> 1..MaxPeriod]
    BY <1>3 DEF Climb, TypeOK
  <2> QED BY <1>3, <2>1 DEF Climb, TypeOK, clock, watch, history
<1>4. ASSUME NEW n \in Nodes, Correct(n) PROVE TypeOK'
  <2>1. step' \in [Nodes -> 0..2]
    BY <1>4 DEF Correct, Reached, TypeOK
  <2>2. crossed' \in [Nodes -> SUBSET (1..2)]
    BY <1>4 DEF Correct, TypeOK
  <2> QED BY <1>4, <2>1, <2>2 DEF Correct, TypeOK, clock, watch
<1>5. CASE Configure
  BY <1>5 DEF Configure, TypeOK, clock, usage, watch, history
<1>6. CASE NewPeriod
  <2>1. period' \in 1..MaxPeriod
    BY <1>6, WatchAssumption DEF NewPeriod, TypeOK
  <2>2. PICK S \in SUBSET Nodes :
          /\ began' = [n \in Nodes |-> IF n \in S THEN period' ELSE began[n]]
          /\ crossed' = [n \in Nodes |-> IF n \in S THEN {} ELSE crossed[n]]
    BY <1>6 DEF NewPeriod
  <2>3. began' \in [Nodes -> 1..MaxPeriod] /\ crossed' \in [Nodes -> SUBSET (1..2)]
    BY <2>1, <2>2 DEF TypeOK
  <2> QED BY <1>6, <2>1, <2>3 DEF NewPeriod, TypeOK, watch
<1>7. ASSUME NEW n \in Nodes, EditResetDay(n) PROVE TypeOK'
  <2>1. began' \in [Nodes -> 1..MaxPeriod] /\ crossed' \in [Nodes -> SUBSET (1..2)]
    BY <1>7, WatchAssumption DEF EditResetDay, TypeOK
  <2> QED BY <1>7, <2>1 DEF EditResetDay, TypeOK, clock, watch
<1> QED BY <1>1, <1>2, <1>3, <1>4, <1>5, <1>6, <1>7 DEF Between

LEMMA SweepTypes == TypeOK /\ Sweep => TypeOK'
<1> SUFFICES ASSUME TypeOK, Sweep PROVE TypeOK'
  OBVIOUS
<1>0. PICK read \in SUBSET Nodes : Completes(read)
  BY DEF Sweep
<1> DEFINE t == now + 1
           off == {n \in Nodes : GoesDown(n, t)}
           on == {n \in Nodes : ComesUp(n)}
           metered == {n \in read : Crosses(n)}
<1>1. t \in 1..MaxTime
  BY <1>0, WatchAssumption DEF TypeOK, Completes
<1>2. /\ absent' \in [Nodes -> 0..MaxTime]
      /\ returned' \in [Nodes -> 0..MaxTime]
      /\ sighted' \in [Nodes -> 1..MaxTime]
  BY <1>0, ClockTypes DEF Completes
<1>3. down' \subseteq Nodes /\ muted' \subseteq Nodes
  BY <1>0 DEF Completes, TypeOK
<1>4. traffic' \in [Nodes -> (0..MaxPeriod) \X (0..2)]
  <2>1. \A n \in Nodes : began[n] \in 0..MaxPeriod
    BY WatchAssumption DEF TypeOK
  <2>2. \A n \in Nodes : <<began[n], Reached(n)>> \in (0..MaxPeriod) \X (0..2)
    BY <2>1, ReachedTyped
  <2> QED BY <1>0, <2>2 DEF Completes, TypeOK
<1>5. raised' \in [offline : SUBSET Nodes, online : SUBSET Nodes, traffic : SUBSET Nodes]
  BY <1>0 DEF Completes
<1>6. told' \in [Nodes -> {"nothing", "offline", "online"}]
  BY <1>0 DEF Completes, TypeOK
<1>7. alerted' \in [Nodes -> 0..MaxTime]
  BY <1>0, <1>1 DEF Completes, TypeOK
<1>8. crossed' \in [Nodes -> SUBSET (1..2)]
  <2>1. \A n \in metered : Reached(n) \in 1..2
    BY ReachedTyped DEF Crosses
  <2>2. crossed' = [n \in Nodes |-> IF n \in metered THEN crossed[n] \cup {Reached(n)}
                                   ELSE IF n \notin read /\ ~primed THEN {} ELSE crossed[n]]
    BY <1>0 DEF Completes
  <2> QED BY <2>1, <2>2 DEF TypeOK
<1>9. faults' \in 0..MaxFaults
  BY WatchAssumption DEF Sweep, TypeOK
<1> QED BY <1>0, <1>1, <1>2, <1>3, <1>4, <1>5, <1>6, <1>7, <1>8, <1>9 DEF Completes, TypeOK, usage

LEMMA FailedSweepTypes == TypeOK /\ SweepFails => TypeOK'
<1> SUFFICES ASSUME TypeOK, SweepFails PROVE TypeOK'
  OBVIOUS
<1>1. now' \in 1..MaxTime /\ faults' \in 0..MaxFaults
  BY WatchAssumption DEF TypeOK, SweepFails
<1>2. PICK k \in Nodes :
        /\ Clocks(1..k, now + 1)
        /\ down' = (down \cup {n \in {m \in Nodes : m < k} : GoesDown(n, now + 1)})
                     \ {n \in {m \in Nodes : m < k} : ComesUp(n)}
        /\ muted' = muted \cup SymDiff(down, down')
  BY DEF SweepFails
<1>3. /\ absent' \in [Nodes -> 0..MaxTime]
      /\ returned' \in [Nodes -> 0..MaxTime]
      /\ sighted' \in [Nodes -> 1..MaxTime]
  BY <1>2, ClockTypes DEF SweepFails
<1>4. down' \subseteq Nodes /\ muted' \subseteq Nodes
  BY <1>2 DEF TypeOK, SymDiff
<1>5. raised' \in [offline : SUBSET Nodes, online : SUBSET Nodes, traffic : SUBSET Nodes]
  BY DEF SweepFails, Nothing
<1> QED BY <1>1, <1>3, <1>4, <1>5 DEF SweepFails, TypeOK, usage

LEMMA RestartTypes == TypeOK /\ Restart => TypeOK'
<1> SUFFICES ASSUME TypeOK, Restart PROVE TypeOK'
  OBVIOUS
<1>1. /\ absent' \in [Nodes -> 0..MaxTime] /\ returned' \in [Nodes -> 0..MaxTime]
      /\ alerted' \in [Nodes -> 0..MaxTime] /\ sighted' \in [Nodes -> 1..MaxTime]
  BY WatchAssumption DEF Restart, Forget, TypeOK, Never
<1>2. traffic' \in [Nodes -> (0..MaxPeriod) \X (0..2)]
  <2>1. <<Never, 0>> \in (0..MaxPeriod) \X (0..2)
    BY WatchAssumption DEF Never
  <2> QED BY <2>1 DEF Restart, Forget
<1>3. raised' \in [offline : SUBSET Nodes, online : SUBSET Nodes, traffic : SUBSET Nodes]
  BY DEF Restart, Nothing
<1>4. primed' \in BOOLEAN /\ online' \subseteq Nodes
  BY DEF Restart, Forget
<1> QED BY <1>1, <1>2, <1>3, <1>4 DEF Restart, TypeOK, clock, rows, usage

LEMMA NextTypes == TypeOK /\ [Next]_vars => TypeOK'
<1>1. TypeOK /\ UNCHANGED vars => TypeOK'
  BY DEF TypeOK, vars, clock, rows, usage, watch, history
<1> QED BY <1>1, BetweenTypes, SweepTypes, FailedSweepTypes, RestartTypes DEF Next

(* The watcher's state keeps its type: no clock is ahead of the sweep that  *)
(* reads it, and a recorded step is one of a period that has begun.         *)
THEOREM WatchTypes == Spec => []TypeOK
BY InitTypes, NextTypes, PTL DEF Spec
-----------------------------------------------------------------------------
(* The grace period.                                                        *)

(* An absence began after the last sweep that found the node online, and    *)
(* after the process did.                                                   *)
AbsentSinceSighted ==
  \A n \in Nodes : sighted[n] <= now /\ (absent[n] # Never => absent[n] > sighted[n])

LEMMA InitSighted == Init => AbsentSinceSighted
BY DEF Init, AbsentSinceSighted

LEMMA ClocksKeepSighted ==
  ASSUME TypeOK, AbsentSinceSighted, NEW reached, Clocks(reached, now + 1), now' = now + 1
  PROVE  AbsentSinceSighted'
<1> SUFFICES ASSUME NEW n \in Nodes
             PROVE  sighted'[n] <= now' /\ (absent'[n] # Never => absent'[n] > sighted'[n])
  BY DEF AbsentSinceSighted
<1>1. /\ now \in Nat /\ absent[n] \in Nat /\ sighted[n] \in Nat
      /\ sighted[n] <= now /\ (absent[n] # Never => absent[n] > sighted[n])
  BY WatchAssumption DEF TypeOK, AbsentSinceSighted
<1>2. /\ absent'[n] = IF n \notin reached THEN absent[n]
                      ELSE IF n \in online THEN Never
                      ELSE IF Absent(n) THEN Since(n, now + 1) ELSE absent[n]
      /\ sighted'[n] = IF n \in reached /\ n \in online THEN now + 1 ELSE sighted[n]
  BY DEF Clocks
<1>3. Since(n, now + 1) > sighted[n]
  BY <1>1 DEF Since
<1> QED BY <1>1, <1>2, <1>3

LEMMA NextSighted == TypeOK /\ AbsentSinceSighted /\ [Next]_vars => AbsentSinceSighted'
<1> SUFFICES ASSUME TypeOK, AbsentSinceSighted, [Next]_vars PROVE AbsentSinceSighted'
  OBVIOUS
<1>1. CASE Between \/ UNCHANGED vars
  <2>1. UNCHANGED <<now, absent, sighted>>
    BY <1>1 DEF Between, Connect, Disconnect, Climb, Correct, Configure, NewPeriod,
         EditResetDay,                 vars, clock, rows, watch, history
  <2> QED BY <2>1 DEF AbsentSinceSighted
<1>2. CASE Sweep
  BY <1>2, ClocksKeepSighted DEF Sweep, Completes
<1>3. CASE SweepFails
  BY <1>3, ClocksKeepSighted DEF SweepFails
<1>4. CASE Restart
  BY <1>4 DEF Restart, Forget, AbsentSinceSighted, clock, TypeOK
<1> QED BY <1>1, <1>2, <1>3, <1>4 DEF Next

(* A node a sweep marks has been absent for the grace period at least.      *)
LEMMA GoneForLong ==
  ASSUME TypeOK, AbsentSinceSighted, NEW n \in Nodes, GoesDown(n, now + 1)
  PROVE  now + 1 - sighted[n] > Grace
<1>1. /\ now \in Nat /\ absent[n] \in Nat /\ sighted[n] \in Nat
      /\ (absent[n] # Never => absent[n] > sighted[n])
  BY WatchAssumption DEF TypeOK, AbsentSinceSighted
<1>2. Wait(n, Since(n, now + 1)) >= Grace
  BY WatchAssumption DEF Wait
<1>3. now + 1 - Since(n, now + 1) >= Grace
  <2>1. Wait(n, Since(n, now + 1)) \in Nat
    BY WatchAssumption DEF Wait
  <2>2. Since(n, now + 1) \in Nat
    BY <1>1 DEF Since
  <2>3. now + 1 - Since(n, now + 1) >= Wait(n, Since(n, now + 1))
    BY <1>1, <2>1, <2>2 DEF GoesDown
  <2> QED BY <1>1, <1>2, <2>1, <2>2, <2>3, WatchAssumption
<1>4. absent[n] # Never
  BY <1>1, <1>3, WatchAssumption DEF Since
<1>5. Since(n, now + 1) = absent[n]
  BY <1>4 DEF Since
<1> QED BY <1>1, <1>3, <1>4, <1>5, WatchAssumption

LEMMA StepsRespectGrace ==
  TypeOK /\ AbsentSinceSighted /\ [Next]_vars =>
    [\A n \in Nodes : alerted'[n] # alerted[n] /\ alerted'[n] # Never =>
       now' - sighted[n] > Grace]_vars
<1> SUFFICES ASSUME TypeOK, AbsentSinceSighted, [Next]_vars,
                    NEW n \in Nodes, alerted'[n] # alerted[n], alerted'[n] # Never
             PROVE  now' - sighted[n] > Grace
  OBVIOUS
<1>1. CASE Sweep
  <2>1. alerted'[n] = IF GoesDown(n, now + 1) THEN now + 1 ELSE alerted[n]
    BY <1>1 DEF Sweep, Completes
  <2>2. now' = now + 1
    BY <1>1 DEF Sweep, Completes
  <2>3. GoesDown(n, now + 1)
    BY <2>1
  <2>4. now + 1 - sighted[n] > Grace
    BY <2>3, GoneForLong
  <2>5. now \in Nat /\ sighted[n] \in Nat
    BY WatchAssumption DEF TypeOK
  <2> QED BY <2>2, <2>4, <2>5, WatchAssumption
<1>2. CASE Restart
  BY <1>2 DEF Restart
<1>3. CASE Between \/ SweepFails \/ UNCHANGED vars
  BY <1>3 DEF Between, Connect, Disconnect, Climb, Correct, Configure, NewPeriod,
         EditResetDay,               SweepFails, vars, history
<1> QED BY <1>1, <1>2, <1>3 DEF Next

(* No outage is announced within the grace period, counted from the last    *)
(* sweep that saw the node or from the start of the process, whichever came *)
(* later, and no setting of the flapping window shortens it (sweep).        *)
THEOREM GraceHolds == Spec => GraceRespected
BY InitTypes, NextTypes, InitSighted, NextSighted, StepsRespectGrace, PTL
   DEF Spec, GraceRespected
-----------------------------------------------------------------------------
(* Flapping.                                                                *)

(* Since this process announced an outage, either the node has come back,   *)
(* and the absence counted now began after that, or it is still marked and  *)
(* the absence announced still counted.  A sweep that fails between the     *)
(* clock and the mark of a node that is back leaves the first case.         *)
FlapInv ==
  \A n \in Nodes :
    /\ returned[n] <= now /\ alerted[n] <= now
    /\ absent[n] # Never => absent[n] > returned[n]
    /\ alerted[n] # Never =>
         \/ returned[n] > alerted[n]
         \/ n \in down /\ absent[n] # Never /\ alerted[n] - absent[n] >= Grace

LEMMA InitFlap == Init => FlapInv
BY DEF Init, FlapInv, Never

(* An absence that is announced was being counted.                          *)
LEMMA Announced ==
  ASSUME TypeOK, NEW n \in Nodes, GoesDown(n, now + 1)
  PROVE  /\ absent[n] # Never /\ Since(n, now + 1) = absent[n]
         /\ now + 1 - absent[n] >= Wait(n, absent[n]) /\ Wait(n, absent[n]) \in Nat
         /\ now + 1 - absent[n] >= Grace
<1>1. now \in Nat /\ absent[n] \in Nat /\ returned[n] \in Nat
  BY WatchAssumption DEF TypeOK
<1>2. /\ Wait(n, Since(n, now + 1)) \in Nat /\ Wait(n, Since(n, now + 1)) >= Grace
      /\ Wait(n, absent[n]) \in Nat
  BY WatchAssumption DEF Wait
<1>3. now + 1 - Since(n, now + 1) >= Wait(n, Since(n, now + 1))
  <2>1. Since(n, now + 1) \in Nat
    BY <1>1 DEF Since
  <2> QED BY <1>1, <1>2, <2>1 DEF GoesDown
<1>4. absent[n] # Never
  BY <1>1, <1>2, <1>3, WatchAssumption DEF Since
<1>5. Since(n, now + 1) = absent[n]
  BY <1>4 DEF Since
<1> QED BY <1>1, <1>2, <1>3, <1>4, <1>5, WatchAssumption

(* What a sweep does to one node's clocks and mark.                         *)
LEMMA SweptKeepsFlap ==
  ASSUME TypeOK, FlapInv, NEW n \in Nodes, NEW reached, Clocks(reached, now + 1),
         now' = now + 1,
         n \in down /\ n \notin down' => n \in reached /\ n \in online,
         \/ alerted'[n] = alerted[n]
         \/ GoesDown(n, now + 1) /\ n \in reached /\ n \in down' /\ alerted'[n] = now + 1
  PROVE  /\ returned'[n] <= now' /\ alerted'[n] <= now'
         /\ absent'[n] # Never => absent'[n] > returned'[n]
         /\ alerted'[n] # Never =>
              \/ returned'[n] > alerted'[n]
              \/ n \in down' /\ absent'[n] # Never /\ alerted'[n] - absent'[n] >= Grace
<1>1. /\ now \in Nat /\ absent[n] \in Nat /\ returned[n] \in Nat /\ alerted[n] \in Nat
      /\ Never = 0 /\ Grace \in Nat \ {0}
  BY WatchAssumption DEF TypeOK, Never
<1>2. /\ returned[n] <= now /\ alerted[n] <= now
      /\ absent[n] # Never => absent[n] > returned[n]
      /\ alerted[n] # Never =>
           \/ returned[n] > alerted[n]
           \/ n \in down /\ absent[n] # Never /\ alerted[n] - absent[n] >= Grace
  BY DEF FlapInv
<1>3. /\ absent'[n] = IF n \notin reached THEN absent[n]
                      ELSE IF n \in online THEN Never
                      ELSE IF Absent(n) THEN Since(n, now + 1) ELSE absent[n]
      /\ returned'[n] = IF n \in reached /\ n \in online /\ Back(n, now + 1) THEN now + 1
                        ELSE returned[n]
  BY DEF Clocks
<1>4. CASE alerted'[n] # alerted[n]
  <2>1. GoesDown(n, now + 1) /\ n \in reached /\ n \in down' /\ alerted'[n] = now + 1
    BY <1>4
  <2>2. n \notin online /\ Absent(n)
    BY <2>1 DEF GoesDown, Absent
  <2>3. absent[n] # Never /\ absent'[n] = absent[n] /\ now + 1 - absent[n] >= Grace
    BY <1>3, <2>1, <2>2, Announced
  <2> QED BY <1>1, <1>2, <1>3, <2>1, <2>2, <2>3
<1>5. CASE alerted'[n] = alerted[n] /\ n \in reached /\ n \in online
  <2>1. absent'[n] = Never
    BY <1>3, <1>5
  <2>2. CASE Back(n, now + 1)
    BY <1>1, <1>2, <1>3, <1>5, <2>1, <2>2
  <2>3. CASE ~Back(n, now + 1)
    <3>1. absent[n] = Never \/ ~(now + 1 - absent[n] >= Grace)
      BY <1>1, <2>3 DEF Back
    <3>2. returned'[n] = returned[n]
      BY <1>3, <2>3
    <3>3. alerted[n] # Never => returned[n] > alerted[n]
      BY <1>1, <1>2, <3>1
    <3> QED BY <1>1, <1>2, <1>5, <2>1, <3>2, <3>3
  <2> QED BY <2>2, <2>3
<1>6. CASE alerted'[n] = alerted[n] /\ ~(n \in reached /\ n \in online)
  <2>1. returned'[n] = returned[n] /\ (n \in down => n \in down')
    BY <1>3, <1>6
  <2>2. absent'[n] = absent[n] \/ (absent[n] = Never /\ absent'[n] = now + 1)
    BY <1>3, <1>6 DEF Since
  <2> QED BY <1>1, <1>2, <1>6, <2>1, <2>2
<1> QED BY <1>4, <1>5, <1>6

LEMMA NextFlap == TypeOK /\ FlapInv /\ [Next]_vars => FlapInv'
<1> SUFFICES ASSUME TypeOK, FlapInv, [Next]_vars PROVE FlapInv'
  OBVIOUS
<1>1. CASE Between \/ UNCHANGED vars
  <2>1. UNCHANGED <<now, absent, returned, alerted, down>>
    BY <1>1 DEF Between, Connect, Disconnect, Climb, Correct, Configure, NewPeriod,
         EditResetDay,                 vars, clock, rows, watch, history
  <2> QED BY <2>1 DEF FlapInv
<1>2. CASE Sweep
  <2> SUFFICES ASSUME NEW n \in Nodes
               PROVE  /\ returned'[n] <= now' /\ alerted'[n] <= now'
                      /\ absent'[n] # Never => absent'[n] > returned'[n]
                      /\ alerted'[n] # Never =>
                           \/ returned'[n] > alerted'[n]
                           \/ n \in down' /\ absent'[n] # Never /\ alerted'[n] - absent'[n] >= Grace
    BY DEF FlapInv
  <2>1. Clocks(Nodes, now + 1) /\ now' = now + 1
    BY <1>2 DEF Sweep, Completes
  <2>2. n \in down' <=> (n \in down \/ GoesDown(n, now + 1)) /\ ~ComesUp(n)
    BY <1>2 DEF Sweep, Completes
  <2>3. alerted'[n] = IF GoesDown(n, now + 1) THEN now + 1 ELSE alerted[n]
    BY <1>2 DEF Sweep, Completes
  <2>4. GoesDown(n, now + 1) => n \in down'
    BY <2>2, NotBoth
  <2>5. n \in down /\ n \notin down' => n \in online
    BY <2>2 DEF ComesUp
  <2> QED BY <2>1, <2>3, <2>4, <2>5, SweptKeepsFlap
<1>3. CASE SweepFails
  <2> SUFFICES ASSUME NEW n \in Nodes
               PROVE  /\ returned'[n] <= now' /\ alerted'[n] <= now'
                      /\ absent'[n] # Never => absent'[n] > returned'[n]
                      /\ alerted'[n] # Never =>
                           \/ returned'[n] > alerted'[n]
                           \/ n \in down' /\ absent'[n] # Never /\ alerted'[n] - absent'[n] >= Grace
    BY DEF FlapInv
  <2>1. PICK k \in Nodes :
          /\ Clocks(1..k, now + 1)
          /\ down' = (down \cup {m \in {j \in Nodes : j < k} : GoesDown(m, now + 1)})
                       \ {m \in {j \in Nodes : j < k} : ComesUp(m)}
    BY <1>3 DEF SweepFails
  <2>2. now' = now + 1 /\ alerted'[n] = alerted[n]
    BY <1>3 DEF SweepFails
  <2>3. n \in down /\ n \notin down' => n < k /\ n \in online
    BY <2>1 DEF ComesUp
  <2>4. n < k => n \in 1..k
    BY WatchAssumption DEF Nodes
  <2> QED BY <2>1, <2>2, <2>3, <2>4, SweptKeepsFlap
<1>4. CASE Restart
  <2>1. \A n \in Nodes : alerted'[n] = Never /\ returned'[n] = Never /\ absent'[n] = Never
    BY <1>4 DEF Restart, Forget
  <2>2. now' = now /\ now \in Nat /\ now >= Never
    BY <1>4, WatchAssumption DEF Restart, clock, TypeOK, Never
  <2> QED BY <2>1, <2>2 DEF FlapInv, Never
<1> QED BY <1>1, <1>2, <1>3, <1>4 DEF Next

LEMMA StepsAreQuiet ==
  TypeOK /\ FlapInv /\ [Next]_vars =>
    [\A n \in Nodes :
       alerted'[n] # alerted[n] /\ alerted'[n] # Never /\ alerted[n] # Never =>
         alerted'[n] - alerted[n] >= FLAP_GRACE]_vars
<1> SUFFICES ASSUME TypeOK, FlapInv, [Next]_vars, NEW n \in Nodes,
                    alerted'[n] # alerted[n], alerted'[n] # Never, alerted[n] # Never
             PROVE  alerted'[n] - alerted[n] >= FLAP_GRACE
  OBVIOUS
<1>1. CASE Sweep
  <2>1. alerted'[n] = now + 1 /\ GoesDown(n, now + 1)
    BY <1>1 DEF Sweep, Completes
  <2>2. n \notin down
    BY <2>1 DEF GoesDown
  <2>3. returned[n] > alerted[n] /\ (absent[n] # Never => absent[n] > returned[n])
    BY <2>2 DEF FlapInv
  <2>4. /\ absent[n] # Never /\ now + 1 - absent[n] >= Wait(n, absent[n])
        /\ Wait(n, absent[n]) \in Nat
    BY <2>1, Announced
  <2>5. /\ now \in Nat /\ absent[n] \in Nat /\ returned[n] \in Nat /\ alerted[n] \in Nat
        /\ Never = 0 /\ FLAP_GRACE \in Nat /\ FLAP_WINDOW \in Nat /\ FLAP_GRACE <= FLAP_WINDOW
    BY WatchAssumption DEF TypeOK, Never
  <2>6. CASE absent[n] - returned[n] < FLAP_WINDOW
    <3>1. Wait(n, absent[n]) = FLAP_GRACE
      BY <2>3, <2>5, <2>6 DEF Wait
    <3> QED BY <2>1, <2>3, <2>4, <2>5, <3>1
  <2>7. CASE ~(absent[n] - returned[n] < FLAP_WINDOW)
    BY <2>1, <2>3, <2>4, <2>5, <2>7
  <2> QED BY <2>6, <2>7
<1>2. CASE Restart
  BY <1>2 DEF Restart
<1>3. CASE Between \/ SweepFails \/ UNCHANGED vars
  BY <1>3 DEF Between, Connect, Disconnect, Climb, Correct, Configure, NewPeriod,
         EditResetDay,               SweepFails, vars, history
<1> QED BY <1>1, <1>2, <1>3 DEF Next

(* Two alerts of one process about outages of a node are FLAP_GRACE apart   *)
(* at least, also when a write fails between its clock and its mark         *)
(* (Watch::returned, FLAP_WINDOW).                                          *)
THEOREM FlappingStaysQuiet == Spec => FlappingIsQuiet
BY InitTypes, NextTypes, InitFlap, NextFlap, StepsAreQuiet, PTL DEF Spec, FlappingIsQuiet
-----------------------------------------------------------------------------
(* Traffic steps.                                                           *)

(* No announced step lies above the counter; once the watcher has swept,    *)
(* the step recorded covers every one announced in this period.             *)
Covered(n, s) ==
  s <= Reached(n) /\ (primed => traffic[n][1] = began[n] /\ s <= traffic[n][2])

StepInv == \A n \in Nodes : \A s \in crossed[n] : Covered(n, s)

LEMMA InitStep == Init => StepInv
BY DEF Init, StepInv

(* A node whose traffic and record stay as they are.                        *)
LEMMA StaysCovered ==
  ASSUME NEW n \in Nodes, NEW s, Covered(n, s),
         UNCHANGED <<began[n], step[n], stamp[n], primed, traffic[n]>>
  PROVE  Covered(n, s)'
BY DEF Covered, Reached

LEMMA BetweenStep == TypeOK /\ StepInv /\ Between => StepInv'
<1> SUFFICES ASSUME TypeOK, StepInv, Between, NEW m \in Nodes, NEW s \in crossed'[m]
             PROVE  Covered(m, s)'
  BY DEF StepInv
<1>1. UNCHANGED <<primed, traffic>>
  BY DEF Between, Connect, Disconnect, Climb, Correct, Configure, NewPeriod, EditResetDay, watch
<1>2. s \in crossed[m]
  BY DEF Between, Connect, Disconnect, Climb, Correct, Configure, NewPeriod, EditResetDay, history, TypeOK
<1>3. Covered(m, s) /\ s \in 1..2
  BY <1>2 DEF StepInv, TypeOK
<1>4. CASE (\E n \in Nodes : Connect(n) \/ Disconnect(n)) \/ Configure
  <2>1. UNCHANGED <<began, step, stamp>>
    BY <1>4 DEF Connect, Disconnect, Configure, rows, usage
  <2> QED BY <1>1, <1>3, <2>1, StaysCovered
<1>5. ASSUME NEW n \in Nodes, Climb(n) PROVE Covered(m, s)'
  <2>1. CASE m # n
    <3>1. UNCHANGED <<began[m], step[m], stamp[m]>>
      BY <1>5, <2>1 DEF Climb, TypeOK
    <3> QED BY <1>1, <1>3, <3>1, StaysCovered
  <2>2. CASE m = n
    <3>1. PICK x \in {Reached(n), Reached(n) + 1} : step' = [step EXCEPT ![n] = x]
      BY <1>5 DEF Climb
    <3>2. began' = began /\ step'[n] = x /\ stamp'[n] = began[n]
      BY <1>5, <3>1 DEF Climb, TypeOK
    <3>3. Reached(n)' = x
      BY <3>2 DEF Reached
    <3>4. s <= x
      BY <1>3, <2>2, ReachedTyped DEF Covered
    <3> QED BY <1>1, <1>3, <2>2, <3>2, <3>3, <3>4 DEF Covered
  <2> QED BY <2>1, <2>2
<1>6. ASSUME NEW n \in Nodes, Correct(n) PROVE Covered(m, s)'
  <2>1. CASE m # n
    <3>1. UNCHANGED <<began[m], step[m], stamp[m]>>
      BY <1>6, <2>1 DEF Correct, TypeOK
    <3> QED BY <1>1, <1>3, <3>1, StaysCovered
  <2>2. CASE m = n
    <3>1. began' = began /\ stamp' = stamp /\ s \in 1..step'[n]
      BY <1>6, <2>2 DEF Correct, TypeOK
    <3>2. stamp[n] = began[n]
      BY <1>6 DEF Correct, Reached
    <3>3. Reached(n)' = step'[n]
      BY <3>1, <3>2 DEF Reached
    <3> QED BY <1>1, <1>3, <2>2, <3>1, <3>3 DEF Covered
  <2> QED BY <2>1, <2>2
<1>7. CASE NewPeriod
  <2>1. UNCHANGED <<began[m], step, stamp>>
    BY <1>7 DEF NewPeriod
  <2> QED BY <1>1, <1>3, <2>1, StaysCovered
<1>8. ASSUME NEW n \in Nodes, EditResetDay(n) PROVE Covered(m, s)'
  <2>1. m # n
    BY <1>8 DEF EditResetDay, TypeOK
  <2>2. UNCHANGED <<began[m], step, stamp>>
    BY <1>8, <2>1 DEF EditResetDay, TypeOK
  <2> QED BY <1>1, <1>3, <2>2, StaysCovered
<1> QED BY <1>4, <1>5, <1>6, <1>7, <1>8 DEF Between

LEMMA SweepStep == TypeOK /\ StepInv /\ Sweep => StepInv'
<1> SUFFICES ASSUME TypeOK, StepInv, Sweep, NEW n \in Nodes, NEW s \in crossed'[n]
             PROVE  Covered(n, s)'
  BY DEF StepInv
<1>1. PICK read \in SUBSET Nodes : Completes(read)
  BY DEF Sweep
<1>2. /\ UNCHANGED <<began, step, stamp>>
      /\ traffic'[n] = IF n \in read THEN <<began[n], Reached(n)>> ELSE traffic[n]
      /\ crossed'[n] = IF n \in read /\ Crosses(n) THEN crossed[n] \cup {Reached(n)}
                       ELSE IF n \notin read /\ ~primed THEN {} ELSE crossed[n]
  BY <1>1 DEF Completes, usage
<1>3. Reached(n)' = Reached(n)
  BY <1>2 DEF Reached
<1>4. CASE n \in read
  <2>1. s <= Reached(n)
    <3>1. CASE s \in crossed[n]
      BY <3>1 DEF StepInv, Covered
    <3>2. CASE s = Reached(n)
      BY <3>2, ReachedTyped
    <3> QED BY <1>2, <1>4, <3>1, <3>2
  <2>2. traffic'[n][1] = began[n] /\ traffic'[n][2] = Reached(n)
    BY <1>2, <1>4
  <2> QED BY <1>2, <1>3, <2>1, <2>2 DEF Covered
<1>5. CASE n \notin read
  <2>1. primed /\ s \in crossed[n] /\ traffic'[n] = traffic[n]
    BY <1>2, <1>5
  <2>2. Covered(n, s)
    BY <2>1 DEF StepInv
  <2> QED BY <1>2, <1>3, <2>1, <2>2 DEF Covered
<1> QED BY <1>4, <1>5

LEMMA NextStep == TypeOK /\ StepInv /\ [Next]_vars => StepInv'
<1> SUFFICES ASSUME TypeOK, StepInv, [Next]_vars PROVE StepInv'
  OBVIOUS
<1>1. CASE SweepFails \/ UNCHANGED vars
  <2>1. UNCHANGED <<crossed, began, step, stamp, primed, traffic>>
    BY <1>1 DEF SweepFails, vars, rows, usage, watch, history
  <2> QED BY <2>1, StaysCovered DEF StepInv
<1>2. CASE Restart
  <2>1. UNCHANGED <<crossed, began, step, stamp>> /\ primed' = FALSE
    BY <1>2 DEF Restart, Forget, rows, usage
  <2> QED BY <2>1 DEF StepInv, Covered, Reached
<1> QED BY <1>1, <1>2, BetweenStep, SweepStep DEF Next

LEMMA StepsRise ==
  TypeOK /\ StepInv /\ [Next]_vars =>
    [now' # now => \A n \in raised'.traffic : \A s \in crossed[n] : s < Reached(n)]_vars
<1> SUFFICES ASSUME TypeOK, StepInv, [Next]_vars, now' # now,
                    NEW n \in raised'.traffic, NEW s \in crossed[n]
             PROVE  s < Reached(n)
  OBVIOUS
<1>1. CASE Sweep
  <2>1. n \in Nodes /\ Crosses(n)
    BY <1>1 DEF Sweep, Completes
  <2>2. primed /\ ~(traffic[n][1] = began[n] /\ traffic[n][2] >= Reached(n))
    BY <2>1 DEF Crosses
  <2>3. traffic[n][1] = began[n] /\ s <= traffic[n][2]
    BY <2>1, <2>2 DEF StepInv, Covered
  <2>4. s \in Nat /\ Reached(n) \in Nat /\ traffic[n][2] \in Nat
    BY <2>1, ReachedTyped DEF TypeOK
  <2> QED BY <2>2, <2>3, <2>4
<1>2. CASE SweepFails
  BY <1>2 DEF SweepFails, Nothing
<1> QED BY <1>1, <1>2, OthersKeepMarks DEF Next

(* A step of the allowance is announced once in a billing period, and never *)
(* a lower one after a higher one, through restarts, failed writes and      *)
(* failed reads, short of the corrections, edits and first sweeps that      *)
(* StepsOnce names (Watch::primed, Watch::traffic).                         *)
THEOREM StepsAnnouncedOnce == Spec => StepsOnce
BY InitTypes, NextTypes, InitStep, NextStep, StepsRise, PTL DEF Spec, StepsOnce

-----------------------------------------------------------------------------
(* Sums over finite sets.  A sum is a fold, which the library defines by    *)
(* the function of all subsets that unrolls itself.  Each fact below is     *)
(* shown on the smallest subset it could fail for.                          *)
Picked(s) == CHOOSE x \in s : TRUE

Unrolled(f, S, g) ==
  [s \in SUBSET S |-> IF s = {} THEN 0 ELSE f[Picked(s)] + g[s \ {Picked(s)}]]

(* A set of naturals has a least element.                                   *)
LEMMA LeastNumber ==
  ASSUME NEW T, T \subseteq Nat, T # {}
  PROVE  \E x \in T : \A y \in T : x <= y
<1> DEFINE R == {ss \in Nat \X Nat : ss[1] < ss[2]}
<1>1. IsWellFoundedOn(R, Nat)
  BY NatLessThanWellFounded DEF OpToRel
<1>2. PICK x \in T : \A y \in T : ~(<<y, x>> \in R)
  <2> HIDE DEF R
  <2> QED BY <1>1, WFMin
<1>3. ASSUME NEW y \in T PROVE x <= y
  <2>1. x \in Nat /\ y \in Nat
    OBVIOUS
  <2>2. y < x => <<y, x>> \in R
    BY <2>1
  <2> QED BY <1>2, <2>1, <2>2
<1> QED BY <1>3

(* Among subsets of a finite set there is one that has no other inside.     *)
LEMMA Smallest ==
  ASSUME NEW S, IsFiniteSet(S), NEW B, B \subseteq SUBSET S, B # {}
  PROVE  \E T \in B : \A U \in SUBSET T : U # T => U \notin B
<1> DEFINE Sizes == {Cardinality(T) : T \in B}
<1>1. ASSUME NEW T \in SUBSET S PROVE IsFiniteSet(T) /\ Cardinality(T) \in Nat
  BY FS_Subset, FS_CardinalityType
<1>2. Sizes \subseteq Nat /\ Sizes # {}
  BY <1>1
<1>3. PICK n \in Sizes : \A k \in Sizes : n <= k
  <2> HIDE DEF Sizes
  <2> QED BY <1>2, LeastNumber
<1>4. PICK T \in B : n = Cardinality(T)
  BY <1>3
<1>5. ASSUME NEW U \in SUBSET T, U # T, U \in B PROVE FALSE
  <2>1. IsFiniteSet(T) /\ Cardinality(T) \in Nat /\ Cardinality(U) \in Nat
    BY <1>1
  <2>2. Cardinality(U) <= Cardinality(T) /\ Cardinality(T) # Cardinality(U)
    BY <2>1, <1>5, FS_Subset
  <2>3. Cardinality(T) <= Cardinality(U)
    BY <1>3, <1>4, <1>5
  <2> QED BY <2>1, <2>2, <2>3
<1> QED BY <1>4, <1>5

(* A sum is the value, at the whole set, of the function that unrolls       *)
(* itself.                                                                  *)
LEMMA SumFold ==
  ASSUME NEW f, NEW S
  PROVE  SumFunctionOnSet(f, S) = (CHOOSE g : g = Unrolled(f, S, g))[S]
BY DEF SumFunctionOnSet, FoldFunctionOnSet, MapThenFoldSet, Unrolled, Picked

LEMMA PickedIn == ASSUME NEW s, s # {} PROVE Picked(s) \in s
BY DEF Picked

(* Only one function unrolls itself.                                        *)
LEMMA OneUnrolled ==
  ASSUME NEW S, IsFiniteSet(S), NEW f, NEW g, NEW h,
         g = Unrolled(f, S, g), h = Unrolled(f, S, h)
  PROVE  g[S] = h[S]
<1> DEFINE B == {s \in SUBSET S : g[s] # h[s]}
<1>1. SUFFICES ASSUME B # {} PROVE FALSE
  OBVIOUS
<1>2. PICK T \in B : \A U \in SUBSET T : U # T => U \notin B
  <2> HIDE DEF B
  <2>1. B \subseteq SUBSET S
    BY DEF B
  <2> QED BY <1>1, <2>1, Smallest
<1>3. T \in SUBSET S /\ g[T] # h[T]
  BY <1>2
<1>4. /\ g[T] = IF T = {} THEN 0 ELSE f[Picked(T)] + g[T \ {Picked(T)}]
      /\ h[T] = IF T = {} THEN 0 ELSE f[Picked(T)] + h[T \ {Picked(T)}]
  BY <1>3 DEF Unrolled
<1>5. T # {} /\ Picked(T) \in T
  BY <1>3, <1>4, PickedIn
<1>6. T \ {Picked(T)} \in SUBSET T /\ T \ {Picked(T)} # T
  BY <1>5
<1>7. T \ {Picked(T)} \notin B
  BY <1>2, <1>6
<1>8. g[T \ {Picked(T)}] = h[T \ {Picked(T)}]
  BY <1>3, <1>7
<1> QED BY <1>3, <1>4, <1>5, <1>8

(* A sum takes out the picked element.                                      *)
LEMMA SumUnrolls ==
  ASSUME NEW f, NEW S, IsFiniteSet(S)
  PROVE  SumFunctionOnSet(f, S) =
           IF S = {} THEN 0 ELSE f[Picked(S)] + SumFunctionOnSet(f, S \ {Picked(S)})
<1> DEFINE Unroll(s) ==
             IF s = {} THEN 0 ELSE f[Picked(s)] + SumFunctionOnSet(f, s \ {Picked(s)})
           B == {s \in SUBSET S : SumFunctionOnSet(f, s) # Unroll(s)}
<1>1. SUFFICES ASSUME B # {} PROVE FALSE
  OBVIOUS
<1>2. PICK T \in B : \A U \in SUBSET T : U # T => U \notin B
  <2> HIDE DEF B
  <2>1. B \subseteq SUBSET S
    BY DEF B
  <2> QED BY <1>1, <2>1, Smallest
<1> DEFINE g == [s \in SUBSET T |-> IF s = T THEN Unroll(T) ELSE SumFunctionOnSet(f, s)]
<1>3. T \in SUBSET S /\ SumFunctionOnSet(f, T) # Unroll(T) /\ IsFiniteSet(T)
  BY <1>2, FS_Subset
<1>4. ASSUME NEW s \in SUBSET T
      PROVE  g[s] = IF s = {} THEN 0 ELSE f[Picked(s)] + g[s \ {Picked(s)}]
  <2>1. g[s] = Unroll(s)
    <3>1. CASE s = T
      BY <3>1
    <3>2. CASE s # T
      <4>1. s \notin B /\ s \in SUBSET S
        BY <1>2, <1>3, <3>2
      <4>2. SumFunctionOnSet(f, s) = Unroll(s)
        BY <4>1
      <4> HIDE DEF Unroll
      <4> QED BY <3>2, <4>2
    <3> QED BY <3>1, <3>2
  <2>2. CASE s = {}
    BY <2>1, <2>2
  <2>3. CASE s # {}
    <3>1. Picked(s) \in s
      BY <2>3, PickedIn
    <3>2. s \ {Picked(s)} \in SUBSET T /\ s \ {Picked(s)} # T
      BY <3>1
    <3>3. g[s \ {Picked(s)}] = SumFunctionOnSet(f, s \ {Picked(s)})
      BY <3>2
    <3>4. g[s] = f[Picked(s)] + SumFunctionOnSet(f, s \ {Picked(s)})
      BY <2>1, <2>3
    <3> QED BY <3>3, <3>4, <2>3
  <2> QED BY <2>2, <2>3
<1>5. g = Unrolled(f, T, g)
  <2>1. g = [s \in SUBSET T |-> g[s]]
    OBVIOUS
  <2> HIDE DEF g
  <2> QED BY <1>4, <2>1 DEF Unrolled
<1> DEFINE h == CHOOSE x : x = Unrolled(f, T, x)
<1>6. h = Unrolled(f, T, h)
  <2> HIDE DEF g
  <2>1. \E x : x = Unrolled(f, T, x)
    BY <1>5
  <2> QED BY <2>1
<1>7. SumFunctionOnSet(f, T) = h[T]
  BY SumFold
<1>8. g[T] = Unroll(T)
  OBVIOUS
<1>9. h[T] = g[T]
  <2> HIDE DEF g, h
  <2> QED BY <1>3, <1>5, <1>6, OneUnrolled
<1> QED BY <1>3, <1>7, <1>8, <1>9

(* It is a natural, and zero where there is nothing to add.                 *)
LEMMA SumNat ==
  ASSUME NEW S, IsFiniteSet(S), NEW f, \A x \in S : f[x] \in Nat
  PROVE  SumFunctionOnSet(f, S) \in Nat
<1> DEFINE B == {s \in SUBSET S : SumFunctionOnSet(f, s) \notin Nat}
<1>1. SUFFICES ASSUME B # {} PROVE FALSE
  OBVIOUS
<1>2. PICK T \in B : \A U \in SUBSET T : U # T => U \notin B
  <2> HIDE DEF B
  <2>1. B \subseteq SUBSET S
    BY DEF B
  <2> QED BY <1>1, <2>1, Smallest
<1>3. T \in SUBSET S /\ SumFunctionOnSet(f, T) \notin Nat /\ IsFiniteSet(T)
  BY <1>2, FS_Subset
<1>4. SumFunctionOnSet(f, T) =
        IF T = {} THEN 0 ELSE f[Picked(T)] + SumFunctionOnSet(f, T \ {Picked(T)})
  BY <1>3, SumUnrolls
<1>5. T # {} /\ Picked(T) \in T
  BY <1>3, <1>4, PickedIn
<1>6. T \ {Picked(T)} \in SUBSET T /\ T \ {Picked(T)} # T
  BY <1>5
<1>7. SumFunctionOnSet(f, T \ {Picked(T)}) \in Nat
  BY <1>2, <1>3, <1>6
<1>8. f[Picked(T)] \in Nat
  BY <1>3, <1>5
<1> QED BY <1>3, <1>4, <1>5, <1>7, <1>8

(* Zeros add up to zero.                                                    *)
LEMMA SumZero ==
  ASSUME NEW S, IsFiniteSet(S), NEW f, \A x \in S : f[x] = 0
  PROVE  SumFunctionOnSet(f, S) = 0
<1> DEFINE B == {s \in SUBSET S : SumFunctionOnSet(f, s) # 0}
<1>1. SUFFICES ASSUME B # {} PROVE FALSE
  OBVIOUS
<1>2. PICK T \in B : \A U \in SUBSET T : U # T => U \notin B
  <2> HIDE DEF B
  <2>1. B \subseteq SUBSET S
    BY DEF B
  <2> QED BY <1>1, <2>1, Smallest
<1>3. T \in SUBSET S /\ SumFunctionOnSet(f, T) # 0 /\ IsFiniteSet(T)
  BY <1>2, FS_Subset
<1>4. SumFunctionOnSet(f, T) =
        IF T = {} THEN 0 ELSE f[Picked(T)] + SumFunctionOnSet(f, T \ {Picked(T)})
  BY <1>3, SumUnrolls
<1>5. T # {} /\ Picked(T) \in T
  BY <1>3, <1>4, PickedIn
<1>6. T \ {Picked(T)} \in SUBSET T /\ T \ {Picked(T)} # T
  BY <1>5
<1>7. SumFunctionOnSet(f, T \ {Picked(T)}) = 0
  BY <1>2, <1>3, <1>6
<1>8. f[Picked(T)] = 0
  BY <1>3, <1>5
<1> QED BY <1>3, <1>4, <1>5, <1>7, <1>8

(* It depends on the values in the set alone.                               *)
LEMMA SumAgrees ==
  ASSUME NEW S, IsFiniteSet(S), NEW f, NEW g, \A x \in S : f[x] = g[x]
  PROVE  SumFunctionOnSet(f, S) = SumFunctionOnSet(g, S)
<1> DEFINE B == {s \in SUBSET S : SumFunctionOnSet(f, s) # SumFunctionOnSet(g, s)}
<1>1. SUFFICES ASSUME B # {} PROVE FALSE
  OBVIOUS
<1>2. PICK T \in B : \A U \in SUBSET T : U # T => U \notin B
  <2> HIDE DEF B
  <2>1. B \subseteq SUBSET S
    BY DEF B
  <2> QED BY <1>1, <2>1, Smallest
<1>3. T \in SUBSET S /\ SumFunctionOnSet(f, T) # SumFunctionOnSet(g, T) /\ IsFiniteSet(T)
  BY <1>2, FS_Subset
<1>4. /\ SumFunctionOnSet(f, T) =
           IF T = {} THEN 0 ELSE f[Picked(T)] + SumFunctionOnSet(f, T \ {Picked(T)})
      /\ SumFunctionOnSet(g, T) =
           IF T = {} THEN 0 ELSE g[Picked(T)] + SumFunctionOnSet(g, T \ {Picked(T)})
  BY <1>3, SumUnrolls
<1>5. T # {} /\ Picked(T) \in T
  BY <1>3, <1>4, PickedIn
<1>6. T \ {Picked(T)} \in SUBSET T /\ T \ {Picked(T)} # T
  BY <1>5
<1>7. SumFunctionOnSet(f, T \ {Picked(T)}) = SumFunctionOnSet(g, T \ {Picked(T)})
  BY <1>2, <1>3, <1>6
<1>8. f[Picked(T)] = g[Picked(T)]
  BY <1>3, <1>5
<1> QED BY <1>3, <1>4, <1>5, <1>7, <1>8

(* Any element may be taken out, not only the picked one.                   *)
LEMMA SumTakesOut ==
  ASSUME NEW S, IsFiniteSet(S), NEW f, \A x \in S : f[x] \in Nat, NEW e \in S
  PROVE  SumFunctionOnSet(f, S) = f[e] + SumFunctionOnSet(f, S \ {e})
<1> DEFINE B == {s \in SUBSET S : \E x \in s :
                   SumFunctionOnSet(f, s) # f[x] + SumFunctionOnSet(f, s \ {x})}
<1>1. SUFFICES ASSUME B # {} PROVE FALSE
  OBVIOUS
<1>2. PICK T \in B : \A U \in SUBSET T : U # T => U \notin B
  <2> HIDE DEF B
  <2>1. B \subseteq SUBSET S
    BY DEF B
  <2> QED BY <1>1, <2>1, Smallest
<1>3. PICK x \in T : SumFunctionOnSet(f, T) # f[x] + SumFunctionOnSet(f, T \ {x})
  BY <1>2
<1>4. T \in SUBSET S /\ T # {} /\ IsFiniteSet(T)
  BY <1>2, <1>3, FS_Subset
<1> DEFINE p == Picked(T)
<1>5. p \in T /\ SumFunctionOnSet(f, T) = f[p] + SumFunctionOnSet(f, T \ {p})
  BY <1>4, PickedIn, SumUnrolls
<1> HIDE DEF p
<1>6. p # x
  BY <1>3, <1>5
<1>7. /\ T \ {p} \in SUBSET T /\ T \ {p} # T /\ x \in T \ {p}
      /\ T \ {x} \in SUBSET T /\ T \ {x} # T /\ p \in T \ {x}
  BY <1>5, <1>6
<1>8. T \ {p} \notin B /\ T \ {x} \notin B /\ T \ {p} \in SUBSET S /\ T \ {x} \in SUBSET S
  BY <1>2, <1>4, <1>7
<1>9. /\ SumFunctionOnSet(f, T \ {p}) = f[x] + SumFunctionOnSet(f, (T \ {p}) \ {x})
      /\ SumFunctionOnSet(f, T \ {x}) = f[p] + SumFunctionOnSet(f, (T \ {x}) \ {p})
  BY <1>7, <1>8
<1>10. (T \ {p}) \ {x} = (T \ {x}) \ {p}
  OBVIOUS
<1>11. f[x] \in Nat /\ f[p] \in Nat
  BY <1>4, <1>5
<1>12. IsFiniteSet((T \ {x}) \ {p}) /\ \A y \in (T \ {x}) \ {p} : f[y] \in Nat
  BY <1>4, FS_Subset
<1>13. SumFunctionOnSet(f, (T \ {x}) \ {p}) \in Nat
  BY <1>12, SumNat
<1> DEFINE c == SumFunctionOnSet(f, (T \ {x}) \ {p})
<1>14. SumFunctionOnSet(f, T) = f[p] + (f[x] + c)
  BY <1>5, <1>9, <1>10
<1>15. f[x] + SumFunctionOnSet(f, T \ {x}) = f[x] + (f[p] + c)
  BY <1>9
<1>16. c \in Nat
  BY <1>13
<1> HIDE DEF c
<1>17. f[p] + (f[x] + c) = f[x] + (f[p] + c)
  BY <1>11, <1>16
<1> QED BY <1>3, <1>14, <1>15, <1>17

(* It follows a change of one value.                                        *)
LEMMA SumFollows ==
  ASSUME NEW S, IsFiniteSet(S), NEW f, NEW g, NEW e,
         \A x \in S : f[x] \in Nat /\ g[x] \in Nat, \A x \in S : x # e => f[x] = g[x]
  PROVE  /\ SumFunctionOnSet(f, S) \in Nat /\ SumFunctionOnSet(g, S) \in Nat
         /\ e \in S => SumFunctionOnSet(g, S) + f[e] = SumFunctionOnSet(f, S) + g[e]
         /\ e \notin S => SumFunctionOnSet(g, S) = SumFunctionOnSet(f, S)
<1>1. SumFunctionOnSet(f, S) \in Nat /\ SumFunctionOnSet(g, S) \in Nat
  BY SumNat
<1>2. IsFiniteSet(S \ {e})
  BY FS_Subset
<1>3. SumFunctionOnSet(f, S \ {e}) = SumFunctionOnSet(g, S \ {e})
  BY <1>2, SumAgrees
<1>4. CASE e \in S
  <2>1. /\ SumFunctionOnSet(f, S) = f[e] + SumFunctionOnSet(f, S \ {e})
        /\ SumFunctionOnSet(g, S) = g[e] + SumFunctionOnSet(g, S \ {e})
    BY <1>4, SumTakesOut
  <2>2. SumFunctionOnSet(f, S \ {e}) \in Nat /\ f[e] \in Nat /\ g[e] \in Nat
    BY <1>2, <1>4, SumNat
  <2> QED BY <1>1, <1>3, <1>4, <2>1, <2>2
<1>5. CASE e \notin S
  <2>1. S \ {e} = S
    BY <1>5
  <2> QED BY <1>1, <1>3, <1>5, <2>1
<1> QED BY <1>4, <1>5

-----------------------------------------------------------------------------
(* The calendar.                                                            *)
LEMMA MonthLength ==
  ASSUME NEW m \in 1..Len(MonthLengths) PROVE MonthLengths[m] \in Nat /\ MonthLengths[m] > 0
<1>1. MonthLengths \in Seq(Nat \ {0})
  BY TrafficAssumption
<1> QED BY <1>1

(* The months lie end to end.                                               *)
LEMMA LastOfStep ==
  /\ Len(MonthLengths) \in Nat /\ LastOf[0] = 0
  /\ \A m \in 0..Len(MonthLengths) : LastOf[m] \in Nat
  /\ \A m \in 1..Len(MonthLengths) : LastOf[m] = LastOf[m - 1] + MonthLengths[m]
<1>1. Len(MonthLengths) \in Nat
  BY TrafficAssumption
<1>2. ASSUME NEW m \in 0..Len(MonthLengths)
      PROVE  LastOf[m] = SumFunctionOnSet(MonthLengths, 1..m) /\ LastOf[m] \in Nat
             /\ IsFiniteSet(1..m) /\ \A k \in 1..m : MonthLengths[k] \in Nat
  <2>1. IsFiniteSet(1..m)
    BY <1>1, FS_Interval
  <2>2. ASSUME NEW k \in 1..m PROVE MonthLengths[k] \in Nat
    BY <1>1, MonthLength
  <2>3. LastOf[m] = SumFunctionOnSet(MonthLengths, 1..m)
    BY DEF LastOf
  <2> QED BY <2>1, <2>2, <2>3, SumNat
<1>3. LastOf[0] = 0
  <2>1. 1..0 = {} /\ 0 \in 0..Len(MonthLengths)
    BY <1>1
  <2>2. SumFunctionOnSet(MonthLengths, {}) = 0
    BY FS_EmptySet, SumZero
  <2> QED BY <1>2, <2>1, <2>2
<1>4. ASSUME NEW m \in 1..Len(MonthLengths)
      PROVE  LastOf[m] = LastOf[m - 1] + MonthLengths[m]
  <2>1. m \in 0..Len(MonthLengths) /\ m - 1 \in 0..Len(MonthLengths) /\ m \in 1..m
        /\ (1..m) \ {m} = 1..(m - 1)
    BY <1>1
  <2>2. SumFunctionOnSet(MonthLengths, 1..m) =
          MonthLengths[m] + SumFunctionOnSet(MonthLengths, (1..m) \ {m})
    BY <1>2, <2>1, SumTakesOut
  <2>3. LastOf[m] = MonthLengths[m] + LastOf[m - 1]
    BY <1>2, <2>1, <2>2
  <2>4. LastOf[m - 1] \in Nat /\ MonthLengths[m] \in Nat
    BY <1>2, <2>1, MonthLength
  <2> QED BY <2>3, <2>4
<1> QED BY <1>1, <1>2, <1>3, <1>4

(* A later month ends later.                                                *)
LEMMA LastOfGrows ==
  ASSUME NEW a \in 0..Len(MonthLengths), NEW b \in 0..Len(MonthLengths), a <= b
  PROVE  LastOf[a] <= LastOf[b]
<1> DEFINE B == {k \in a..b : LastOf[k] < LastOf[a]}
<1>1. Len(MonthLengths) \in Nat /\ a \in Nat /\ b \in Nat
  BY LastOfStep
<1>2. SUFFICES ASSUME B # {} PROVE FALSE
  <2>1. b \in a..b
    BY <1>1
  <2>2. LastOf[a] \in Nat /\ LastOf[b] \in Nat
    BY LastOfStep
  <2> QED BY <2>1, <2>2
<1>3. PICK k \in B : \A j \in B : k <= j
  <2>1. B \subseteq Nat
    BY <1>1
  <2> HIDE DEF B
  <2> QED BY <1>2, <2>1, LeastNumber
<1>4. k \in a..b /\ LastOf[k] < LastOf[a]
  BY <1>3
<1>5. k # a
  BY <1>4, LastOfStep
<1>6. k - 1 \in a..b /\ k - 1 < k /\ k \in 1..Len(MonthLengths) /\ k - 1 \in 0..Len(MonthLengths)
  BY <1>1, <1>4, <1>5
<1>7. k - 1 \notin B
  BY <1>3, <1>6
<1>8. ~(LastOf[k - 1] < LastOf[a])
  BY <1>6, <1>7
<1>9. LastOf[k] = LastOf[k - 1] + MonthLengths[k] /\ MonthLengths[k] \in Nat
  BY <1>6, LastOfStep, MonthLength
<1>10. LastOf[k - 1] \in Nat /\ LastOf[a] \in Nat /\ LastOf[k] \in Nat
  BY <1>1, <1>6, LastOfStep
<1> QED BY <1>4, <1>8, <1>9, <1>10

(* A day is in the one month it lies in, and the Hub's first day is not in  *)
(* the first.                                                               *)
LEMMA MonthIs ==
  ASSUME NEW d \in Nat, NEW m \in 1..Len(MonthLengths), LastOf[m - 1] < d, d <= LastOf[m]
  PROVE  MonthOf(d) = m
<1>1. Len(MonthLengths) \in Nat /\ DOMAIN MonthLengths = 1..Len(MonthLengths)
  BY TrafficAssumption
<1>2. ASSUME NEW k \in 1..Len(MonthLengths), LastOf[k - 1] < d, d <= LastOf[k]
      PROVE  k = m
  <2>1. /\ k \in Int /\ m \in Int /\ k \in 0..Len(MonthLengths) /\ m \in 0..Len(MonthLengths)
        /\ k - 1 \in 0..Len(MonthLengths) /\ m - 1 \in 0..Len(MonthLengths)
    BY <1>1
  <2>2. /\ LastOf[k] \in Nat /\ LastOf[m] \in Nat
        /\ LastOf[k - 1] \in Nat /\ LastOf[m - 1] \in Nat
    BY <2>1, LastOfStep
  <2>3. ASSUME k < m PROVE FALSE
    <3>1. k <= m - 1
      BY <2>1, <2>3
    <3>2. LastOf[k] <= LastOf[m - 1]
      BY <2>1, <3>1, LastOfGrows
    <3> QED BY <1>2, <2>2, <3>2
  <2>4. ASSUME m < k PROVE FALSE
    <3>1. m <= k - 1
      BY <2>1, <2>4
    <3>2. LastOf[m] <= LastOf[k - 1]
      BY <2>1, <3>1, LastOfGrows
    <3> QED BY <1>2, <2>2, <3>2
  <2> QED BY <2>1, <2>3, <2>4
<1> QED BY <1>1, <1>2 DEF MonthOf

(* Every day the Hub runs is in a month, and not in the first.              *)
LEMMA MonthExists ==
  ASSUME NEW d \in Days
  PROVE  /\ MonthOf(d) \in 2..Len(MonthLengths)
         /\ LastOf[MonthOf(d) - 1] < d /\ d <= LastOf[MonthOf(d)]
<1> DEFINE B == {k \in 0..Len(MonthLengths) : d <= LastOf[k]}
<1>1. /\ d \in Nat /\ FirstDay \in Nat /\ MaxDay \in Nat /\ FirstDay <= d /\ d <= MaxDay
      /\ Len(MonthLengths) \in Nat /\ Len(MonthLengths) >= 1
      /\ MonthLengths[1] < FirstDay /\ MaxDay <= LastOf[Len(MonthLengths)]
  <2>1. MonthLengths \in Seq(Nat \ {0}) /\ MonthLengths # <<>>
    BY TrafficAssumption
  <2>2. Len(MonthLengths) \in Nat /\ Len(MonthLengths) >= 1
    BY <2>1
  <2> QED BY <2>2, TrafficAssumption DEF Days
<1>2. PICK m \in B : \A j \in B : m <= j
  <2>1. B \subseteq Nat
    BY <1>1
  <2>2. Len(MonthLengths) \in B
    <3>1. Len(MonthLengths) \in 0..Len(MonthLengths)
      BY <1>1
    <3>2. LastOf[Len(MonthLengths)] \in Nat
      BY <3>1, LastOfStep
    <3> QED BY <1>1, <3>1, <3>2
  <2>3. B # {}
    BY <2>2
  <2> HIDE DEF B
  <2> QED BY <2>1, <2>3, LeastNumber
<1>3. m \in 0..Len(MonthLengths) /\ d <= LastOf[m]
  BY <1>2
<1>4. LastOf[0] = 0 /\ LastOf[1] = MonthLengths[1] /\ MonthLengths[1] \in Nat
  <2>1. 1 \in 1..Len(MonthLengths) /\ 1 - 1 = 0
    BY <1>1
  <2>2. LastOf[1] = LastOf[0] + MonthLengths[1] /\ LastOf[0] = 0 /\ MonthLengths[1] \in Nat
    BY <2>1, LastOfStep, MonthLength
  <2> QED BY <2>2
<1>5. m # 0 /\ m # 1
  BY <1>1, <1>3, <1>4
<1>6. m \in 2..Len(MonthLengths) /\ m \in 1..Len(MonthLengths) /\ m - 1 \in 0..Len(MonthLengths)
      /\ m - 1 < m
  BY <1>1, <1>3, <1>5
<1>7. m - 1 \notin B
  BY <1>2, <1>6
<1>8. LastOf[m - 1] < d
  <2>1. LastOf[m - 1] \in Nat
    BY <1>6, LastOfStep
  <2> QED BY <1>1, <1>6, <1>7, <2>1
<1>9. MonthOf(d) = m
  BY <1>1, <1>3, <1>6, <1>8, MonthIs
<1> QED BY <1>3, <1>6, <1>8, <1>9

(* The reset day lies in its month, however short.                          *)
LEMMA ResetInMonth ==
  ASSUME NEW m \in 1..Len(MonthLengths), NEW r \in ResetDays
  PROVE  ResetIn(m, r) \in Nat /\ LastOf[m - 1] < ResetIn(m, r) /\ ResetIn(m, r) <= LastOf[m]
<1>1. r \in Nat /\ r > 0
  BY TrafficAssumption
<1>2. MonthLengths[m] \in Nat /\ MonthLengths[m] > 0
  BY MonthLength
<1>3. LastOf[m - 1] \in Nat /\ LastOf[m] = LastOf[m - 1] + MonthLengths[m]
  BY LastOfStep
<1> QED BY <1>1, <1>2, <1>3 DEF ResetIn

(* A period has begun on the day it is asked for.                           *)
LEMMA PeriodBegan ==
  ASSUME NEW d \in Days, NEW r \in ResetDays
  PROVE  period_start(d, r) \in Nat /\ 0 < period_start(d, r) /\ period_start(d, r) <= d
<1> DEFINE m == MonthOf(d)
<1>1. m \in 2..Len(MonthLengths) /\ LastOf[m - 1] < d /\ d <= LastOf[m]
  BY MonthExists
<1>2. period_start(d, r) = IF d >= ResetIn(m, r) THEN ResetIn(m, r) ELSE ResetIn(m - 1, r)
  BY DEF period_start
<1>3. d \in Nat
  BY TrafficAssumption DEF Days
<1> HIDE DEF m
<1>4. Len(MonthLengths) \in Nat
  BY LastOfStep
<1>5. m \in 1..Len(MonthLengths) /\ m - 1 \in 1..Len(MonthLengths)
  BY <1>1, <1>4
<1>6. /\ ResetIn(m, r) \in Nat /\ LastOf[m - 1] < ResetIn(m, r)
      /\ ResetIn(m - 1, r) \in Nat /\ LastOf[(m - 1) - 1] < ResetIn(m - 1, r)
      /\ ResetIn(m - 1, r) <= LastOf[m - 1]
  BY <1>5, ResetInMonth
<1>7. LastOf[m - 1] \in Nat /\ LastOf[(m - 1) - 1] \in Nat
  BY <1>4, <1>5, LastOfStep
<1> QED BY <1>1, <1>2, <1>3, <1>6, <1>7

(* period_start finds the last reset day that has come: it is one, and none *)
(* lies between it and the day, whatever the lengths of the months.         *)
THEOREM PeriodIsLatestReset ==
  ASSUME NEW d \in Days, NEW r \in ResetDays
  PROVE  /\ \E m \in 1..Len(MonthLengths) : period_start(d, r) = ResetIn(m, r)
         /\ period_start(d, r) <= d
         /\ \A m \in 1..Len(MonthLengths) :
              ResetIn(m, r) <= d => ResetIn(m, r) <= period_start(d, r)
<1> DEFINE k == MonthOf(d)
<1>1. k \in 2..Len(MonthLengths) /\ LastOf[k - 1] < d /\ d <= LastOf[k]
  BY MonthExists
<1>2. period_start(d, r) = IF d >= ResetIn(k, r) THEN ResetIn(k, r) ELSE ResetIn(k - 1, r)
  BY DEF period_start
<1>3. d \in Nat
  BY TrafficAssumption DEF Days
<1> HIDE DEF k
<1>4. Len(MonthLengths) \in Nat
  BY LastOfStep
<1>5. k \in 1..Len(MonthLengths) /\ k - 1 \in 1..Len(MonthLengths) /\ k \in Int
      /\ k \in 0..Len(MonthLengths) /\ k - 1 \in 0..Len(MonthLengths)
      /\ (k - 1) - 1 \in 0..Len(MonthLengths)
  BY <1>1, <1>4
<1>6. /\ ResetIn(k, r) \in Nat /\ LastOf[k - 1] < ResetIn(k, r)
      /\ ResetIn(k - 1, r) \in Nat /\ LastOf[(k - 1) - 1] < ResetIn(k - 1, r)
      /\ ResetIn(k - 1, r) <= LastOf[k - 1]
  BY <1>5, ResetInMonth
<1>7. LastOf[k - 1] \in Nat /\ LastOf[(k - 1) - 1] \in Nat /\ LastOf[k] \in Nat
  BY <1>5, LastOfStep
<1>8. /\ period_start(d, r) \in Nat /\ ResetIn(k - 1, r) <= period_start(d, r)
      /\ d >= ResetIn(k, r) => period_start(d, r) = ResetIn(k, r)
  BY <1>2, <1>6, <1>7
<1>9. ASSUME NEW m \in 1..Len(MonthLengths), ResetIn(m, r) <= d
      PROVE  ResetIn(m, r) <= period_start(d, r)
  <2>1. m \in Int /\ m \in 0..Len(MonthLengths) /\ m - 1 \in 0..Len(MonthLengths)
    BY <1>4
  <2>2. ResetIn(m, r) \in Nat /\ LastOf[m - 1] < ResetIn(m, r) /\ ResetIn(m, r) <= LastOf[m]
    BY ResetInMonth
  <2>3. LastOf[m] \in Nat /\ LastOf[m - 1] \in Nat
    BY <2>1, LastOfStep
  <2>4. ASSUME m > k PROVE FALSE
    <3>1. k <= m - 1
      BY <1>5, <2>1, <2>4
    <3>2. LastOf[k] <= LastOf[m - 1]
      BY <1>5, <2>1, <3>1, LastOfGrows
    <3> QED BY <1>1, <1>3, <1>7, <1>9, <2>2, <2>3, <3>2
  <2>5. CASE m = k
    <3>1. d >= ResetIn(k, r)
      BY <1>3, <1>9, <2>2, <2>5
    <3> QED BY <1>6, <1>8, <2>5, <3>1
  <2>6. CASE m = k - 1
    BY <1>8, <2>6
  <2>7. CASE m <= (k - 1) - 1
    <3>1. LastOf[m] <= LastOf[(k - 1) - 1]
      BY <1>5, <2>1, <2>7, LastOfGrows
    <3>2. ResetIn(m, r) <= ResetIn(k - 1, r)
      BY <1>6, <1>7, <2>2, <2>3, <3>1
    <3> QED BY <1>6, <1>8, <2>2, <3>2
  <2> QED BY <1>5, <2>1, <2>4, <2>5, <2>6, <2>7
<1>10. period_start(d, r) <= d
  BY PeriodBegan
<1>11. \E m \in 1..Len(MonthLengths) : period_start(d, r) = ResetIn(m, r)
  BY <1>2, <1>5
<1> QED BY <1>9, <1>10, <1>11

(* Overnight a period goes on, or one begins with the new day.              *)
LEMMA PeriodOvernight ==
  ASSUME NEW d \in Days, d + 1 \in Days, NEW r \in ResetDays
  PROVE  period_start(d + 1, r) \in {period_start(d, r), d + 1}
<1> DEFINE m == MonthOf(d)
<1>1. m \in 2..Len(MonthLengths) /\ LastOf[m - 1] < d /\ d <= LastOf[m]
  BY MonthExists
<1>2. period_start(d, r) = IF d >= ResetIn(m, r) THEN ResetIn(m, r) ELSE ResetIn(m - 1, r)
  BY DEF period_start
<1>3. d \in Nat /\ d + 1 \in Nat
  BY TrafficAssumption DEF Days
<1> HIDE DEF m
<1>4. Len(MonthLengths) \in Nat
  BY LastOfStep
<1>5. m \in 1..Len(MonthLengths) /\ m - 1 \in 0..Len(MonthLengths) /\ m \in 0..Len(MonthLengths)
  BY <1>1, <1>4
<1>6. ResetIn(m, r) \in Nat /\ ResetIn(m, r) <= LastOf[m]
  BY <1>5, ResetInMonth
<1>7. LastOf[m - 1] \in Nat /\ LastOf[m] \in Nat
  BY <1>5, LastOfStep
<1>8. CASE d + 1 <= LastOf[m]
  <2>1. MonthOf(d + 1) = m
    <3>1. LastOf[m - 1] < d + 1
      BY <1>1, <1>3, <1>7
    <3> QED BY <1>3, <1>5, <1>8, <3>1, MonthIs
  <2>2. period_start(d + 1, r) =
          IF d + 1 >= ResetIn(m, r) THEN ResetIn(m, r) ELSE ResetIn(m - 1, r)
    BY <2>1 DEF period_start
  <2>3. ~(d >= ResetIn(m, r)) /\ d + 1 >= ResetIn(m, r) => ResetIn(m, r) = d + 1
    BY <1>3, <1>6
  <2>4. d >= ResetIn(m, r) => d + 1 >= ResetIn(m, r)
    BY <1>3, <1>6
  <2> QED BY <1>2, <2>2, <2>3, <2>4
<1>9. CASE d = LastOf[m]
  <2>1. MonthOf(d + 1) \in 2..Len(MonthLengths) /\ d + 1 <= LastOf[MonthOf(d + 1)]
        /\ LastOf[MonthOf(d + 1) - 1] < d + 1
    BY MonthExists
  <2> DEFINE k == MonthOf(d + 1)
  <2>2. k = m + 1
    <3> HIDE DEF k
    <3>1. k \in 2..Len(MonthLengths) /\ d + 1 <= LastOf[k] /\ LastOf[k - 1] < d + 1
      BY <2>1 DEF k
    <3>2. k \in Int /\ m \in Int /\ k \in 0..Len(MonthLengths) /\ k - 1 \in 0..Len(MonthLengths)
      BY <1>4, <1>5, <3>1
    <3>3. LastOf[k] \in Nat /\ LastOf[k - 1] \in Nat
      BY <3>2, LastOfStep
    <3>4. ASSUME k <= m PROVE FALSE
      <4>1. LastOf[k] <= LastOf[m]
        BY <1>5, <3>2, <3>4, LastOfGrows
      <4> QED BY <1>3, <1>7, <1>9, <3>1, <3>3, <4>1
    <3>5. m + 1 <= k
      BY <3>2, <3>4
    <3>6. m + 1 \in 1..Len(MonthLengths) /\ m + 1 \in 0..Len(MonthLengths) /\ (m + 1) - 1 = m
      BY <1>4, <1>5, <3>1, <3>5
    <3>7. LastOf[m + 1] = LastOf[m] + MonthLengths[m + 1] /\ MonthLengths[m + 1] \in Nat
          /\ MonthLengths[m + 1] > 0
      BY <3>6, LastOfStep, MonthLength
    <3>8. LastOf[(m + 1) - 1] < d + 1 /\ d + 1 <= LastOf[m + 1]
      BY <1>3, <1>7, <1>9, <3>6, <3>7
    <3>9. MonthOf(d + 1) = m + 1
      BY <1>3, <3>6, <3>8, MonthIs
    <3> QED BY <3>9 DEF k
  <2>3. m + 1 \in 2..Len(MonthLengths) /\ m + 1 \in 1..Len(MonthLengths) /\ (m + 1) - 1 = m
    BY <1>4, <1>5, <2>1, <2>2
  <2>4. period_start(d + 1, r) =
          IF d + 1 >= ResetIn(m + 1, r) THEN ResetIn(m + 1, r) ELSE ResetIn((m + 1) - 1, r)
    BY <2>2 DEF period_start
  <2>5. ResetIn(m + 1, r) \in Nat /\ LastOf[(m + 1) - 1] < ResetIn(m + 1, r)
    BY <2>3, ResetInMonth
  <2>6. ResetIn(m + 1, r) \in Nat /\ d < ResetIn(m + 1, r)
    BY <1>9, <2>3, <2>5
  <2>7. d + 1 >= ResetIn(m + 1, r) => ResetIn(m + 1, r) = d + 1
    BY <1>3, <2>6
  <2>8. period_start(d, r) = ResetIn(m, r)
    BY <1>2, <1>3, <1>6, <1>9
  <2> QED BY <2>3, <2>4, <2>7, <2>8
<1> QED BY <1>1, <1>3, <1>7, <1>8, <1>9

-----------------------------------------------------------------------------
(* What the counters, the boots and the row may say of each other.          *)
TrafficBounds ==
  /\ boot <= upheavals + 1 /\ row.upheavals <= upheavals
  /\ \A i \in Ifaces : count[i] <= bytes
  /\ row.at <= bytes
  /\ row.boot_id # NoEpoch => row.boot_id[1] <= boot

(* The interfaces of the row's epoch have not climbed by more than crossed  *)
(* since its report, unless the machine was rebooted.                       *)
NoneTwice ==
  row.boot_id # NoEpoch /\ row.boot_id[1] = boot =>
    SumFunctionOnSet(count, row.boot_id[2]) <= row.last + (bytes - row.at)

(* And by exactly that while nothing changes and all of them count.         *)
NoneLost ==
  row.boot_id # NoEpoch /\ row.upheavals = upheavals =>
    row.boot_id = Epoch /\ (counted = Ifaces => Reading = row.last + (bytes - row.at))

(* The assumptions on the constants that the steps below need.              *)
TrafficConstants ==
  /\ FirstDay \in Nat /\ MaxDay \in Nat /\ MAX \in Nat /\ MaxBytes \in Nat
  /\ MaxUpheavals \in Nat /\ IsFiniteSet(Ifaces) /\ Corrections \subseteq 0..MAX
  /\ ResetDays \subseteq Nat

(* The fields of the row one by one, as the provers want them.              *)
RowTyped ==
  /\ row.last \in Nat /\ row.last <= MAX /\ row.total \in Nat /\ row.total <= MAX
  /\ row.month \in Nat /\ row.month <= MAX /\ row.day \in Nat /\ row.day <= MAX
  /\ row.month_start \in Nat /\ row.day_start \in Nat
  /\ row.at \in Nat /\ row.at <= MaxBytes /\ row.upheavals \in Nat
  /\ row.daily \in [Days -> Nat] /\ row.monthly \in [Days -> Nat]
  /\ row.boot_id # NoEpoch => row.boot_id[1] \in Nat /\ row.boot_id[2] \in SUBSET Ifaces

LEMMA ConstantsTyped == TrafficConstants
BY TrafficAssumption DEF TrafficConstants

LEMMA RowFields == ASSUME TrafficTypeOK PROVE RowTyped
<1>1. row \in Rows
  BY DEF TrafficTypeOK
<1>2. MAX \in Nat /\ MaxDay \in Nat /\ MaxBytes \in Nat /\ MaxUpheavals \in Nat
  BY ConstantsTyped DEF TrafficConstants
<1>3. /\ row.boot_id \in {NoEpoch} \cup (1..MaxUpheavals + 1) \X SUBSET Ifaces
      /\ row.last \in 0..MAX /\ row.total \in 0..MAX /\ row.month \in 0..MAX
      /\ row.month_start \in 0..MaxDay /\ row.day \in 0..MAX /\ row.day_start \in 0..MaxDay
      /\ row.at \in 0..MaxBytes /\ row.upheavals \in 0..MaxUpheavals
      /\ row.daily \in [Days -> Nat] /\ row.monthly \in [Days -> Nat]
  BY <1>1 DEF Rows
<1>4. row.boot_id # NoEpoch => row.boot_id[1] \in 1..MaxUpheavals + 1 /\ row.boot_id[2] \in SUBSET Ifaces
  BY <1>3
<1>5. row.boot_id # NoEpoch => row.boot_id[1] \in Nat /\ row.boot_id[2] \in SUBSET Ifaces
  BY <1>2, <1>4
<1> QED BY <1>2, <1>3, <1>5 DEF RowTyped

(* The counters of any interfaces have a sum.                               *)
LEMMA SumOfCounts ==
  ASSUME TrafficTypeOK, NEW S \in SUBSET Ifaces
  PROVE  IsFiniteSet(S) /\ (\A i \in S : count[i] \in Nat) /\ SumFunctionOnSet(count, S) \in Nat
<1>1. IsFiniteSet(S)
  BY ConstantsTyped, FS_Subset DEF TrafficConstants
<1>2. ASSUME NEW i \in S PROVE count[i] \in Nat
  BY ConstantsTyped DEF TrafficConstants, TrafficTypeOK
<1> QED BY <1>1, <1>2, SumNat

(* What a report adds is at most what it read.                              *)
LEMMA DeltaTyped ==
  ASSUME TrafficTypeOK
  PROVE  /\ Reading \in Nat /\ Delta(Epoch, Reading) \in Nat
         /\ Delta(Epoch, Reading) <= Reading
<1>1. Reading \in Nat
  BY SumOfCounts DEF Reading, TrafficTypeOK
<1>2. row.last \in Nat
  BY RowFields DEF RowTyped
<1> QED BY <1>1, <1>2 DEF Delta

(* Saturating addition stays below the largest figure and never lowers one. *)
LEMMA Saturates ==
  ASSUME NEW a \in Nat, NEW b \in Nat
  PROVE  /\ SaturatingAdd(a, b) \in Nat /\ SaturatingAdd(a, b) <= MAX
         /\ SaturatingAdd(a, b) \in 0..MAX
         /\ SaturatingAdd(a, b) <= a + b /\ (a <= MAX => a <= SaturatingAdd(a, b))
BY ConstantsTyped DEF TrafficConstants, SaturatingAdd

(* The date and the period it is in.                                        *)
LEMMA TodayTyped ==
  ASSUME TrafficTypeOK
  PROVE  /\ today \in Nat /\ today \in Days /\ today <= MaxDay /\ MaxDay \in Nat
         /\ reset_day \in ResetDays
         /\ Period \in Nat /\ 0 < Period /\ Period <= today /\ Period \in 0..MaxDay
<1>1. today \in Days /\ reset_day \in ResetDays
  BY DEF TrafficTypeOK
<1>2. today \in Nat /\ today <= MaxDay /\ MaxDay \in Nat
  BY <1>1, ConstantsTyped DEF TrafficConstants, Days
<1>3. Period \in Nat /\ 0 < Period /\ Period <= today
  BY <1>1, PeriodBegan DEF Period
<1>4. Period \in 0..MaxDay
  BY <1>2, <1>3
<1> QED BY <1>1, <1>2, <1>3, <1>4

(* The row after a report, field by field.                                  *)
LEMMA ReportRow ==
  ASSUME TrafficTypeOK, Report
  PROVE  LET delta == Delta(Epoch, Reading) IN
         /\ row'.boot_id = Epoch /\ row'.last = Reading /\ Reading <= MAX
         /\ delta \in Nat /\ delta <= MAX
         /\ row'.total = SaturatingAdd(row.total, delta)
         /\ row'.month = Folded(row.month, row.month_start, Period, delta)
         /\ row'.month_start = Period
         /\ row'.day = Folded(row.day, row.day_start, today, delta) /\ row'.day_start = today
         /\ row'.at = bytes /\ row'.upheavals = upheavals
         /\ row'.daily = Booked(row.daily, delta) /\ row'.monthly = Booked(row.monthly, delta)
         /\ UNCHANGED <<today, reset_day, edited, boot, counted, count, bytes, upheavals>>
<1> DEFINE delta == Delta(Epoch, Reading)
<1>1. Reading \in Nat /\ delta \in Nat /\ delta <= Reading
  BY DeltaTyped
<1>2. MAX \in Nat
  BY ConstantsTyped DEF TrafficConstants
<1>3. Reading <= MAX
  BY DEF Report
<1>4. delta <= MAX
  BY <1>1, <1>2, <1>3
<1> HIDE DEF delta
<1>5. row' = [boot_id |-> Epoch, last |-> Reading,
              total |-> SaturatingAdd(row.total, delta),
              month |-> Folded(row.month, row.month_start, Period, delta), month_start |-> Period,
              day |-> Folded(row.day, row.day_start, today, delta), day_start |-> today,
              at |-> bytes, upheavals |-> upheavals,
              daily |-> Booked(row.daily, delta), monthly |-> Booked(row.monthly, delta)]
      /\ UNCHANGED <<today, reset_day, edited, boot, counted, count, bytes, upheavals>>
  BY DEF Report, delta, machine
<1>6. /\ row'.boot_id = Epoch /\ row'.last = Reading
      /\ row'.total = SaturatingAdd(row.total, delta)
      /\ row'.month = Folded(row.month, row.month_start, Period, delta)
      /\ row'.month_start = Period
      /\ row'.day = Folded(row.day, row.day_start, today, delta) /\ row'.day_start = today
      /\ row'.at = bytes /\ row'.upheavals = upheavals
      /\ row'.daily = Booked(row.daily, delta) /\ row'.monthly = Booked(row.monthly, delta)
  BY <1>5
<1> QED BY <1>1, <1>3, <1>4, <1>5, <1>6 DEF delta

(* A booking changes the entry of today alone.                              *)
LEMMA BookedTyped ==
  ASSUME TrafficTypeOK, NEW l \in [Days -> Nat], NEW delta \in Nat
  PROVE  Booked(l, delta) \in [Days -> Nat]
         /\ \A d \in Days : Booked(l, delta)[d] = IF d = today THEN l[d] + delta ELSE l[d]
<1>1. today \in Days
  BY TodayTyped
<1> QED BY <1>1 DEF Booked

(* The row after a correction.                                              *)
Only(t, m) == [d \in Days |-> IF d = t THEN m ELSE 0]

LEMMA CorrectedRow ==
  ASSUME TrafficTypeOK, set_traffic
  PROVE  /\ UNCHANGED <<today, reset_day, edited, boot, counted, count, bytes, upheavals>>
         /\ row' \in Rows /\ row'.month_start = Period
         /\ row'.boot_id = row.boot_id /\ row'.last = row.last /\ row'.at = row.at
         /\ row'.day = row.day /\ row'.day_start = row.day_start /\ row'.daily = row.daily
         /\ row'.upheavals = row.upheavals
         /\ \/ /\ row'.month = IF row.month_start = Period THEN row.month ELSE 0
               /\ row'.monthly = row.monthly
            \/ \E m \in Corrections : row'.month = m /\ row'.monthly = Only(today, m)
<1>1. UNCHANGED <<today, reset_day, edited, boot, counted, count, bytes, upheavals>>
  BY DEF set_traffic, machine
<1>2. row \in Rows /\ row.month \in 0..MAX /\ 0 \in 0..MAX
  BY ConstantsTyped DEF TrafficTypeOK, Rows, TrafficConstants
<1>3. Period \in 0..MaxDay /\ today \in Days
  BY TodayTyped
<1>4. CASE \E t \in Corrections :
             row' = [row EXCEPT !.total = t, !.month = IF row.month_start = Period THEN @ ELSE 0,
                                !.month_start = Period]
  <2>1. PICK t \in Corrections :
             row' = [row EXCEPT !.total = t, !.month = IF row.month_start = Period THEN @ ELSE 0,
                                !.month_start = Period]
    BY <1>4
  <2>2. t \in 0..MAX
    BY ConstantsTyped DEF TrafficConstants
  <2> DEFINE k == IF row.month_start = Period THEN row.month ELSE 0
  <2>3. k \in 0..MAX
    BY <1>2
  <2>4. row' = [row EXCEPT !.total = t, !.month = k, !.month_start = Period]
    BY <1>2, <2>1 DEF Rows
  <2> HIDE DEF k
  <2>5. row' \in Rows
    BY <1>2, <1>3, <2>2, <2>3, <2>4 DEF Rows
  <2>6. /\ row'.month_start = Period /\ row'.month = k /\ row'.monthly = row.monthly
        /\ row'.boot_id = row.boot_id /\ row'.last = row.last /\ row'.at = row.at
        /\ row'.day = row.day /\ row'.day_start = row.day_start /\ row'.daily = row.daily
        /\ row'.upheavals = row.upheavals
    BY <1>2, <2>4 DEF Rows
  <2> QED BY <1>1, <2>5, <2>6 DEF k
<1>5. CASE \E m \in Corrections :
             row' = [row EXCEPT !.month = m, !.month_start = Period,
                                !.monthly = [[d \in Days |-> 0] EXCEPT ![today] = m]]
  <2>1. PICK m \in Corrections :
             row' = [row EXCEPT !.month = m, !.month_start = Period,
                                !.monthly = [[d \in Days |-> 0] EXCEPT ![today] = m]]
    BY <1>5
  <2>2. m \in 0..MAX /\ m \in Nat
    BY ConstantsTyped DEF TrafficConstants
  <2>3. [[d \in Days |-> 0] EXCEPT ![today] = m] = Only(today, m)
    BY <1>3 DEF Only
  <2>4. Only(today, m) \in [Days -> Nat]
    BY <2>2 DEF Only
  <2>5. row' = [row EXCEPT !.month = m, !.month_start = Period, !.monthly = Only(today, m)]
    BY <2>1, <2>3
  <2>6. row' \in Rows
    BY <1>2, <1>3, <2>2, <2>4, <2>5 DEF Rows
  <2>7. /\ row'.month_start = Period /\ row'.month = m /\ row'.monthly = Only(today, m)
        /\ row'.boot_id = row.boot_id /\ row'.last = row.last /\ row'.at = row.at
        /\ row'.day = row.day /\ row'.day_start = row.day_start /\ row'.daily = row.daily
        /\ row'.upheavals = row.upheavals
    BY <1>2, <2>5 DEF Rows
  <2> QED BY <1>1, <2>6, <2>7
<1> QED BY <1>4, <1>5 DEF set_traffic

LEMMA ReportTyped == ASSUME TrafficTypeOK, Report PROVE row' \in Rows
<1> DEFINE delta == Delta(Epoch, Reading)
<1>1. /\ row.total \in Nat /\ row.month \in Nat /\ row.day \in Nat /\ MAX \in Nat
      /\ row.daily \in [Days -> Nat] /\ row.monthly \in [Days -> Nat]
  BY RowFields, ConstantsTyped DEF TrafficConstants, RowTyped
<1>2. Reading \in Nat /\ delta \in Nat /\ Reading <= MAX /\ delta <= MAX
  BY DeltaTyped, ReportRow
<1>3. today \in Days /\ Period \in 0..MaxDay /\ today \in 0..MaxDay
  BY TodayTyped
<1>4. row' = [boot_id |-> Epoch, last |-> Reading,
              total |-> SaturatingAdd(row.total, delta),
              month |-> Folded(row.month, row.month_start, Period, delta), month_start |-> Period,
              day |-> Folded(row.day, row.day_start, today, delta), day_start |-> today,
              at |-> bytes, upheavals |-> upheavals,
              daily |-> Booked(row.daily, delta), monthly |-> Booked(row.monthly, delta)]
  BY DEF Report
<1> HIDE DEF delta
<1>5. Epoch \in (1..MaxUpheavals + 1) \X SUBSET Ifaces /\ bytes \in 0..MaxBytes
      /\ upheavals \in 0..MaxUpheavals
  BY DEF Epoch, TrafficTypeOK
<1>6. SaturatingAdd(row.total, delta) \in 0..MAX
  BY <1>1, <1>2, Saturates
<1>10. Reading \in 0..MAX
  BY <1>1, <1>2
<1>7. Folded(row.month, row.month_start, Period, delta) \in 0..MAX
  <2>1. SaturatingAdd(row.month, delta) \in 0..MAX
    BY <1>1, <1>2, Saturates
  <2> QED BY <1>1, <1>2, <2>1 DEF Folded
<1>8. Folded(row.day, row.day_start, today, delta) \in 0..MAX
  <2>1. SaturatingAdd(row.day, delta) \in 0..MAX
    BY <1>1, <1>2, Saturates
  <2> QED BY <1>1, <1>2, <2>1 DEF Folded
<1>9. Booked(row.daily, delta) \in [Days -> Nat] /\ Booked(row.monthly, delta) \in [Days -> Nat]
  BY <1>1, <1>2, BookedTyped
<1> QED BY <1>3, <1>4, <1>5, <1>6, <1>7, <1>8, <1>9, <1>10 DEF Rows

-----------------------------------------------------------------------------
(* Types and bounds: at the start, and step by step.                        *)
LEMMA TrafficInitTyped == TrafficInit => TrafficTypeOK /\ TrafficBounds
<1> SUFFICES ASSUME TrafficInit PROVE TrafficTypeOK /\ TrafficBounds
  OBVIOUS
<1>1. TrafficConstants /\ FirstDay <= MaxDay
  BY ConstantsTyped, TrafficAssumption
<1>2. Fresh \in Rows
  <2>1. [d \in Days |-> 0] \in [Days -> Nat] /\ 0 \in 0..MAX /\ 0 \in 0..MaxDay
        /\ 0 \in 0..MaxBytes /\ 0 \in 0..MaxUpheavals
    BY <1>1 DEF TrafficConstants
  <2> QED BY <2>1 DEF Fresh, Rows, NoDate
<1>3. today \in Days /\ boot \in 1..MaxUpheavals + 1 /\ bytes \in 0..MaxBytes
      /\ upheavals \in 0..MaxUpheavals
  BY <1>1 DEF TrafficInit, Days, TrafficConstants
<1>4. count \in [Ifaces -> 0..MaxBytes] /\ \A i \in Ifaces : count[i] <= bytes
  BY <1>1 DEF TrafficInit, TrafficConstants
<1>5. TrafficTypeOK
  BY <1>2, <1>3, <1>4 DEF TrafficInit, TrafficTypeOK
<1>6. row.upheavals = 0 /\ row.at = 0 /\ row.boot_id = NoEpoch
  BY DEF TrafficInit, Fresh
<1> QED BY <1>4, <1>5, <1>6 DEF TrafficBounds, TrafficInit

LEMMA CrossKeepsTypes ==
  ASSUME TrafficTypeOK, TrafficBounds, NEW i \in Ifaces, Cross(i)
  PROVE  TrafficTypeOK' /\ TrafficBounds'
<1>1. bytes' = bytes + 1 /\ count' = [count EXCEPT ![i] = count[i] + 1] /\ bytes < MaxBytes
      /\ UNCHANGED <<today, reset_day, edited, boot, counted, upheavals, row>>
  BY DEF Cross
<1>2. bytes \in Nat /\ MaxBytes \in Nat /\ count \in [Ifaces -> 0..MaxBytes]
  BY ConstantsTyped DEF TrafficTypeOK, TrafficConstants
<1>3. row.at \in Nat /\ row.at <= bytes
  BY RowFields DEF RowTyped, TrafficBounds
<1>4. ASSUME NEW k \in Ifaces PROVE count'[k] \in 0..MaxBytes /\ count'[k] <= bytes'
  <2>1. count[k] \in Nat /\ count[k] <= bytes
    BY <1>2 DEF TrafficBounds
  <2>2. count'[k] = IF k = i THEN count[k] + 1 ELSE count[k]
    BY <1>1, <1>2
  <2> QED BY <1>1, <1>2, <2>1, <2>2
<1>5. count' \in [Ifaces -> 0..MaxBytes]
  BY <1>1, <1>2, <1>4
<1>6. bytes' \in 0..MaxBytes /\ row.at <= bytes'
  BY <1>1, <1>2, <1>3
<1> QED BY <1>1, <1>4, <1>5, <1>6 DEF TrafficTypeOK, TrafficBounds

LEMMA UpheavalKeepsTypes ==
  ASSUME TrafficTypeOK, TrafficBounds, Upheaval
  PROVE  TrafficTypeOK' /\ TrafficBounds'
<1>1. /\ upheavals < MaxUpheavals /\ upheavals' = upheavals + 1
      /\ UNCHANGED <<today, reset_day, edited, bytes, row>>
  BY DEF Upheaval
<1>2. /\ upheavals \in Nat /\ MaxUpheavals \in Nat /\ boot \in Nat /\ bytes \in Nat
      /\ MaxBytes \in Nat /\ bytes <= MaxBytes /\ boot >= 1
      /\ count \in [Ifaces -> 0..MaxBytes] /\ counted \in SUBSET Ifaces
  BY ConstantsTyped DEF TrafficTypeOK, TrafficConstants
<1>3. boot' \in Nat /\ boot' >= boot /\ boot' <= boot + 1
      /\ counted' \in SUBSET Ifaces /\ count' \in [Ifaces -> 0..MaxBytes]
      /\ \A k \in Ifaces : count'[k] = count[k] \/ count'[k] = 0
  <2>1. CASE boot' = boot + 1 /\ count' = [i \in Ifaces |-> 0] /\ counted' = counted
    BY <1>2, <2>1
  <2>2. CASE (\E i \in Ifaces : count' = [count EXCEPT ![i] = 0]) /\ UNCHANGED <<boot, counted>>
    <3>1. PICK i \in Ifaces : count' = [count EXCEPT ![i] = 0]
      BY <2>2
    <3>2. 0 \in 0..MaxBytes
      BY <1>2
    <3>3. count' \in [Ifaces -> 0..MaxBytes]
      BY <1>2, <3>1, <3>2
    <3>4. \A k \in Ifaces : count'[k] = count[k] \/ count'[k] = 0
      BY <1>2, <3>1
    <3> QED BY <1>2, <2>2, <3>3, <3>4
  <2>3. CASE (\E i \in Ifaces : counted' = SymDiff(counted, {i})) /\ UNCHANGED <<boot, count>>
    BY <1>2, <2>3 DEF SymDiff
  <2> QED BY <2>1, <2>2, <2>3 DEF Upheaval
<1>4. boot <= upheavals + 1 /\ row.upheavals <= upheavals /\ row.upheavals \in Nat
      /\ (row.boot_id # NoEpoch => row.boot_id[1] <= boot /\ row.boot_id[1] \in Nat)
  BY RowFields DEF TrafficBounds, RowTyped
<1>5. ASSUME NEW k \in Ifaces PROVE count'[k] <= bytes
  BY <1>2, <1>3 DEF TrafficBounds
<1>6. boot' \in 1..MaxUpheavals + 1 /\ upheavals' \in 0..MaxUpheavals /\ boot' <= upheavals' + 1
      /\ row.upheavals <= upheavals'
  BY <1>1, <1>2, <1>3, <1>4
<1>7. row.boot_id # NoEpoch => row.boot_id[1] <= boot'
  BY <1>2, <1>3, <1>4
<1>8. TrafficTypeOK'
  BY <1>1, <1>3, <1>6 DEF TrafficTypeOK
<1> QED BY <1>1, <1>5, <1>6, <1>7, <1>8 DEF TrafficBounds

LEMMA TypesKept ==
  ASSUME TrafficTypeOK, TrafficBounds, [TrafficNext]_traffic_vars
  PROVE  TrafficTypeOK' /\ TrafficBounds'
<1>1. ASSUME NEW i \in Ifaces, Cross(i) PROVE TrafficTypeOK' /\ TrafficBounds'
  BY <1>1, CrossKeepsTypes
<1>2. CASE Upheaval
  BY <1>2, UpheavalKeepsTypes
<1>3. CASE NewDay
  <2>1. today < MaxDay /\ today' = today + 1
        /\ UNCHANGED <<reset_day, edited, boot, counted, count, bytes, upheavals, row>>
    BY <1>3 DEF NewDay, machine
  <2>2. today' \in Days
    BY <2>1, ConstantsTyped DEF TrafficTypeOK, Days, TrafficConstants
  <2> QED BY <2>1, <2>2 DEF TrafficTypeOK, TrafficBounds, NoEpoch
<1>4. CASE SetResetDay
  <2>1. reset_day' \in ResetDays /\ edited' = TRUE
        /\ UNCHANGED <<today, boot, counted, count, bytes, upheavals, row>>
    BY <1>4 DEF SetResetDay, machine
  <2>2. edited' \in BOOLEAN
    BY <2>1
  <2> QED BY <2>1, <2>2 DEF TrafficTypeOK, TrafficBounds, NoEpoch
<1>5. CASE Report
  <2>1. row' \in Rows
    BY <1>5, ReportTyped
  <2>2. /\ row'.boot_id = Epoch /\ row'.at = bytes /\ row'.upheavals = upheavals
        /\ UNCHANGED <<today, reset_day, edited, boot, counted, count, bytes, upheavals>>
    BY <1>5, ReportRow
  <2>3. TrafficTypeOK'
    BY <2>1, <2>2 DEF TrafficTypeOK
  <2>4. Epoch[1] = boot /\ boot \in Nat /\ bytes \in Nat /\ upheavals \in Nat
    BY ConstantsTyped DEF Epoch, TrafficTypeOK, TrafficConstants
  <2>5. row'.boot_id[1] <= boot /\ row'.at <= bytes /\ row'.upheavals <= upheavals
    BY <2>2, <2>4
  <2> QED BY <2>2, <2>3, <2>5 DEF TrafficBounds, NoEpoch
<1>6. CASE set_traffic
  <2>1. /\ row' \in Rows /\ row'.boot_id = row.boot_id /\ row'.at = row.at
        /\ row'.upheavals = row.upheavals
        /\ UNCHANGED <<today, reset_day, edited, boot, counted, count, bytes, upheavals>>
    BY <1>6, CorrectedRow
  <2>2. TrafficTypeOK'
    BY <2>1 DEF TrafficTypeOK
  <2> QED BY <2>1, <2>2 DEF TrafficBounds, NoEpoch
<1>7. CASE UNCHANGED traffic_vars
  BY <1>7 DEF traffic_vars, machine, TrafficTypeOK, TrafficBounds, NoEpoch
<1> QED BY <1>1, <1>2, <1>3, <1>4, <1>5, <1>6, <1>7 DEF TrafficNext, ReportUnread

-----------------------------------------------------------------------------
(* The counters.                                                            *)

(* A byte moves a sum of counters by one or not at all, and by one when all *)
(* of them are in it.                                                       *)
LEMMA CrossMovesSum ==
  ASSUME TrafficTypeOK, NEW i \in Ifaces, Cross(i), NEW S \in SUBSET Ifaces
  PROVE  SumFunctionOnSet(count', S) =
           SumFunctionOnSet(count, S) + (IF i \in S THEN 1 ELSE 0)
<1>1. count' = [count EXCEPT ![i] = count[i] + 1] /\ count \in [Ifaces -> Nat]
  BY ConstantsTyped DEF Cross, TrafficTypeOK, TrafficConstants
<1>2. IsFiniteSet(S)
  BY SumOfCounts
<1>3. \A x \in S : count[x] \in Nat /\ count'[x] \in Nat
  BY <1>1
<1>4. \A x \in S : x # i => count[x] = count'[x]
  BY <1>1
<1>5. count'[i] = count[i] + 1 /\ count[i] \in Nat
  BY <1>1
<1>6. /\ SumFunctionOnSet(count, S) \in Nat /\ SumFunctionOnSet(count', S) \in Nat
      /\ i \in S => SumFunctionOnSet(count', S) + count[i] = SumFunctionOnSet(count, S) + count'[i]
      /\ i \notin S => SumFunctionOnSet(count', S) = SumFunctionOnSet(count, S)
  BY <1>2, <1>3, <1>4, SumFollows
<1> QED BY <1>5, <1>6

(* An interface made anew takes from it.                                    *)
LEMMA ResetLowersSum ==
  ASSUME TrafficTypeOK, NEW i \in Ifaces, NEW g,
         \A x \in Ifaces : g[x] = IF x = i THEN 0 ELSE count[x],
         NEW S \in SUBSET Ifaces
  PROVE  SumFunctionOnSet(g, S) \in Nat
         /\ SumFunctionOnSet(g, S) <= SumFunctionOnSet(count, S)
<1>1. count \in [Ifaces -> Nat]
  BY ConstantsTyped DEF TrafficTypeOK, TrafficConstants
<1>2. IsFiniteSet(S)
  BY SumOfCounts
<1>3. \A x \in S : count[x] \in Nat /\ g[x] \in Nat
  BY <1>1
<1>4. \A x \in S : x # i => count[x] = g[x]
  BY <1>1
<1>5. g[i] = 0 /\ count[i] \in Nat
  BY <1>1
<1>6. /\ SumFunctionOnSet(count, S) \in Nat /\ SumFunctionOnSet(g, S) \in Nat
      /\ i \in S => SumFunctionOnSet(g, S) + count[i] = SumFunctionOnSet(count, S) + g[i]
      /\ i \notin S => SumFunctionOnSet(g, S) = SumFunctionOnSet(count, S)
  BY <1>2, <1>3, <1>4, SumFollows
<1> QED BY <1>5, <1>6

(* No step lets the row's interfaces climb past what crossed: a byte counts *)
(* once on either side, an interface made anew lowers its sum, and a reboot *)
(* leaves the epoch.                                                        *)
LEMMA NoneTwiceKept ==
  ASSUME TrafficTypeOK, TrafficBounds, NoneTwice, [TrafficNext]_traffic_vars
  PROVE  NoneTwice'
<1>1. SUFFICES ASSUME row'.boot_id # NoEpoch, row'.boot_id[1] = boot'
               PROVE  SumFunctionOnSet(count', row'.boot_id[2]) <= row'.last + (bytes' - row'.at)
  BY DEF NoneTwice, NoEpoch
<1>2. row.last \in Nat /\ row.at \in Nat /\ bytes \in Nat /\ row.at <= bytes
      /\ (row.boot_id # NoEpoch => row.boot_id[1] \in Nat /\ row.boot_id[2] \in SUBSET Ifaces
                                   /\ row.boot_id[1] <= boot)
      /\ boot \in Nat /\ upheavals \in Nat
  BY RowFields, ConstantsTyped DEF RowTyped, TrafficTypeOK, TrafficBounds, TrafficConstants
<1>3. ASSUME row' = row, count' = count, bytes' = bytes, boot' = boot
      PROVE  SumFunctionOnSet(count', row'.boot_id[2]) <= row'.last + (bytes' - row'.at)
  BY <1>1, <1>3 DEF NoneTwice
<1>4. ASSUME NEW i \in Ifaces, Cross(i)
      PROVE  SumFunctionOnSet(count', row'.boot_id[2]) <= row'.last + (bytes' - row'.at)
  <2>1. row' = row /\ bytes' = bytes + 1 /\ boot' = boot
    BY <1>4 DEF Cross
  <2>2. row.boot_id[2] \in SUBSET Ifaces
        /\ SumFunctionOnSet(count, row.boot_id[2]) <= row.last + (bytes - row.at)
    BY <1>1, <1>2, <2>1 DEF NoneTwice
  <2>3. SumFunctionOnSet(count', row.boot_id[2]) =
          SumFunctionOnSet(count, row.boot_id[2]) + (IF i \in row.boot_id[2] THEN 1 ELSE 0)
    BY <1>4, <2>2, CrossMovesSum
  <2>4. SumFunctionOnSet(count, row.boot_id[2]) \in Nat
    BY <2>2, SumOfCounts
  <2>5. SumFunctionOnSet(count', row.boot_id[2]) <= row.last + ((bytes + 1) - row.at)
    BY <1>2, <2>2, <2>3, <2>4
  <2> QED BY <2>1, <2>5
<1>5. CASE Upheaval
  <2>1. row' = row /\ bytes' = bytes
    BY <1>5 DEF Upheaval
  <2>2. boot' # boot + 1
    BY <1>1, <1>2, <2>1
  <2>3. CASE (\E i \in Ifaces : count' = [count EXCEPT ![i] = 0]) /\ UNCHANGED <<boot, counted>>
    <3>1. PICK i \in Ifaces : count' = [count EXCEPT ![i] = 0]
      BY <2>3
    <3>2. row.boot_id[2] \in SUBSET Ifaces
          /\ SumFunctionOnSet(count, row.boot_id[2]) <= row.last + (bytes - row.at)
      BY <1>1, <1>2, <2>1, <2>3 DEF NoneTwice
    <3>3. SumFunctionOnSet(count', row.boot_id[2]) \in Nat
          /\ SumFunctionOnSet(count', row.boot_id[2]) <= SumFunctionOnSet(count, row.boot_id[2])
      <4>1. \A x \in Ifaces : count'[x] = IF x = i THEN 0 ELSE count[x]
        BY <3>1 DEF TrafficTypeOK
      <4> QED BY <3>2, <4>1, ResetLowersSum
    <3>4. SumFunctionOnSet(count, row.boot_id[2]) \in Nat
      BY <3>2, SumOfCounts
    <3>5. SumFunctionOnSet(count', row.boot_id[2]) <= row.last + (bytes - row.at)
      BY <1>2, <3>2, <3>3, <3>4
    <3> QED BY <2>1, <3>5
  <2>4. CASE (\E i \in Ifaces : counted' = SymDiff(counted, {i})) /\ UNCHANGED <<boot, count>>
    BY <1>3, <2>1, <2>4
  <2> QED BY <1>5, <2>2, <2>3, <2>4 DEF Upheaval
<1>6. CASE NewDay \/ SetResetDay \/ ReportUnread \/ UNCHANGED traffic_vars
  <2>1. row' = row /\ count' = count /\ bytes' = bytes /\ boot' = boot
    BY <1>6 DEF NewDay, SetResetDay, ReportUnread, traffic_vars, machine
  <2> QED BY <1>3, <2>1
<1>7. CASE Report
  <2>1. row'.boot_id = Epoch /\ row'.last = Reading /\ row'.at = bytes /\ bytes' = bytes
        /\ count' = count
    BY <1>7, ReportRow
  <2>2. SumFunctionOnSet(count', row'.boot_id[2]) = Reading
    BY <2>1 DEF Epoch, Reading
  <2>3. Reading \in Nat
    BY DeltaTyped
  <2>4. Reading <= Reading + (bytes - bytes)
    BY <1>2, <2>3
  <2> QED BY <2>1, <2>2, <2>4
<1>8. CASE set_traffic
  <2>1. row'.boot_id = row.boot_id /\ row'.last = row.last /\ row'.at = row.at /\ bytes' = bytes
        /\ count' = count /\ boot' = boot
    BY <1>8, CorrectedRow
  <2> QED BY <1>1, <2>1 DEF NoneTwice
<1> QED BY <1>4, <1>5, <1>6, <1>7, <1>8 DEF TrafficNext

(* And none leaves a byte out while no upheaval comes between.              *)
LEMMA NoneLostKept ==
  ASSUME TrafficTypeOK, TrafficBounds, NoneLost, [TrafficNext]_traffic_vars
  PROVE  NoneLost'
<1>1. SUFFICES ASSUME row'.boot_id # NoEpoch, row'.upheavals = upheavals'
               PROVE  /\ row'.boot_id = <<boot', counted'>>
                      /\ counted' = Ifaces =>
                           SumFunctionOnSet(count', counted') = row'.last + (bytes' - row'.at)
  BY DEF NoneLost, NoEpoch, Epoch, Reading
<1> DEFINE Goal == /\ row'.boot_id = <<boot', counted'>>
                   /\ counted' = Ifaces =>
                        SumFunctionOnSet(count', counted') = row'.last + (bytes' - row'.at)
<1>2. row.last \in Nat /\ row.at \in Nat /\ bytes \in Nat /\ row.at <= bytes
      /\ row.upheavals \in Nat /\ upheavals \in Nat /\ row.upheavals <= upheavals
      /\ counted \in SUBSET Ifaces
  BY RowFields, ConstantsTyped DEF RowTyped, TrafficTypeOK, TrafficBounds, TrafficConstants
<1>3. ASSUME row'.boot_id = row.boot_id, row'.last = row.last, row'.at = row.at,
             row'.upheavals = row.upheavals,
             UNCHANGED <<boot, counted, count, bytes, upheavals>>
      PROVE  Goal
  BY <1>1, <1>3 DEF NoneLost, Epoch, Reading
<1>4. ASSUME NEW i \in Ifaces, Cross(i) PROVE Goal
  <2>1. row' = row /\ bytes' = bytes + 1 /\ UNCHANGED <<boot, counted, upheavals>>
    BY <1>4 DEF Cross
  <2>2. row.boot_id = Epoch
        /\ (counted = Ifaces => SumFunctionOnSet(count, counted) = row.last + (bytes - row.at))
    BY <1>1, <2>1 DEF NoneLost, Reading
  <2>3. SumFunctionOnSet(count', counted) =
          SumFunctionOnSet(count, counted) + (IF i \in counted THEN 1 ELSE 0)
    BY <1>2, <1>4, CrossMovesSum
  <2>4. SumFunctionOnSet(count, counted) \in Nat
    BY <1>2, SumOfCounts
  <2>5. counted = Ifaces => SumFunctionOnSet(count', counted) = row.last + ((bytes + 1) - row.at)
    BY <1>2, <2>2, <2>3, <2>4
  <2> QED BY <2>1, <2>2, <2>5 DEF Epoch
<1>5. CASE Upheaval
  <2>1. row' = row /\ upheavals' = upheavals + 1
    BY <1>5 DEF Upheaval
  <2> QED BY <1>1, <1>2, <2>1
<1>6. CASE NewDay \/ SetResetDay \/ ReportUnread \/ UNCHANGED traffic_vars
  <2>1. row' = row /\ UNCHANGED <<boot, counted, count, bytes, upheavals>>
    BY <1>6 DEF NewDay, SetResetDay, ReportUnread, traffic_vars, machine
  <2> QED BY <1>3, <2>1
<1>7. CASE Report
  <2>1. row'.boot_id = Epoch /\ row'.last = Reading /\ row'.at = bytes
        /\ UNCHANGED <<boot, counted, count, bytes>>
    BY <1>7, ReportRow
  <2>2. Reading \in Nat
    BY DeltaTyped
  <2>3. Reading = Reading + (bytes - bytes)
    BY <1>2, <2>2
  <2> QED BY <2>1, <2>3 DEF Epoch, Reading
<1>8. CASE set_traffic
  <2>1. row'.boot_id = row.boot_id /\ row'.last = row.last /\ row'.at = row.at
        /\ row'.upheavals = row.upheavals /\ UNCHANGED <<boot, counted, count, bytes, upheavals>>
    BY <1>8, CorrectedRow
  <2> QED BY <1>3, <2>1
<1> QED BY <1>4, <1>5, <1>6, <1>7, <1>8 DEF TrafficNext

(* A row of the running boot was not made by the empty epoch.               *)
LEMMA EpochNotEmpty == ASSUME TrafficTypeOK PROVE Epoch # NoEpoch
<1>1. boot # 0
  BY ConstantsTyped DEF TrafficTypeOK, TrafficConstants
<1> QED BY <1>1 DEF Epoch, NoEpoch

(* What a report then books.                                                *)
LEMMA ReportBooksOnly ==
  ASSUME TrafficTypeOK, TrafficBounds, NoneTwice, Report
  PROVE  /\ row'.total >= row.total
         /\ row'.total - row.total <= IF row.boot_id = NoEpoch THEN 0 ELSE bytes - row.at
<1> DEFINE delta == Delta(Epoch, Reading)
<1>1. delta \in Nat /\ row'.total = SaturatingAdd(row.total, delta)
  BY ReportRow
<1>2. row.total \in Nat /\ row.total <= MAX /\ row.last \in Nat /\ row.at \in Nat /\ bytes \in Nat
      /\ row.at <= bytes
  BY RowFields, ConstantsTyped DEF RowTyped, TrafficTypeOK, TrafficBounds, TrafficConstants
<1>3. row'.total \in Nat /\ row'.total <= row.total + delta /\ row.total <= row'.total
  BY <1>1, <1>2, Saturates
<1>4. CASE row.boot_id = Epoch
  <2>1. Epoch # NoEpoch /\ Epoch[1] = boot /\ Epoch[2] = counted
    BY EpochNotEmpty DEF Epoch
  <2>2. Reading <= row.last + (bytes - row.at)
    BY <1>4, <2>1 DEF NoneTwice, Reading
  <2>3. Reading \in Nat
    BY DeltaTyped
  <2>4. delta <= bytes - row.at
    BY <1>2, <2>2, <2>3 DEF Delta
  <2> HIDE DEF delta
  <2>5. row'.total - row.total <= bytes - row.at
    BY <1>1, <1>2, <1>3, <2>4
  <2> QED BY <1>2, <1>3, <1>4, <2>1, <2>5
<1>5. CASE row.boot_id # Epoch
  <2>1. delta = 0
    BY <1>5 DEF Delta
  <2> HIDE DEF delta
  <2>2. row'.total = row.total
    BY <1>2, <1>3, <2>1
  <2> QED BY <1>2, <2>2
<1> QED BY <1>4, <1>5

LEMMA ReportBooksAll ==
  ASSUME TrafficTypeOK, TrafficBounds, NoneLost, Report,
         row.boot_id # NoEpoch, row.upheavals = upheavals, counted = Ifaces
  PROVE  row'.total = SaturatingAdd(row.total, bytes - row.at)
<1>1. row.boot_id = Epoch /\ Reading = row.last + (bytes - row.at)
  BY DEF NoneLost
<1>2. row.last \in Nat /\ row.at \in Nat /\ bytes \in Nat /\ row.at <= bytes
  BY RowFields, ConstantsTyped DEF RowTyped, TrafficTypeOK, TrafficBounds, TrafficConstants
<1>3. Delta(Epoch, Reading) = bytes - row.at
  BY <1>1, <1>2 DEF Delta
<1>4. row'.total = SaturatingAdd(row.total, Delta(Epoch, Reading))
  BY ReportRow
<1> QED BY <1>3, <1>4

-----------------------------------------------------------------------------
(* The figures.                                                             *)

(* Nothing is booked ahead, and no period of the row lies ahead.            *)
FutureIsEmpty ==
  /\ row.day_start <= today /\ row.month_start <= today
  /\ \A d \in Days : d > today => row.daily[d] = 0 /\ row.monthly[d] = 0

(* The day's figure is what was booked on its day, and none was booked      *)
(* today if it is of another.                                               *)
DayFigure ==
  /\ row.day_start = today => row.day = SaturatingAdd(0, row.daily[today])
  /\ row.day_start # today => row.daily[today] = 0

(* The month's is no more than was booked since its start; while the reset  *)
(* day is not edited, it is all of it, or nothing was booked since the      *)
(* period began.                                                            *)
MonthFigure ==
  /\ row.month <= Ledger(row.monthly, row.month_start)
  /\ ~edited /\ row.month_start = Period => row.month = Ledger(row.monthly, Period)
  /\ ~edited /\ row.month_start # Period => \A d \in Days : d >= Period => row.monthly[d] = 0

(* The days of the calendar from one to another.                            *)
Span(from, to) == {d \in Days : from <= d /\ d <= to}

LEMMA SpanFinite ==
  ASSUME NEW a, NEW b
  PROVE  IsFiniteSet(Span(a, b)) /\ Span(a, b) \subseteq Days /\ Days \subseteq Nat
<1>1. FirstDay \in Nat /\ MaxDay \in Nat
  BY ConstantsTyped DEF TrafficConstants
<1>2. IsFiniteSet(Days) /\ Days \subseteq Nat
  BY <1>1, FS_Interval DEF Days
<1>3. Span(a, b) \in SUBSET Days
  BY DEF Span
<1> QED BY <1>2, <1>3, FS_Subset

LEMMA SpanSum ==
  ASSUME NEW l \in [Days -> Nat], NEW a, NEW b
  PROVE  SumFunctionOnSet(l, Span(a, b)) \in Nat
<1>1. IsFiniteSet(Span(a, b)) /\ \A d \in Span(a, b) : l[d] \in Nat
  BY SpanFinite
<1> QED BY <1>1, SumNat

(* A booking of today raises the sum of every span that ends today.         *)
LEMMA BookingAddsUp ==
  ASSUME TrafficTypeOK, NEW l \in [Days -> Nat], NEW delta \in Nat, NEW from \in Nat, from <= today
  PROVE  SumFunctionOnSet(Booked(l, delta), Span(from, today)) =
           SumFunctionOnSet(l, Span(from, today)) + delta
<1> DEFINE S == Span(from, today)
           g == Booked(l, delta)
<1>1. g \in [Days -> Nat] /\ \A d \in Days : g[d] = IF d = today THEN l[d] + delta ELSE l[d]
  BY BookedTyped
<1>2. today \in S /\ today \in Days
  BY TodayTyped DEF Span
<1>3. IsFiniteSet(S) /\ S \subseteq Days
  BY SpanFinite
<1> HIDE DEF S, g
<1>4. /\ \A x \in S : l[x] \in Nat /\ g[x] \in Nat
      /\ \A x \in S : x # today => l[x] = g[x]
  BY <1>1, <1>3
<1>5. /\ SumFunctionOnSet(l, S) \in Nat /\ SumFunctionOnSet(g, S) \in Nat
      /\ SumFunctionOnSet(g, S) + l[today] = SumFunctionOnSet(l, S) + g[today]
  BY <1>2, <1>3, <1>4, SumFollows
<1>6. l[today] \in Nat /\ g[today] = l[today] + delta
  BY <1>1, <1>2
<1>7. SumFunctionOnSet(g, S) = SumFunctionOnSet(l, S) + delta
  BY <1>5, <1>6
<1> QED BY <1>7 DEF S, g

(* A new day, with nothing booked yet, changes no sum.                      *)
LEMMA EmptyDayAddsNothing ==
  ASSUME NEW l \in [Days -> Nat], NEW t \in Days, t + 1 \in Days, l[t + 1] = 0, NEW from \in Nat
  PROVE  SumFunctionOnSet(l, Span(from, t + 1)) = SumFunctionOnSet(l, Span(from, t))
<1>1. Days \subseteq Nat /\ IsFiniteSet(Span(from, t + 1))
  BY SpanFinite
<1>2. t \in Nat
  BY <1>1
<1>3. CASE from <= t + 1
  <2>1. t + 1 \in Span(from, t + 1)
    BY <1>2, <1>3 DEF Span
  <2>2. Span(from, t + 1) \ {t + 1} = Span(from, t)
    <3>1. ASSUME NEW x \in Days PROVE x <= t + 1 /\ x # t + 1 <=> x <= t
      BY <1>1, <1>2
    <3> QED BY <3>1 DEF Span
  <2>3. \A x \in Span(from, t + 1) : l[x] \in Nat
    BY SpanFinite
  <2>4. SumFunctionOnSet(l, Span(from, t + 1)) =
          l[t + 1] + SumFunctionOnSet(l, Span(from, t + 1) \ {t + 1})
    BY <1>1, <2>1, <2>3, SumTakesOut
  <2>5. SumFunctionOnSet(l, Span(from, t)) \in Nat
    BY SpanSum
  <2>6. SumFunctionOnSet(l, Span(from, t + 1)) = 0 + SumFunctionOnSet(l, Span(from, t))
    BY <2>2, <2>4
  <2> QED BY <2>5, <2>6
<1>4. CASE ~(from <= t + 1)
  <2>1. Span(from, t + 1) = Span(from, t)
    <3>1. ASSUME NEW x \in Days PROVE ~(from <= x /\ x <= t + 1) /\ ~(from <= x /\ x <= t)
      BY <1>1, <1>2, <1>4
    <3> QED BY <3>1 DEF Span
  <2> QED BY <2>1
<1> QED BY <1>3, <1>4

(* A span with entries on its last day alone.                               *)
LEMMA OneDaySum ==
  ASSUME NEW l \in [Days -> Nat], NEW t \in Days, NEW from \in Nat, from <= t,
         \A d \in Days : from <= d /\ d < t => l[d] = 0
  PROVE  SumFunctionOnSet(l, Span(from, t)) = l[t]
<1>1. Days \subseteq Nat /\ IsFiniteSet(Span(from, t)) /\ Span(from, t) \subseteq Days
  BY SpanFinite
<1>2. t \in Nat /\ t \in Span(from, t) /\ \A x \in Span(from, t) : l[x] \in Nat
  BY <1>1 DEF Span
<1>3. SumFunctionOnSet(l, Span(from, t)) = l[t] + SumFunctionOnSet(l, Span(from, t) \ {t})
  BY <1>1, <1>2, SumTakesOut
<1>4. SumFunctionOnSet(l, Span(from, t) \ {t}) = 0
  <2>1. IsFiniteSet(Span(from, t) \ {t})
    BY <1>1, FS_Subset
  <2>2. ASSUME NEW x \in Span(from, t) \ {t} PROVE l[x] = 0
    BY <1>1, <1>2 DEF Span
  <2> QED BY <2>1, <2>2, SumZero
<1>5. l[t] \in Nat
  OBVIOUS
<1>6. SumFunctionOnSet(l, Span(from, t)) = l[t] + 0
  BY <1>3, <1>4
<1> QED BY <1>5, <1>6

(* Saturating after each booking or once at the end is the same.            *)
LEMMA SaturatesOnce ==
  ASSUME NEW a \in Nat, NEW b \in Nat, NEW c \in Nat
  PROVE  /\ SaturatingAdd(SaturatingAdd(0, a), b) = SaturatingAdd(0, a + b)
         /\ c <= SaturatingAdd(0, a) => SaturatingAdd(c, b) <= SaturatingAdd(0, a + b)
         /\ c <= MAX /\ c <= a => c <= SaturatingAdd(0, a)
         /\ c <= MAX => SaturatingAdd(0, c) = c
BY ConstantsTyped DEF TrafficConstants, SaturatingAdd

LEMMA LedgerIs ==
  ASSUME NEW l, NEW from
  PROVE  Ledger(l, from) = SaturatingAdd(0, SumFunctionOnSet(l, Span(from, today)))
BY DEF Ledger, Span

-----------------------------------------------------------------------------
(* The figures at the start, and under each step that touches the row or    *)
(* the date.                                                                *)
LEMMA InitFigures == TrafficInit => FutureIsEmpty /\ DayFigure /\ MonthFigure
<1> SUFFICES ASSUME TrafficInit PROVE FutureIsEmpty /\ DayFigure /\ MonthFigure
  OBVIOUS
<1>1. TrafficTypeOK
  BY TrafficInitTyped
<1>2. today \in Nat /\ today \in Days /\ Period \in Nat /\ 0 < Period /\ Period <= today
  BY <1>1, TodayTyped
<1>3. /\ row.day_start = 0 /\ row.month_start = 0 /\ row.month = 0 /\ row.day = 0
      /\ \A d \in Days : row.daily[d] = 0 /\ row.monthly[d] = 0
  BY DEF TrafficInit, Fresh, NoDate
<1>4. FutureIsEmpty
  BY <1>2, <1>3 DEF FutureIsEmpty
<1>5. DayFigure
  BY <1>2, <1>3 DEF DayFigure
<1>6. row.month <= Ledger(row.monthly, row.month_start)
  <2>1. row.monthly \in [Days -> Nat]
    BY <1>1, RowFields DEF RowTyped
  <2>2. SumFunctionOnSet(row.monthly, Span(row.month_start, today)) \in Nat
    BY <2>1, SpanSum
  <2>3. Ledger(row.monthly, row.month_start) \in Nat
    BY <2>2, Saturates, LedgerIs
  <2> QED BY <1>3, <2>3
<1>7. MonthFigure
  BY <1>2, <1>3, <1>6 DEF MonthFigure
<1> QED BY <1>4, <1>5, <1>7

(* Where neither the row nor the date change.                               *)
LEMMA OthersKeepFigures ==
  ASSUME FutureIsEmpty, DayFigure, MonthFigure,
         UNCHANGED <<today, reset_day, edited, row>>
  PROVE  FutureIsEmpty' /\ DayFigure' /\ MonthFigure'
BY DEF FutureIsEmpty, DayFigure, MonthFigure, Ledger, Period, SaturatingAdd

(* An edit of the reset day gives up the exact month, and no more.          *)
LEMMA ResetDayKeepsFigures ==
  ASSUME FutureIsEmpty, DayFigure, MonthFigure, SetResetDay
  PROVE  FutureIsEmpty' /\ DayFigure' /\ MonthFigure'
<1>1. UNCHANGED <<today, row>> /\ edited'
  BY DEF SetResetDay
<1> QED BY <1>1 DEF FutureIsEmpty, DayFigure, MonthFigure, Ledger, SaturatingAdd

(* Midnight: the day starts over; the period goes on, or begins with a day  *)
(* nothing was booked on.                                                   *)
LEMMA NewDayKeepsFigures ==
  ASSUME TrafficTypeOK, TrafficTypeOK', FutureIsEmpty, DayFigure, MonthFigure, NewDay
  PROVE  FutureIsEmpty' /\ DayFigure' /\ MonthFigure'
<1>1. today' = today + 1 /\ UNCHANGED <<reset_day, edited, row>>
  BY DEF NewDay
<1>2. today \in Nat /\ today \in Days /\ Period \in Nat /\ Period <= today /\ reset_day \in ResetDays
  BY TodayTyped
<1>3. today + 1 \in Days
  BY <1>1 DEF TrafficTypeOK
<1>4. /\ row.day_start \in Nat /\ row.month_start \in Nat /\ row.monthly \in [Days -> Nat]
      /\ Days \subseteq Nat
  BY RowFields, SpanFinite DEF RowTyped
<1>5. row.daily[today + 1] = 0 /\ row.monthly[today + 1] = 0
  BY <1>2, <1>3 DEF FutureIsEmpty
<1>6. FutureIsEmpty'
  <2>1. row.day_start <= today + 1 /\ row.month_start <= today + 1
    BY <1>2, <1>4 DEF FutureIsEmpty
  <2>2. ASSUME NEW d \in Days, d > today + 1 PROVE row.daily[d] = 0 /\ row.monthly[d] = 0
    <3>1. d > today
      BY <1>2, <1>4, <2>2
    <3> QED BY <3>1 DEF FutureIsEmpty
  <2> QED BY <1>1, <2>1, <2>2 DEF FutureIsEmpty
<1>7. row.day_start # today + 1 /\ row.month_start # today + 1
  BY <1>2, <1>4 DEF FutureIsEmpty
<1>8. DayFigure'
  BY <1>1, <1>5, <1>7 DEF DayFigure
<1>9. ASSUME NEW from \in Nat
      PROVE  Ledger(row.monthly, from)' = Ledger(row.monthly, from)
  <2>1. SumFunctionOnSet(row.monthly, Span(from, today + 1)) =
          SumFunctionOnSet(row.monthly, Span(from, today))
    BY <1>2, <1>3, <1>4, <1>5, EmptyDayAddsNothing
  <2>2. Ledger(row.monthly, from)' =
          SaturatingAdd(0, SumFunctionOnSet(row.monthly, Span(from, today + 1)))
    BY <1>1 DEF Ledger, Span, SaturatingAdd
  <2> QED BY <2>1, <2>2, LedgerIs
<1>10. Period' = Period \/ Period' = today + 1
  BY <1>1, <1>2, <1>3, PeriodOvernight DEF Period
<1>11. (row.month <= Ledger(row.monthly, row.month_start))'
  BY <1>1, <1>4, <1>9 DEF MonthFigure
<1>12. ASSUME ~edited', row'.month_start = Period'
       PROVE  row'.month = Ledger(row.monthly, Period)'
  <2>1. Period' = Period
    BY <1>1, <1>7, <1>10, <1>12
  <2>2. row.month = Ledger(row.monthly, Period)
    BY <1>1, <1>12, <2>1 DEF MonthFigure
  <2> QED BY <1>1, <1>2, <1>9, <2>1, <2>2
<1>13. ASSUME ~edited', row'.month_start # Period', NEW d \in Days, d >= Period'
       PROVE  row'.monthly[d] = 0
  <2>1. CASE Period' = Period
    BY <1>1, <1>13, <2>1 DEF MonthFigure
  <2>2. CASE Period' = today + 1
    BY <1>1, <1>2, <1>4, <1>13, <2>2 DEF FutureIsEmpty
  <2> QED BY <1>10, <2>1, <2>2
<1>14. MonthFigure'
  BY <1>11, <1>12, <1>13 DEF MonthFigure
<1> QED BY <1>6, <1>8, <1>14

(* A report books one amount to figure and ledger, or starts both over.     *)
LEMMA ReportKeepsFigures ==
  ASSUME TrafficTypeOK, FutureIsEmpty, DayFigure, MonthFigure, Report
  PROVE  FutureIsEmpty' /\ DayFigure' /\ MonthFigure'
<1> DEFINE delta == Delta(Epoch, Reading)
           before == SumFunctionOnSet(row.monthly, Span(Period, today))
<1>1. /\ delta \in Nat /\ delta <= MAX
      /\ row'.month = Folded(row.month, row.month_start, Period, delta)
      /\ row'.month_start = Period
      /\ row'.day = Folded(row.day, row.day_start, today, delta) /\ row'.day_start = today
      /\ row'.daily = Booked(row.daily, delta) /\ row'.monthly = Booked(row.monthly, delta)
      /\ UNCHANGED <<today, reset_day, edited>>
  BY ReportRow
<1>2. today \in Nat /\ today \in Days /\ Period \in Nat /\ Period <= today
  BY TodayTyped
<1>3. /\ row.daily \in [Days -> Nat] /\ row.monthly \in [Days -> Nat] /\ Days \subseteq Nat
      /\ row.month \in Nat /\ row.day \in Nat
  BY RowFields, SpanFinite DEF RowTyped
<1> HIDE DEF delta
<1>4. /\ \A d \in Days : row'.daily[d] = IF d = today THEN row.daily[d] + delta ELSE row.daily[d]
      /\ \A d \in Days : row'.monthly[d] = IF d = today THEN row.monthly[d] + delta ELSE row.monthly[d]
  <2>1. \A d \in Days :
          Booked(row.daily, delta)[d] = IF d = today THEN row.daily[d] + delta ELSE row.daily[d]
    BY <1>1, <1>3, BookedTyped
  <2>2. \A d \in Days :
          Booked(row.monthly, delta)[d] = IF d = today THEN row.monthly[d] + delta ELSE row.monthly[d]
    BY <1>1, <1>3, BookedTyped
  <2> QED BY <1>1, <2>1, <2>2
<1>5. FutureIsEmpty'
  <2>1. ASSUME NEW d \in Days, d > today PROVE row'.daily[d] = 0 /\ row'.monthly[d] = 0
    <3>1. d # today
      BY <1>2, <1>3, <2>1
    <3> QED BY <1>4, <2>1, <3>1 DEF FutureIsEmpty
  <2>2. today <= today
    BY <1>2
  <2> QED BY <1>1, <1>2, <2>1, <2>2 DEF FutureIsEmpty
<1>6. DayFigure'
  <2>1. row'.daily[today] = row.daily[today] + delta /\ row.daily[today] \in Nat
    BY <1>2, <1>3, <1>4
  <2>2. row'.day = SaturatingAdd(0, row.daily[today] + delta)
    <3>1. CASE row.day_start = today
      <4>1. row'.day = SaturatingAdd(SaturatingAdd(0, row.daily[today]), delta)
        BY <1>1, <3>1 DEF DayFigure, Folded
      <4> QED BY <1>1, <2>1, <4>1, SaturatesOnce
    <3>2. CASE row.day_start # today
      <4>1. row'.day = delta /\ row.daily[today] = 0
        BY <1>1, <3>2 DEF DayFigure, Folded
      <4>2. row.daily[today] + delta = delta
        BY <1>1, <4>1
      <4> QED BY <1>1, <4>1, <4>2, SaturatesOnce
    <3> QED BY <3>1, <3>2
  <2>3. row'.day = SaturatingAdd(0, row'.daily[today])
    BY <2>1, <2>2
  <2> QED BY <1>1, <2>3 DEF DayFigure, SaturatingAdd
<1>7. before \in Nat /\ SumFunctionOnSet(row'.monthly, Span(Period, today)) = before + delta
  BY <1>1, <1>2, <1>3, SpanSum, BookingAddsUp
<1>8. Period' = Period
  BY <1>1 DEF Period
<1>9. Ledger(row.monthly, Period)' = SaturatingAdd(0, before + delta)
  <2>1. Ledger(row.monthly, Period)' =
          SaturatingAdd(0, SumFunctionOnSet(row'.monthly, Span(Period, today)))
    BY <1>1, <1>8 DEF Ledger, Span, SaturatingAdd
  <2> QED BY <1>7, <2>1
<1>10. Ledger(row.monthly, Period) = SaturatingAdd(0, before)
  BY LedgerIs
<1> HIDE DEF before
<1>11. row'.month <= SaturatingAdd(0, before + delta)
  <2>1. CASE row.month_start = Period
    <3>1. row'.month = SaturatingAdd(row.month, delta) /\ row.month <= SaturatingAdd(0, before)
      BY <1>1, <1>10, <2>1 DEF Folded, MonthFigure
    <3> QED BY <1>1, <1>3, <1>7, <3>1, SaturatesOnce
  <2>2. CASE row.month_start # Period
    <3>1. row'.month = delta
      BY <1>1, <2>2 DEF Folded
    <3>2. delta <= before + delta /\ before + delta \in Nat
      BY <1>1, <1>7
    <3> QED BY <1>1, <3>1, <3>2, SaturatesOnce
  <2> QED BY <2>1, <2>2
<1>12. ASSUME ~edited PROVE row'.month = SaturatingAdd(0, before + delta)
  <2>1. CASE row.month_start = Period
    <3>1. row'.month = SaturatingAdd(SaturatingAdd(0, before), delta)
      BY <1>1, <1>10, <1>12, <2>1 DEF Folded, MonthFigure
    <3> QED BY <1>1, <1>7, <3>1, SaturatesOnce
  <2>2. CASE row.month_start # Period
    <3>1. row'.month = delta
      BY <1>1, <2>2 DEF Folded
    <3>2. \A d \in Days : d >= Period => row.monthly[d] = 0
      BY <1>12, <2>2 DEF MonthFigure
    <3>3. before = 0
      <4>1. IsFiniteSet(Span(Period, today)) /\ Span(Period, today) \subseteq Days
        BY SpanFinite
      <4>2. ASSUME NEW d \in Span(Period, today) PROVE row.monthly[d] = 0
        <5>1. d \in Days /\ Period <= d /\ d \in Nat
          BY <1>3 DEF Span
        <5> QED BY <1>2, <3>2, <5>1
      <4> QED BY <4>1, <4>2, SumZero DEF before
    <3>4. before + delta = delta
      BY <1>1, <3>3
    <3> QED BY <1>1, <3>1, <3>4, SaturatesOnce
  <2> QED BY <2>1, <2>2
<1>13. MonthFigure'
  <2>1. (row.month <= Ledger(row.monthly, row.month_start))'
    <3>1. Ledger(row.monthly, row.month_start)' = Ledger(row.monthly, Period)'
      BY <1>1, <1>8
    <3> QED BY <1>9, <1>11, <3>1
  <2>2. ~edited' => row'.month = Ledger(row.monthly, Period)'
    BY <1>1, <1>9, <1>12
  <2>3. row'.month_start = Period'
    BY <1>1, <1>8
  <2> QED BY <2>1, <2>2, <2>3 DEF MonthFigure
<1> QED BY <1>5, <1>6, <1>13

(* A correction stamps the period it is made in, so the stale month it      *)
(* finds there cannot come back.                                            *)
LEMMA CorrectionKeepsFigures ==
  ASSUME TrafficTypeOK, FutureIsEmpty, DayFigure, MonthFigure, set_traffic
  PROVE  FutureIsEmpty' /\ DayFigure' /\ MonthFigure'
<1>1. /\ row'.month_start = Period /\ row' \in Rows
      /\ row'.day = row.day /\ row'.day_start = row.day_start /\ row'.daily = row.daily
      /\ UNCHANGED <<today, reset_day, edited>>
      /\ \/ /\ row'.month = IF row.month_start = Period THEN row.month ELSE 0
            /\ row'.monthly = row.monthly
         \/ \E m \in Corrections : row'.month = m /\ row'.monthly = Only(today, m)
  BY CorrectedRow
<1>2. today \in Nat /\ today \in Days /\ Period \in Nat /\ Period <= today
  BY TodayTyped
<1>3. row.monthly \in [Days -> Nat] /\ Days \subseteq Nat /\ row.month \in Nat
  BY RowFields, SpanFinite DEF RowTyped
<1>4. Period' = Period
  BY <1>1 DEF Period
<1>5. DayFigure'
  BY <1>1 DEF DayFigure, SaturatingAdd
<1>6. Ledger(row.monthly, Period)' =
        SaturatingAdd(0, SumFunctionOnSet(row'.monthly, Span(Period, today)))
      /\ Ledger(row.monthly, row.month_start)' = Ledger(row.monthly, Period)'
  BY <1>1, <1>4 DEF Ledger, Span, SaturatingAdd
<1>7. CASE row'.month = (IF row.month_start = Period THEN row.month ELSE 0)
           /\ row'.monthly = row.monthly
  <2>1. FutureIsEmpty'
    BY <1>1, <1>2, <1>7 DEF FutureIsEmpty
  <2>2. Ledger(row.monthly, Period)' = Ledger(row.monthly, Period)
    BY <1>6, <1>7, LedgerIs
  <2>3. Ledger(row.monthly, Period) \in Nat
    BY <1>3, SpanSum, Saturates, LedgerIs
  <2>4. row'.month <= Ledger(row.monthly, Period)
    <3>1. CASE row.month_start = Period
      BY <1>7, <3>1 DEF MonthFigure
    <3>2. CASE row.month_start # Period
      BY <1>7, <2>3, <3>2
    <3> QED BY <3>1, <3>2
  <2>5. ASSUME ~edited PROVE row'.month = Ledger(row.monthly, Period)
    <3>1. CASE row.month_start = Period
      BY <1>7, <2>5, <3>1 DEF MonthFigure
    <3>2. CASE row.month_start # Period
      <4>1. IsFiniteSet(Span(Period, today)) /\ Span(Period, today) \subseteq Days
        BY SpanFinite
      <4>2. ASSUME NEW d \in Span(Period, today) PROVE row.monthly[d] = 0
        <5>1. d \in Days /\ Period <= d /\ d \in Nat
          BY <1>3 DEF Span
        <5>2. d >= Period
          BY <1>2, <5>1
        <5> QED BY <2>5, <3>2, <5>1, <5>2 DEF MonthFigure
      <4>3. SumFunctionOnSet(row.monthly, Span(Period, today)) = 0
        BY <4>1, <4>2, SumZero
      <4>4. 0 \in Nat /\ 0 <= MAX
        BY ConstantsTyped DEF TrafficConstants
      <4>5. Ledger(row.monthly, Period) = 0
        BY <4>3, <4>4, SaturatesOnce, LedgerIs
      <4> QED BY <1>7, <3>2, <4>5
    <3> QED BY <3>1, <3>2
  <2>6. MonthFigure'
    BY <1>1, <1>4, <1>6, <2>2, <2>4, <2>5 DEF MonthFigure
  <2> QED BY <1>5, <2>1, <2>6
<1>8. ASSUME NEW m \in Corrections, row'.month = m, row'.monthly = Only(today, m)
      PROVE  FutureIsEmpty' /\ DayFigure' /\ MonthFigure'
  <2>1. m \in Nat /\ m <= MAX
    BY ConstantsTyped DEF TrafficConstants
  <2>2. Only(today, m) \in [Days -> Nat] /\ Only(today, m)[today] = m
        /\ \A d \in Days : d # today => Only(today, m)[d] = 0
    BY <1>2, <2>1 DEF Only
  <2>3. FutureIsEmpty'
    <3>1. ASSUME NEW d \in Days, d > today PROVE row'.daily[d] = 0 /\ row'.monthly[d] = 0
      <4>1. d # today
        BY <1>2, <1>3, <3>1
      <4> QED BY <1>1, <1>8, <2>2, <3>1, <4>1 DEF FutureIsEmpty
    <3>2. row'.day_start <= today /\ row'.month_start <= today
      BY <1>1, <1>2 DEF FutureIsEmpty
    <3> QED BY <1>1, <3>1, <3>2 DEF FutureIsEmpty
  <2>4. SumFunctionOnSet(Only(today, m), Span(Period, today)) = m
    <3>1. ASSUME NEW d \in Days, Period <= d, d < today PROVE Only(today, m)[d] = 0
      BY <1>2, <1>3, <2>2, <3>1
    <3> QED BY <1>2, <2>2, <3>1, OneDaySum
  <2>5. Ledger(row.monthly, Period)' = m
    BY <1>6, <1>8, <2>1, <2>4, SaturatesOnce
  <2>6. m <= m
    BY <2>1
  <2>7. MonthFigure'
    BY <1>1, <1>4, <1>6, <1>8, <2>5, <2>6 DEF MonthFigure
  <2> QED BY <1>5, <2>3, <2>7
<1> QED BY <1>1, <1>7, <1>8

LEMMA FiguresKept ==
  ASSUME TrafficTypeOK, TrafficTypeOK', FutureIsEmpty, DayFigure, MonthFigure,
         [TrafficNext]_traffic_vars
  PROVE  FutureIsEmpty' /\ DayFigure' /\ MonthFigure'
<1>1. CASE (\E i \in Ifaces : Cross(i)) \/ Upheaval \/ ReportUnread \/ UNCHANGED traffic_vars
  <2>1. UNCHANGED <<today, reset_day, edited, row>>
    BY <1>1 DEF Cross, Upheaval, ReportUnread, traffic_vars
  <2> QED BY <2>1, OthersKeepFigures
<1>2. CASE NewDay
  BY <1>2, NewDayKeepsFigures
<1>3. CASE SetResetDay
  BY <1>3, ResetDayKeepsFigures
<1>4. CASE Report
  BY <1>4, ReportKeepsFigures
<1>5. CASE set_traffic
  BY <1>5, CorrectionKeepsFigures
<1> QED BY <1>1, <1>2, <1>3, <1>4, <1>5 DEF TrafficNext

(* What the panel shows then follows.                                       *)
LEMMA FiguresShown ==
  ASSUME TrafficTypeOK, FutureIsEmpty, DayFigure, MonthFigure
  PROVE  FiguresMatchCalendar
<1> DEFINE month == Shown(row.month, row.month_start, Period)
           due == Ledger(row.monthly, Period)
<1>1. today \in Nat /\ today \in Days /\ Period \in Nat /\ Period <= today
  BY TodayTyped
<1>2. /\ row.monthly \in [Days -> Nat] /\ row.daily \in [Days -> Nat] /\ Days \subseteq Nat
  BY RowFields, SpanFinite DEF RowTyped
<1>3. due \in Nat
  BY <1>2, SpanSum, Saturates, LedgerIs
<1>4. month <= due
  <2>1. CASE row.month_start = Period
    BY <2>1 DEF MonthFigure, Shown
  <2>2. CASE row.month_start # Period
    BY <1>3, <2>2 DEF Shown
  <2> QED BY <2>1, <2>2
<1>5. ASSUME ~edited PROVE month = due
  <2>1. CASE row.month_start = Period
    BY <1>5, <2>1 DEF MonthFigure, Shown
  <2>2. CASE row.month_start # Period
    <3>1. IsFiniteSet(Span(Period, today)) /\ Span(Period, today) \subseteq Days
      BY SpanFinite
    <3>2. ASSUME NEW d \in Span(Period, today) PROVE row.monthly[d] = 0
      <4>1. d \in Days /\ Period <= d /\ d \in Nat
        BY <1>2 DEF Span
      <4>2. d >= Period
        BY <1>1, <4>1
      <4> QED BY <1>5, <2>2, <4>1, <4>2 DEF MonthFigure
    <3>3. SumFunctionOnSet(row.monthly, Span(Period, today)) = 0
      BY <3>1, <3>2, SumZero
    <3>4. 0 \in Nat /\ 0 <= MAX
      BY ConstantsTyped DEF TrafficConstants
    <3>5. due = 0
      BY <3>3, <3>4, SaturatesOnce, LedgerIs
    <3> QED BY <2>2, <3>5 DEF Shown
  <2> QED BY <2>1, <2>2
<1>6. Shown(row.day, row.day_start, today) = Ledger(row.daily, today)
  <2>1. SumFunctionOnSet(row.daily, Span(today, today)) = row.daily[today]
    <3>1. today <= today /\ \A d \in Days : today <= d /\ d < today => row.daily[d] = 0
      BY <1>1, <1>2
    <3> QED BY <1>1, <1>2, <3>1, OneDaySum
  <2>2. Ledger(row.daily, today) = SaturatingAdd(0, row.daily[today])
    BY <2>1, LedgerIs
  <2>3. 0 \in Nat /\ 0 <= MAX
    BY ConstantsTyped DEF TrafficConstants
  <2>4. SaturatingAdd(0, 0) = 0
    BY <2>3, SaturatesOnce
  <2> QED BY <2>2, <2>4 DEF DayFigure, Shown
<1> QED BY <1>4, <1>5, <1>6 DEF FiguresMatchCalendar

-----------------------------------------------------------------------------
(* The accounts are well typed, whatever the machine and the panel do.      *)
THEOREM TrafficTypes == TrafficSpec => []TrafficTypeOK
<1>1. TrafficInit => TrafficTypeOK /\ TrafficBounds
  BY TrafficInitTyped
<1>2. TrafficTypeOK /\ TrafficBounds /\ [TrafficNext]_traffic_vars =>
        TrafficTypeOK' /\ TrafficBounds'
  BY TypesKept
<1> QED BY <1>1, <1>2, PTL DEF TrafficSpec

(* The inductive invariant of the counters.                                 *)
CountersInv == TrafficTypeOK /\ TrafficBounds /\ NoneTwice /\ NoneLost

LEMMA CountersHold == TrafficSpec => []CountersInv
<1>1. TrafficInit => CountersInv
  <2>1. TrafficInit => row.boot_id = NoEpoch
    BY DEF TrafficInit, Fresh
  <2> QED BY <2>1, TrafficInitTyped DEF CountersInv, NoneTwice, NoneLost
<1>2. CountersInv /\ [TrafficNext]_traffic_vars => CountersInv'
  BY TypesKept, NoneTwiceKept, NoneLostKept DEF CountersInv
<1> QED BY <1>1, <1>2, PTL DEF TrafficSpec

(* accumulate_on books only bytes that crossed the interfaces since the     *)
(* report in the row, and none twice.                                       *)
THEOREM OnlyWhatCrossed == TrafficSpec => BooksOnlyWhatCrossed
<1>1. CountersInv => [Report => /\ row'.total >= row.total
                                /\ row'.total - row.total <=
                                     IF row.boot_id = NoEpoch THEN 0 ELSE bytes - row.at]_traffic_vars
  BY ReportBooksOnly DEF CountersInv
<1> QED BY <1>1, CountersHold, PTL DEF BooksOnlyWhatCrossed

(* accumulate_on books every byte while the machine stays as it is and all  *)
(* its interfaces count.                                                    *)
THEOREM AllThatCrossed == TrafficSpec => BooksAllThatCrossed
<1>1. CountersInv => [Report /\ row.boot_id # NoEpoch /\ row.upheavals = upheavals /\ counted = Ifaces =>
                        row'.total = SaturatingAdd(row.total, bytes - row.at)]_traffic_vars
  BY ReportBooksAll DEF CountersInv
<1> QED BY <1>1, CountersHold, PTL DEF BooksAllThatCrossed

(* The inductive invariant of the figures.                                  *)
FiguresInv == TrafficTypeOK /\ TrafficBounds /\ FutureIsEmpty /\ DayFigure /\ MonthFigure

(* all_traffic shows the month and the day of the calendar.                 *)
THEOREM FiguresHold == TrafficSpec => []FiguresMatchCalendar
<1>1. TrafficInit => FiguresInv
  BY TrafficInitTyped, InitFigures DEF FiguresInv
<1>2. FiguresInv /\ [TrafficNext]_traffic_vars => FiguresInv'
  BY TypesKept, FiguresKept DEF FiguresInv
<1>3. FiguresInv => FiguresMatchCalendar
  BY FiguresShown DEF FiguresInv
<1> QED BY <1>1, <1>2, <1>3, PTL DEF TrafficSpec
=============================================================================
