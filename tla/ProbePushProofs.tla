--------------------------- MODULE ProbePushProofs ---------------------------
(***************************************************************************)
(* The agent ends up on the list the panel shows, for any number of        *)
(* connections, probes and edits at once, any queue and any window, unless *)
(* an edit was saved while the handler of another held the session's list; *)
(* and a push restarts the probe loops it changes, and no others.          *)
(*                                                                         *)
(* A list goes from the queue through the hands of the serve loop and the  *)
(* connection to the agent.  PipeInv says that the last list on that way,  *)
(* or what the agent runs when there is none, is the list of the database, *)
(* unless a handler has yet to push one.  HoldInv is where an overlap of   *)
(* two edits matters: without one, the list a handler holds is still the   *)
(* current one when it reaches the queue.                                  *)
(***************************************************************************)
EXTENDS ProbePush, SequenceTheorems, TLAPS

Loops == UNION {[S -> Specs \X Nat] : S \in SUBSET Ids}

Shape ==
  /\ tasks \in Lists
  /\ pc \in [Editors -> {"idle", "saved", "reading", "holding"}]
  /\ target \in [Editors -> Sessions \cup {None}]
  /\ message \in [Editors -> Lists]
  /\ agents \in Sessions \cup {None}
  /\ serve \in [Sessions -> {"new", "ended", "abandoned"} \cup Served]
  /\ held \in [Sessions -> Lists]
  /\ queue \in [Sessions -> Seq(Lists)] /\ wire \in [Sessions -> Seq(Lists)]
  /\ reading \in [Sessions -> BOOLEAN]
  /\ running \in [Sessions -> Loops]
  /\ frames \in [Sessions -> Nat]

(* A loop was started by a list the session has applied.                    *)
TimerInv == \A s \in Sessions : \A i \in DOMAIN running[s] : running[s][i][2] <= frames[s]

(* Nothing reaches a session before it is in the map.                       *)
EntryInv ==
  /\ \A s \in Sessions : serve[s] = "new" => queue[s] = <<>>
  /\ \A s \in Sessions : serve[s] \in {"new", "active"} => wire[s] = <<>>
  /\ agents # None => serve[agents] # "new"
  /\ \A e \in Editors : pc[e] \in {"reading", "holding"} =>
       target[e] \in Sessions /\ serve[target[e]] # "new"

(* The list a handler is about to queue.                                    *)
HoldInv ==
  \A e \in Editors :
    pc[e] = "holding" /\ serve[target[e]] \in Served /\ target[e] \notin blank \cup overlapped =>
      message[e] = tasks

Last(q) == q[Len(q)]

(* list is the last one on its way to the agent of s, or, with none on its  *)
(* way, what it runs.                                                       *)
Reaches(s, list) ==
  IF queue[s] # <<>> THEN Last(queue[s]) = list
  ELSE IF serve[s] \in {"greeting", "sending"} THEN held[s] = list
  ELSE IF wire[s] # <<>> THEN Last(wire[s]) = list
  ELSE serve[s] = "active" \/ Probes(s) = Truncated(list)

(* A handler has yet to queue the list for s.                               *)
Due(s) ==
  \E e \in Editors : pc[e] = "saved" \/ (pc[e] \in {"reading", "holding"} /\ target[e] = s)

PipeInv ==
  \A s \in Sessions :
    agents = s /\ serve[s] \in Served /\ reading[s] /\ s \notin missed \cup blank \cup overlapped =>
      Reaches(s, tasks) \/ Due(s)

-----------------------------------------------------------------------------
(* Lists and loops.                                                         *)

LEMMA NoProbesType == NoProbes \in Lists /\ NoProbes \in Loops
  BY DEF NoProbes, Lists, Loops

LEMMA ListType ==
  ASSUME NEW list
  PROVE  list \in Lists <=> \E S \in SUBSET Ids : list \in [S -> Specs]
  BY DEF Lists

LEMMA EditedType ==
  ASSUME NEW list \in Lists, NEW i \in Ids, NEW spec \in Specs
  PROVE  Without(list, i) \in Lists /\ With(list, i, spec) \in Lists
<1>1. PICK S \in SUBSET Ids : list \in [S -> Specs]
  BY ListType
<1>2. Without(list, i) \in [S \ {i} -> Specs]
  BY <1>1 DEF Without
<1>3. With(list, i, spec) \in [S \cup {i} -> Specs]
  BY <1>1 DEF With
<1>4. S \ {i} \in SUBSET Ids /\ S \cup {i} \in SUBSET Ids
  OBVIOUS
<1> QED BY <1>2, <1>3, <1>4, ListType

LEMMA WithoutType ==
  ASSUME NEW list \in Lists, NEW i \in Ids
  PROVE  Without(list, i) \in Lists
<1>1. PICK S \in SUBSET Ids : list \in [S -> Specs]
  BY ListType
<1>2. Without(list, i) \in [S \ {i} -> Specs] /\ S \ {i} \in SUBSET Ids
  BY <1>1 DEF Without
<1> QED BY <1>2, ListType

LEMMA TruncatedType ==
  ASSUME NEW list \in Lists
  PROVE  Truncated(list) \in Lists
<1>1. PICK S \in SUBSET Ids : list \in [S -> Specs]
  BY ListType
<1> DEFINE T == {j \in DOMAIN list : Cardinality({k \in DOMAIN list : k <= j}) <= MAX_PING_TASKS}
<1>2. T \in SUBSET Ids /\ \A i \in T : list[i] \in Specs
  BY <1>1
<1>3. Truncated(list) = [i \in T |-> list[i]]
  BY DEF Truncated
<1> HIDE DEF T
<1>4. Truncated(list) \in [T -> Specs]
  BY <1>2, <1>3
<1> QED BY <1>2, <1>4, ListType

(* respawn_ping_tasks runs what is wanted; a loop is kept exactly when its  *)
(* probe is unchanged, and what it starts is new.                           *)
LEMMA RespawnRuns ==
  ASSUME NEW loops \in Loops, NEW wanted \in Lists, NEW now \in Nat \ {0},
         \A i \in DOMAIN loops : loops[i][2] <= now - 1
  PROVE  LET new == Respawn(loops, wanted, now)
         IN  /\ new \in Loops
             /\ [i \in DOMAIN new |-> new[i][1]] = wanted
             /\ \A i \in DOMAIN new : new[i][2] <= now
             /\ \A i \in DOMAIN loops \cap DOMAIN new :
                  new[i][2] = loops[i][2] <=> new[i][1] = loops[i][1]
<1> DEFINE new == Respawn(loops, wanted, now)
<1>1. PICK S \in SUBSET Ids : loops \in [S -> Specs \X Nat]
  BY DEF Loops
<1>2. PICK W \in SUBSET Ids : wanted \in [W -> Specs]
  BY ListType
<1>3. /\ DOMAIN new = W
      /\ \A i \in W : new[i] = IF i \in S /\ loops[i][1] = wanted[i] THEN loops[i]
                               ELSE <<wanted[i], now>>
      /\ new = [i \in W |-> new[i]]
  BY <1>1, <1>2 DEF Respawn
<1> HIDE DEF new
<1>4. ASSUME NEW i \in W
      PROVE  /\ new[i] \in Specs \X Nat /\ new[i][1] = wanted[i] /\ new[i][2] <= now
             /\ i \in S => (new[i][2] = loops[i][2] <=> new[i][1] = loops[i][1])
  <2>1. wanted[i] \in Specs
    BY <1>2
  <2>2. i \in S => loops[i] \in Specs \X Nat /\ loops[i][2] \in Nat /\ loops[i][2] <= now - 1
    BY <1>1
  <2>3. CASE i \in S /\ loops[i][1] = wanted[i]
    BY <1>3, <2>2, <2>3
  <2>4. CASE ~(i \in S /\ loops[i][1] = wanted[i])
    <3>1. new[i] = <<wanted[i], now>>
      BY <1>3, <2>4
    <3>2. new[i] \in Specs \X Nat /\ new[i][1] = wanted[i] /\ new[i][2] = now
      BY <2>1, <3>1
    <3>3. i \in S => loops[i][2] # now
      BY <2>2
    <3> QED BY <2>4, <3>2, <3>3
  <2> QED BY <2>3, <2>4
<1>5. new \in Loops
  BY <1>3, <1>4 DEF Loops
<1>6. [i \in DOMAIN new |-> new[i][1]] = wanted
  BY <1>2, <1>3, <1>4
<1>7. DOMAIN loops = S
  BY <1>1
<1> QED BY <1>3, <1>4, <1>5, <1>6, <1>7 DEF new

-----------------------------------------------------------------------------
(* The end of a queue.                                                      *)

LEMMA LastOfLonger ==
  ASSUME NEW S, NEW q \in Seq(S), NEW e \in S
  PROVE  Append(q, e) \in Seq(S) /\ Append(q, e) # <<>> /\ Last(Append(q, e)) = e
  BY AppendProperties DEF Last

LEMMA LastOfTail ==
  ASSUME NEW S, NEW q \in Seq(S), q # <<>>
  PROVE  /\ Head(q) \in S /\ Tail(q) \in Seq(S)
         /\ Tail(q) = <<>> => Head(q) = Last(q)
         /\ Tail(q) # <<>> => Last(Tail(q)) = Last(q)
<1>1. /\ Head(q) \in S /\ Tail(q) \in Seq(S) /\ Len(Tail(q)) = Len(q) - 1
      /\ \A i \in 1..(Len(q) - 1) : Tail(q)[i] = q[i + 1]
  BY HeadTailProperties
<1>2. Len(q) \in Nat \ {0} /\ Head(q) = q[1]
  BY EmptySeq
<1>3. Tail(q) = <<>> => Len(q) = 1
  BY <1>1, <1>2, EmptySeq
<1>4. Tail(q) # <<>> => Len(q) # 1
  BY <1>1, <1>2, EmptySeq
<1>5. ASSUME NEW n \in Nat \ {0}, n # 1
      PROVE  n - 1 \in 1..(n - 1) /\ (n - 1) + 1 = n
  BY <1>5
<1> QED BY <1>1, <1>2, <1>3, <1>4, <1>5 DEF Last

-----------------------------------------------------------------------------
(* Shape, TimerInv and EntryInv, whatever the editors do.                   *)

Base == Shape /\ TimerInv /\ EntryInv

LEMMA InitBase == Init => Base
  BY NoProbesType, PushAssumption DEF Init, Base, Shape, TimerInv, EntryInv, NoProbes, Served

LEMMA SaveBase ==
  ASSUME NEW e \in Editors, Base, Save(e)
  PROVE  Base'
<1> USE DEF Base, Save, hub, agent
<1>1. tasks' \in Lists
  BY EditedType, WithoutType DEF Shape
<1>2. Shape'
  BY <1>1 DEF Shape
<1>3. TimerInv'
  BY DEF TimerInv
<1>4. EntryInv'
  BY DEF EntryInv, Shape
<1> QED BY <1>2, <1>3, <1>4

LEMMA SnapshotBase ==
  ASSUME NEW e \in Editors, Base, Snapshot(e)
  PROVE  Base'
<1> USE DEF Base, Snapshot, hub, agent
<1>1. Shape'
  BY DEF Shape
<1>2. TimerInv'
  BY DEF TimerInv
<1>3. EntryInv'
  BY DEF EntryInv, Shape
<1> QED BY <1>1, <1>2, <1>3

LEMMA ReadListBase ==
  ASSUME NEW e \in Editors, Base, ReadList(e)
  PROVE  Base'
<1> USE DEF Base, ReadList, agent
<1>1. Shape'
  BY NoProbesType DEF Shape
<1>2. TimerInv'
  BY DEF TimerInv
<1>3. EntryInv'
  BY DEF EntryInv, Shape
<1> QED BY <1>1, <1>2, <1>3

LEMMA TrySendBase ==
  ASSUME NEW e \in Editors, Base, TrySend(e)
  PROVE  Base'
<1> USE DEF Base, TrySend, agent
<1>1. target[e] \in Sessions /\ serve[target[e]] # "new"
  BY DEF EntryInv
<1>2. Append(queue[target[e]], message[e]) \in Seq(Lists)
  BY <1>1, LastOfLonger DEF Shape
<1>3. queue' \in [Sessions -> Seq(Lists)]
      /\ \A s \in Sessions : s # target[e] => queue'[s] = queue[s]
  BY <1>1, <1>2 DEF Shape
<1>4. Shape'
  BY <1>3, NoProbesType DEF Shape
<1>5. TimerInv'
  BY DEF TimerInv
<1>6. EntryInv'
  BY <1>1, <1>3 DEF EntryInv, Shape
<1> QED BY <1>4, <1>5, <1>6

LEMMA ActivateBase ==
  ASSUME NEW s \in Sessions, Base, Activate(s)
  PROVE  Base'
<1> USE DEF Base, Activate, handlers, agent
<1>1. Shape'
  BY DEF Shape, Served
<1>2. TimerInv'
  BY DEF TimerInv
<1>3. EntryInv'
  BY DEF EntryInv, Shape
<1> QED BY <1>1, <1>2, <1>3

LEMMA GreetBase ==
  ASSUME NEW s \in Sessions, Base, Greet(s)
  PROVE  Base'
<1> USE DEF Base, Greet, handlers, agent
<1>1. Shape'
  BY NoProbesType DEF Shape, Served
<1>2. TimerInv'
  BY DEF TimerInv
<1>3. EntryInv'
  BY DEF EntryInv, Shape
<1> QED BY <1>1, <1>2, <1>3

LEMMA ForwardBase ==
  ASSUME NEW s \in Sessions, Base, Forward(s)
  PROVE  Base'
<1> USE DEF Base, Forward, handlers, agent
<1>1. queue[s] \in Seq(Lists) /\ queue[s] # <<>>
  BY DEF Shape
<1>2. Head(queue[s]) \in Lists /\ Tail(queue[s]) \in Seq(Lists)
  BY <1>1, LastOfTail
<1>3. Shape'
  BY <1>2 DEF Shape, Served
<1>4. TimerInv'
  BY DEF TimerInv
<1>5. EntryInv'
  BY DEF EntryInv, Shape
<1> QED BY <1>3, <1>4, <1>5

LEMMA SentBase ==
  ASSUME NEW s \in Sessions, Base, Sent(s)
  PROVE  Base'
<1> USE DEF Base, Sent, handlers
<1>1. Append(wire[s], held[s]) \in Seq(Lists)
  BY LastOfLonger DEF Shape
<1>2. wire' \in [Sessions -> Seq(Lists)]
      /\ \A t \in Sessions : t # s => wire'[t] = wire[t]
  BY <1>1 DEF Shape
<1>3. Shape'
  BY <1>2, NoProbesType DEF Shape, Served
<1>4. TimerInv'
  BY DEF TimerInv
<1>5. EntryInv'
  BY <1>2 DEF EntryInv, Shape
<1> QED BY <1>3, <1>4, <1>5

LEMMA DropBase ==
  ASSUME NEW s \in Sessions, Base, Drop(s),
         serve' = [serve EXCEPT ![s] = "ended"] \/ serve' = [serve EXCEPT ![s] = "abandoned"],
         agents' \in {agents, None}, UNCHANGED <<tasks, edits, handlers>>
  PROVE  Base'
<1> USE DEF Base, Drop, handlers
<1>1. <<>> \in Seq(Lists)
  BY EmptySeq
<1>2. Shape'
  BY <1>1, NoProbesType DEF Shape, Served
<1>3. DOMAIN NoProbes = {}
  BY DEF NoProbes
<1>4. TimerInv'
  BY <1>3 DEF TimerInv, Shape
<1>5. EntryInv'
  BY DEF EntryInv, Shape
<1> QED BY <1>2, <1>4, <1>5

(* What a list does to the agent's loops.                                   *)
LEMMA Received ==
  ASSUME NEW s \in Sessions, Base, Receive(s)
  PROVE  /\ Head(wire[s]) \in Lists /\ Tail(wire[s]) \in Seq(Lists)
         /\ running'[s] \in Loops
         /\ Probes(s)' = Truncated(Head(wire[s]))
         /\ \A i \in DOMAIN running'[s] : running'[s][i][2] <= frames[s] + 1
         /\ \A i \in DOMAIN running[s] \cap DOMAIN running'[s] :
              running'[s][i][2] = running[s][i][2] <=> running'[s][i][1] = running[s][i][1]
<1>1. wire[s] \in Seq(Lists) /\ wire[s] # <<>>
  BY DEF Base, Shape, Receive
<1>2. Head(wire[s]) \in Lists /\ Tail(wire[s]) \in Seq(Lists)
  BY <1>1, LastOfTail
<1>3. Truncated(Head(wire[s])) \in Lists
  BY <1>2, TruncatedType
<1>4. frames[s] \in Nat /\ running[s] \in Loops
  BY DEF Base, Shape
<1>5. frames[s] + 1 \in Nat \ {0} /\ (frames[s] + 1) - 1 = frames[s]
  BY <1>4
<1>6. \A i \in DOMAIN running[s] : running[s][i][2] <= (frames[s] + 1) - 1
  BY <1>5 DEF Base, TimerInv
<1>7. running'[s] = Respawn(running[s], Truncated(Head(wire[s])), frames[s] + 1)
  BY DEF Receive, Base, Shape
<1> HIDE DEF Respawn, Truncated
<1>8. /\ running'[s] \in Loops
      /\ [i \in DOMAIN running'[s] |-> running'[s][i][1]] = Truncated(Head(wire[s]))
      /\ \A i \in DOMAIN running'[s] : running'[s][i][2] <= frames[s] + 1
      /\ \A i \in DOMAIN running[s] \cap DOMAIN running'[s] :
           running'[s][i][2] = running[s][i][2] <=> running'[s][i][1] = running[s][i][1]
  BY <1>3, <1>4, <1>5, <1>6, <1>7, RespawnRuns
<1>9. Probes(s)' = [i \in DOMAIN running'[s] |-> running'[s][i][1]]
  BY DEF Probes
<1> QED BY <1>2, <1>8, <1>9

LEMMA ReceiveBase ==
  ASSUME NEW s \in Sessions, Base, Receive(s)
  PROVE  Base'
<1> USE DEF Base, Receive, handlers, hub
<1>1. /\ Tail(wire[s]) \in Seq(Lists) /\ running'[s] \in Loops
      /\ \A i \in DOMAIN running'[s] : running'[s][i][2] <= frames[s] + 1
  BY Received
<1>2. /\ wire' \in [Sessions -> Seq(Lists)] /\ frames' \in [Sessions -> Nat]
      /\ frames'[s] = frames[s] + 1
      /\ \A t \in Sessions : t # s => wire'[t] = wire[t] /\ running'[t] = running[t] /\ frames'[t] = frames[t]
  BY <1>1 DEF Shape
<1>3. running' \in [Sessions -> Loops]
  <2>1. running' = [t \in Sessions |-> running'[t]]
    BY DEF Shape
  <2>2. \A t \in Sessions : running'[t] \in Loops
    BY <1>1, <1>2 DEF Shape
  <2> QED BY <2>1, <2>2
<1>4. Shape'
  BY <1>2, <1>3 DEF Shape
<1>5. TimerInv'
  BY <1>1, <1>2 DEF TimerInv
<1>6. EntryInv'
  BY <1>2 DEF EntryInv, Shape, Served
<1> QED BY <1>4, <1>5, <1>6

LEMMA FreezeBase ==
  ASSUME NEW s \in Sessions, Base, Freeze(s)
  PROVE  Base'
<1> USE DEF Base, Freeze, handlers, hub
<1>1. Shape'
  BY DEF Shape
<1>2. TimerInv'
  BY DEF TimerInv
<1>3. EntryInv'
  BY DEF EntryInv, Shape
<1> QED BY <1>1, <1>2, <1>3

LEMMA NextBase == Base /\ [Next]_vars => Base'
<1> SUFFICES ASSUME Base, [Next]_vars PROVE Base'
  OBVIOUS
<1>1. ASSUME NEW e \in Editors, Save(e) \/ Edit(e) PROVE Base'
  BY <1>1, SaveBase, SnapshotBase, ReadListBase, TrySendBase DEF Edit
<1>2. ASSUME NEW s \in Sessions, Activate(s) \/ Serve(s) \/ Receive(s) \/ Freeze(s) PROVE Base'
  BY <1>2, ActivateBase, GreetBase, ForwardBase, SentBase, ReceiveBase, FreezeBase DEF Serve
<1>3. ASSUME NEW s \in Sessions, End(s) \/ SendFails(s) PROVE Base'
  BY <1>3, DropBase DEF End, SendFails
<1>4. CASE UNCHANGED vars
  BY <1>4 DEF vars, handlers, hub, agent, Base, Shape, TimerInv, EntryInv
<1> QED BY <1>1, <1>2, <1>3, <1>4 DEF Next

THEOREM AlwaysBase == Spec => []Base
  BY InitBase, NextBase, PTL DEF Spec

-----------------------------------------------------------------------------
(* HoldInv and PipeInv.                                                     *)

LEMMA Undisturbed ==
  ASSUME NEW s, tasks' = tasks, queue'[s] = queue[s], serve'[s] = serve[s],
         held'[s] = held[s], wire'[s] = wire[s], running'[s] = running[s]
  PROVE  Reaches(s, tasks)' <=> Reaches(s, tasks)
<1>1. Probes(s)' = Probes(s)
  BY DEF Probes
<1> QED BY <1>1 DEF Reaches

LEMMA DueStays ==
  ASSUME NEW s, UNCHANGED <<pc, target>>
  PROVE  Due(s)' <=> Due(s)
  BY DEF Due

(* What PipeInv asks of one session.                                        *)
Live(s) ==
  agents = s /\ serve[s] \in Served /\ reading[s] /\ s \notin missed \cup blank \cup overlapped

LEMMA PipeSession == PipeInv <=> \A s \in Sessions : Live(s) => Reaches(s, tasks) \/ Due(s)
  BY DEF PipeInv, Live

LEMMA SavePipe ==
  ASSUME NEW e \in Editors, Base, HoldInv, PipeInv, Save(e)
  PROVE  HoldInv' /\ PipeInv'
<1>1. pc'[e] = "saved"
  BY DEF Save, Base, Shape
<1>2. HoldInv'
  BY DEF HoldInv, Save, Base, Shape
<1>3. \A s \in Sessions : Due(s)'
  BY <1>1 DEF Due
<1> QED BY <1>2, <1>3 DEF PipeInv

LEMMA SnapshotPipe ==
  ASSUME NEW e \in Editors, Base, HoldInv, PipeInv, Snapshot(e)
  PROVE  HoldInv' /\ PipeInv'
<1>1. pc'[e] = (IF agents = None THEN "idle" ELSE "reading") /\ target'[e] = agents /\ agents' = agents
  BY DEF Snapshot, Base, Shape, hub
<1>2. HoldInv'
  BY DEF HoldInv, Snapshot, Base, Shape, hub
<1>3. ASSUME NEW s \in Sessions, agents' = s PROVE Due(s)'
  BY <1>1, <1>3, PushAssumption DEF Due
<1> QED BY <1>2, <1>3 DEF PipeInv

LEMMA ReadListPipe ==
  ASSUME NEW e \in Editors, Base, HoldInv, PipeInv, ReadList(e)
  PROVE  HoldInv' /\ PipeInv'
<1> USE DEF Base
<1>1. /\ pc[e] = "reading" /\ pc'[e] = "holding" /\ target' = target
      /\ UNCHANGED <<tasks, agents, serve, held, queue, missed, overlapped, wire, reading, running>>
      /\ \A f \in Editors : f # e => pc'[f] = pc[f] /\ message'[f] = message[f]
  BY DEF ReadList, Shape, agent
<1>2. message'[e] = tasks \/ target[e] \in blank'
  BY DEF ReadList, PingTasksMessage, Shape
<1>3. blank \subseteq blank'
  BY DEF ReadList, PingTasksMessage
<1>4. HoldInv'
  <2> SUFFICES ASSUME NEW f \in Editors, pc'[f] = "holding", serve'[target'[f]] \in Served,
                      target'[f] \notin blank' \cup overlapped'
               PROVE  message'[f] = tasks'
    BY DEF HoldInv
  <2>1. CASE f = e
    BY <1>1, <1>2, <2>1
  <2>2. CASE f # e
    BY <1>1, <1>3, <2>2 DEF HoldInv
  <2> QED BY <2>1, <2>2
<1>5. ASSUME NEW s \in Sessions, Live(s)' PROVE Reaches(s, tasks)' \/ Due(s)'
  <2>1. Live(s)
    BY <1>1, <1>3, <1>5 DEF Live
  <2>2. CASE Reaches(s, tasks)
    BY <1>1, <2>2, Undisturbed
  <2>3. CASE Due(s)
    <3>1. PICK f \in Editors : pc[f] = "saved" \/ (pc[f] \in {"reading", "holding"} /\ target[f] = s)
      BY <2>3 DEF Due
    <3>2. pc'[f] = "saved" \/ (pc'[f] \in {"reading", "holding"} /\ target'[f] = s)
      BY <1>1, <3>1
    <3> QED BY <3>2 DEF Due
  <2> QED BY <2>1, <2>2, <2>3, PipeSession
<1> QED BY <1>4, <1>5 DEF PipeInv, Live

LEMMA TrySendPipe ==
  ASSUME NEW e \in Editors, Base, HoldInv, PipeInv, TrySend(e)
  PROVE  HoldInv' /\ PipeInv'
<1> USE DEF Base
<1>1. /\ pc[e] = "holding" /\ pc'[e] = "idle"
      /\ UNCHANGED <<tasks, agents, serve, held, blank, overlapped, wire, reading, running>>
      /\ \A f \in Editors : f # e =>
           pc'[f] = pc[f] /\ target'[f] = target[f] /\ message'[f] = message[f]
  BY DEF TrySend, Shape, agent
<1>2. target[e] \in Sessions
  BY <1>1 DEF EntryInv
<1>3. \/ /\ queue' = [queue EXCEPT ![target[e]] = Append(@, message[e])]
         /\ UNCHANGED missed
      \/ /\ serve[target[e]] \in Served /\ UNCHANGED queue
         /\ missed' = missed \cup {target[e]}
      \/ serve[target[e]] \notin Served /\ UNCHANGED <<queue, missed>>
  BY DEF TrySend
<1>4. HoldInv'
  BY <1>1 DEF HoldInv
<1>5. ASSUME NEW s \in Sessions, Live(s)' PROVE Reaches(s, tasks)' \/ Due(s)'
  <2>1. Live(s) /\ s \notin missed'
    BY <1>1, <1>3, <1>5 DEF Live
  <2>2. CASE s = target[e]
    <3>1. queue' = [queue EXCEPT ![s] = Append(@, message[e])]
      BY <1>3, <2>1, <2>2 DEF Live
    <3>2. message[e] = tasks
      BY <1>1, <2>1, <2>2 DEF HoldInv, Live
    <3>3. queue'[s] = Append(queue[s], tasks) /\ queue[s] \in Seq(Lists) /\ tasks \in Lists
      BY <3>1, <3>2 DEF Shape
    <3>4. queue'[s] # <<>> /\ Last(queue'[s]) = tasks
      BY <3>3, LastOfLonger
    <3> QED BY <1>1, <3>4 DEF Reaches
  <2>3. CASE s # target[e]
    <3>1. Due(s) => Due(s)'
      BY <1>1, <2>3 DEF Due
    <3>2. Reaches(s, tasks) \/ Due(s)
      BY <2>1, PipeSession
    <3>3. queue'[s] = queue[s]
      BY <1>3, <2>3 DEF Shape
    <3> QED BY <1>1, <3>1, <3>2, <3>3, Undisturbed
  <2> QED BY <2>2, <2>3
<1> QED BY <1>4, <1>5 DEF PipeInv, Live

LEMMA ActivatePipe ==
  ASSUME NEW s \in Sessions, Base, HoldInv, PipeInv, Activate(s)
  PROVE  HoldInv' /\ PipeInv'
<1> USE DEF Base
<1>1. /\ serve[s] = "new" /\ serve' = [serve EXCEPT ![s] = "active"] /\ agents' = s
      /\ UNCHANGED <<tasks, pc, target, message, held, queue, missed, blank, overlapped, wire, reading,
                    running>>
  BY DEF Activate, handlers, agent
<1>2. HoldInv'
  BY <1>1 DEF HoldInv, EntryInv, Shape
<1>3. queue'[s] = <<>> /\ wire'[s] = <<>> /\ serve'[s] = "active"
  BY <1>1 DEF EntryInv, Shape
<1>4. Reaches(s, tasks)'
  BY <1>3 DEF Reaches
<1> QED BY <1>1, <1>2, <1>4 DEF PipeInv

LEMMA GreetPipe ==
  ASSUME NEW s \in Sessions, Base, HoldInv, PipeInv, Greet(s)
  PROVE  HoldInv' /\ PipeInv'
<1> USE DEF Base
<1>1. /\ serve[s] = "active" /\ serve' = [serve EXCEPT ![s] = "greeting"]
      /\ UNCHANGED <<tasks, pc, target, message, agents, queue, missed, overlapped, wire, reading, running>>
  BY DEF Greet, handlers, agent
<1>2. /\ held'[s] = tasks \/ s \in blank'
      /\ \A t \in Sessions : t # s => held'[t] = held[t] /\ serve'[t] = serve[t]
      /\ blank \subseteq blank' /\ serve'[s] = "greeting"
  BY DEF Greet, PingTasksMessage, Shape
<1>3. HoldInv'
  BY <1>1, <1>2 DEF HoldInv, EntryInv, Shape, Served
<1>4. ASSUME NEW t \in Sessions, Live(t)' PROVE Reaches(t, tasks)' \/ Due(t)'
  <2>1. Live(t)
    BY <1>1, <1>2, <1>4 DEF Live, Served
  <2>2. CASE Due(t)
    BY <1>1, <2>2, DueStays
  <2>3. CASE Reaches(t, tasks) /\ t = s
    BY <1>1, <1>2, <1>4, <2>3 DEF Reaches, Live
  <2>4. CASE Reaches(t, tasks) /\ t # s
    BY <1>1, <1>2, <2>4, Undisturbed
  <2> QED BY <2>1, <2>2, <2>3, <2>4, PipeSession
<1> QED BY <1>3, <1>4 DEF PipeInv, Live

LEMMA ForwardPipe ==
  ASSUME NEW s \in Sessions, Base, HoldInv, PipeInv, Forward(s)
  PROVE  HoldInv' /\ PipeInv'
<1> USE DEF Base
<1>1. /\ serve[s] = "loop" /\ queue[s] # <<>>
      /\ UNCHANGED <<tasks, pc, target, message, agents, missed, blank, overlapped, wire, reading, running>>
  BY DEF Forward, handlers, agent
<1>2. /\ held'[s] = Head(queue[s]) /\ queue'[s] = Tail(queue[s]) /\ serve'[s] = "sending"
      /\ \A t \in Sessions : t # s => /\ held'[t] = held[t] /\ serve'[t] = serve[t]
                                      /\ queue'[t] = queue[t]
  BY DEF Forward, Shape
<1>3. HoldInv'
  BY <1>1, <1>2 DEF HoldInv, EntryInv, Shape, Served
<1>4. ASSUME NEW t \in Sessions, Live(t)' PROVE Reaches(t, tasks)' \/ Due(t)'
  <2>1. Live(t)
    BY <1>1, <1>2, <1>4 DEF Live, Served
  <2>2. CASE Due(t)
    BY <1>1, <2>2, DueStays
  <2>3. CASE Reaches(t, tasks) /\ t = s
    <3>1. Last(queue[s]) = tasks
      BY <1>1, <2>3 DEF Reaches
    <3>2. queue[s] \in Seq(Lists)
      BY DEF Shape
    <3>3. /\ Tail(queue[s]) = <<>> => Head(queue[s]) = Last(queue[s])
          /\ Tail(queue[s]) # <<>> => Last(Tail(queue[s])) = Last(queue[s])
      BY <1>1, <3>2, LastOfTail
    <3> QED BY <1>1, <1>2, <2>3, <3>1, <3>3 DEF Reaches
  <2>4. CASE Reaches(t, tasks) /\ t # s
    BY <1>1, <1>2, <2>4, Undisturbed
  <2> QED BY <2>1, <2>2, <2>3, <2>4, PipeSession
<1> QED BY <1>3, <1>4 DEF PipeInv, Live

LEMMA SentPipe ==
  ASSUME NEW s \in Sessions, Base, HoldInv, PipeInv, Sent(s)
  PROVE  HoldInv' /\ PipeInv'
<1> USE DEF Base
<1>1. /\ serve[s] \in {"greeting", "sending"}
      /\ UNCHANGED <<tasks, pc, target, message, agents, queue, missed, blank, overlapped, reading, running>>
  BY DEF Sent, handlers
<1>2. /\ serve'[s] = "loop"
      /\ wire'[s] = Append(wire[s], held[s]) \/ ~reading[s]
      /\ \A t \in Sessions : t # s => /\ held'[t] = held[t] /\ serve'[t] = serve[t]
                                      /\ wire'[t] = wire[t]
  BY DEF Sent, Shape
<1>3. HoldInv'
  BY <1>1, <1>2 DEF HoldInv, EntryInv, Shape, Served
<1>4. ASSUME NEW t \in Sessions, Live(t)' PROVE Reaches(t, tasks)' \/ Due(t)'
  <2>1. Live(t)
    BY <1>1, <1>2, <1>4 DEF Live, Served
  <2>2. CASE Due(t)
    BY <1>1, <2>2, DueStays
  <2>3. CASE Reaches(t, tasks) /\ t = s
    <3>1. wire'[s] = Append(wire[s], held[s])
      BY <1>2, <2>1, <2>3 DEF Live
    <3>2. wire[s] \in Seq(Lists) /\ held[s] \in Lists
      BY DEF Shape
    <3>3. wire'[s] # <<>> /\ Last(wire'[s]) = held[s]
      BY <3>1, <3>2, LastOfLonger
    <3> QED BY <1>1, <1>2, <2>3, <3>3 DEF Reaches
  <2>4. CASE Reaches(t, tasks) /\ t # s
    BY <1>1, <1>2, <2>4, Undisturbed
  <2> QED BY <2>1, <2>2, <2>3, <2>4, PipeSession
<1> QED BY <1>3, <1>4 DEF PipeInv, Live

LEMMA DropPipe ==
  ASSUME NEW s \in Sessions, Base, HoldInv, PipeInv, Drop(s),
         serve' = [serve EXCEPT ![s] = "ended"] \/ serve' = [serve EXCEPT ![s] = "abandoned"],
         agents' \in {agents, None}, UNCHANGED <<tasks, edits, handlers>>
  PROVE  HoldInv' /\ PipeInv'
<1> USE DEF Base
<1>1. /\ UNCHANGED <<tasks, pc, target, message>>
      /\ serve'[s] \notin Served /\ missed' = missed \ {s} /\ blank' = blank \ {s}
      /\ overlapped' = overlapped \ {s}
      /\ \A t \in Sessions : t # s =>
           /\ queue'[t] = queue[t] /\ wire'[t] = wire[t] /\ held'[t] = held[t]
           /\ running'[t] = running[t] /\ reading'[t] = reading[t] /\ serve'[t] = serve[t]
  BY DEF Drop, handlers, Shape, Served
<1>2. HoldInv'
  BY <1>1 DEF HoldInv, EntryInv, Shape
<1>3. ASSUME NEW t \in Sessions, Live(t)' PROVE Reaches(t, tasks)' \/ Due(t)'
  <2>1. t # s /\ Live(t)
    BY <1>1, <1>3, PushAssumption DEF Live
  <2>2. Reaches(t, tasks) \/ Due(t)
    BY <2>1, PipeSession
  <2> QED BY <1>1, <2>1, <2>2, Undisturbed, DueStays
<1> QED BY <1>2, <1>3 DEF PipeInv, Live

LEMMA ReceivePipe ==
  ASSUME NEW s \in Sessions, Base, HoldInv, PipeInv, Receive(s)
  PROVE  HoldInv' /\ PipeInv'
<1> USE DEF Base
<1>1. /\ wire[s] # <<>> /\ serve[s] \in Served /\ wire'[s] = Tail(wire[s])
      /\ UNCHANGED <<tasks, pc, target, message, agents, serve, held, queue, missed, blank, overlapped,
                    reading>>
      /\ \A t \in Sessions : t # s => wire'[t] = wire[t] /\ running'[t] = running[t]
  BY DEF Receive, handlers, hub, Shape
<1>2. HoldInv'
  BY <1>1 DEF HoldInv
<1>3. ASSUME NEW t \in Sessions, Live(t)' PROVE Reaches(t, tasks)' \/ Due(t)'
  <2>1. Live(t)
    BY <1>1, <1>3 DEF Live
  <2>2. CASE Due(t)
    BY <1>1, <2>2, DueStays
  <2>3. CASE Reaches(t, tasks) /\ t = s
    <3>1. CASE queue[s] # <<>> \/ serve[s] \in {"greeting", "sending"}
      BY <1>1, <2>3, <3>1 DEF Reaches
    <3>2. CASE queue[s] = <<>> /\ serve[s] \notin {"greeting", "sending"}
      <4>1. Last(wire[s]) = tasks
        BY <1>1, <2>3, <3>2 DEF Reaches
      <4>2. wire[s] \in Seq(Lists)
        BY DEF Shape
      <4>3. /\ Tail(wire[s]) = <<>> => Head(wire[s]) = Last(wire[s])
            /\ Tail(wire[s]) # <<>> => Last(Tail(wire[s])) = Last(wire[s])
        BY <1>1, <4>2, LastOfTail
      <4>4. Probes(s)' = Truncated(Head(wire[s]))
        BY Received
      <4> QED BY <1>1, <2>3, <3>2, <4>1, <4>3, <4>4 DEF Reaches
    <3> QED BY <3>1, <3>2
  <2>4. CASE Reaches(t, tasks) /\ t # s
    BY <1>1, <2>4, Undisturbed
  <2> QED BY <2>1, <2>2, <2>3, <2>4, PipeSession
<1> QED BY <1>2, <1>3 DEF PipeInv, Live

LEMMA FreezePipe ==
  ASSUME NEW s \in Sessions, Base, HoldInv, PipeInv, Freeze(s)
  PROVE  HoldInv' /\ PipeInv'
<1> USE DEF Base
<1>1. /\ UNCHANGED <<tasks, pc, target, message, agents, serve, held, queue, missed, blank, overlapped,
                    wire, running>>
      /\ ~reading'[s] /\ \A t \in Sessions : t # s => reading'[t] = reading[t]
  BY DEF Freeze, handlers, hub, Shape
<1>2. HoldInv'
  BY <1>1 DEF HoldInv
<1>3. ASSUME NEW t \in Sessions, Live(t)' PROVE Reaches(t, tasks)' \/ Due(t)'
  <2>1. Live(t)
    BY <1>1, <1>3 DEF Live
  <2>2. Reaches(t, tasks) \/ Due(t)
    BY <2>1, PipeSession
  <2> QED BY <1>1, <2>2, Undisturbed, DueStays
<1> QED BY <1>2, <1>3 DEF PipeInv, Live

(* The inductive invariant of AgentRunsCurrentList.                         *)
Pipe == Base /\ HoldInv /\ PipeInv

LEMMA InitPipe == Init => Pipe
<1>1. Init => HoldInv
  BY DEF Init, HoldInv
<1>2. Init => PipeInv
  BY PushAssumption DEF Init, PipeInv
<1> QED BY <1>1, <1>2, InitBase DEF Pipe

LEMMA NextPipe == Pipe /\ [Next]_vars => Pipe'
<1> SUFFICES ASSUME Pipe, [Next]_vars PROVE Pipe'
  OBVIOUS
<1>1. Base /\ Base'
  BY NextBase DEF Pipe
<1> SUFFICES HoldInv' /\ PipeInv'
  BY <1>1 DEF Pipe
<1>2. HoldInv /\ PipeInv
  BY DEF Pipe
<1>3. ASSUME NEW e \in Editors, Save(e) \/ Edit(e) PROVE HoldInv' /\ PipeInv'
  BY <1>1, <1>2, <1>3, SavePipe, SnapshotPipe, ReadListPipe, TrySendPipe DEF Edit
<1>4. ASSUME NEW s \in Sessions, Activate(s) \/ Serve(s) \/ Receive(s) \/ Freeze(s)
      PROVE  HoldInv' /\ PipeInv'
  BY <1>1, <1>2, <1>4, ActivatePipe, GreetPipe, ForwardPipe, SentPipe, ReceivePipe, FreezePipe DEF Serve
<1>5. ASSUME NEW s \in Sessions, End(s) \/ SendFails(s) PROVE HoldInv' /\ PipeInv'
  BY <1>1, <1>2, <1>5, DropPipe DEF End, SendFails
<1>6. CASE UNCHANGED vars
  <2>1. HoldInv'
    BY <1>2, <1>6 DEF vars, handlers, hub, agent, HoldInv
  <2>2. \A s \in Sessions : (Live(s)' <=> Live(s)) /\ (Due(s)' <=> Due(s))
                            /\ (Reaches(s, tasks)' <=> Reaches(s, tasks))
    BY <1>6, Undisturbed, DueStays DEF vars, handlers, hub, agent, Live
  <2> QED BY <1>2, <2>1, <2>2 DEF PipeInv, Live
<1> QED BY <1>3, <1>4, <1>5, <1>6 DEF Next

-----------------------------------------------------------------------------
(* An edit takes effect without a reconnect: once nothing is on its way, a  *)
(* connected agent runs the probes the panel shows, however the edits, the  *)
(* activation, the session's first list, replacements and lost connections  *)
(* interleave (push_ping_tasks, serve, respawn_ping_tasks), unless its      *)
(* queue was full, its list could not be read, or an edit was saved while   *)
(* another handler held the session's list and had not queued it.           *)
THEOREM CurrentListRuns == Spec => []AgentRunsCurrentList
<1>1. Pipe => AgentRunsCurrentList
  <2> SUFFICES ASSUME Pipe, NEW s \in Sessions,
                      Settled(s), reading[s], s \notin missed \cup blank \cup overlapped
               PROVE  Probes(s) = Truncated(tasks)
    BY DEF AgentRunsCurrentList
  <2>1. Live(s) /\ PipeInv
    BY DEF Live, Settled, Served, Pipe
  <2>2. ~Due(s)
    BY DEF Due, Settled
  <2>3. Reaches(s, tasks)
    BY <2>1, <2>2, PipeSession
  <2> QED BY <2>3 DEF Reaches, Settled
<1> QED BY <1>1, InitPipe, NextPipe, PTL DEF Spec

(* A push leaves the probes it does not change alone: their loops keep      *)
(* their timers, and a probe that did change starts again, however many     *)
(* edits come at once (respawn_ping_tasks).                                 *)
THEOREM TimersKeepRunning == Spec => TimersSurvive
<1> DEFINE Kept == \A s \in Sessions : \A i \in DOMAIN running[s] \cap DOMAIN running'[s] :
                     (running'[s][i][2] = running[s][i][2]) <=> (running'[s][i][1] = running[s][i][1])
<1>1. ASSUME Base, Next PROVE Kept
  <2>1. CASE UNCHANGED running
    BY <2>1
  <2>2. ASSUME NEW s \in Sessions, Drop(s) PROVE Kept
    <3>1. /\ DOMAIN running'[s] = {}
          /\ \A t \in Sessions : t # s => running'[t] = running[t]
      BY <1>1, <2>2 DEF Base, Shape, Drop, NoProbes
    <3> QED BY <3>1
  <2>3. ASSUME NEW s \in Sessions, Receive(s) PROVE Kept
    <3>1. \A t \in Sessions : t # s => running'[t] = running[t]
      BY <1>1, <2>3 DEF Base, Shape, Receive
    <3> QED BY <1>1, <2>3, <3>1, Received
  <2>4. (\E s \in Sessions : Drop(s) \/ Receive(s)) \/ UNCHANGED running
    BY <1>1 DEF Next, Edit, Serve, Save, Snapshot, ReadList, TrySend, Activate, Greet, Forward,
                Sent, End, SendFails, Freeze, hub, agent
  <2> QED BY <2>1, <2>2, <2>3, <2>4
<1>2. Base /\ [Next]_vars => [Kept]_vars
  BY <1>1
<1> HIDE DEF Kept
<1>3. Spec => [][Kept]_vars
  BY <1>2, AlwaysBase, PTL DEF Spec
<1> QED BY <1>3 DEF TimersSurvive, Kept
=============================================================================
