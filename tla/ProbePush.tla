------------------------------ MODULE ProbePush ------------------------------
(***************************************************************************)
(* How a probe edited in the panel reaches an agent: save_ping_task and    *)
(* delete_ping_task (server/src/api.rs), push_ping_tasks and the serve     *)
(* loop (server/src/agent_ws.rs), and the agent's side of it, session and  *)
(* respawn_ping_tasks (agent/src/main.rs).                                 *)
(*                                                                         *)
(* A handler changes the database and then, without a lock, takes the      *)
(* sender of every session in the map, reads the node's list, and puts it  *)
(* in the session's bounded queue if there is room.  The serve loop sends  *)
(* the list it read itself after activation and then forwards the queue,   *)
(* one message at a time; the agent compares each list with the probe      *)
(* loops it runs.  Nodes share nothing but the order in which a handler    *)
(* visits them, so there is one node.  A list is a function from the       *)
(* probe's id to its target and interval, here one value.                  *)
(***************************************************************************)
EXTENDS Integers, Sequences, FiniteSets

CONSTANTS
  Editors,         (* panel requests that save or delete a probe           *)
  Sessions,        (* the agent's connections, numbered as they activate   *)
  Ids, Specs,      (* probe ids; targets with their intervals              *)
  None,
  CAPACITY,        (* of a session's queue: mpsc::channel(16)              *)
  Window,          (* bound: frames the connection takes unread            *)
  MAX_PING_TASKS,  (* the most probes an agent runs                        *)
  MaxEdits         (* bound: edits                                         *)

ASSUME PushAssumption ==
  /\ Ids \subseteq Nat
  /\ Sessions \subseteq Nat /\ None \notin Sessions
  /\ CAPACITY \in Nat \ {0} /\ Window \in Nat \ {0}
  /\ MAX_PING_TASKS \in Nat /\ MaxEdits \in Nat

Lists == UNION {[S -> Specs] : S \in SUBSET Ids}
NoProbes == [i \in {} |-> {}]

VARIABLES
  tasks,     (* the node's list in the database                            *)
  edits,
  (* The handlers. *)
  pc, target, message,
  (* The Hub's side of each session. *)
  agents,    (* the session in the map, or None                            *)
  serve,     (* where its serve loop is                                    *)
  held,      (* the message the loop is sending                            *)
  queue,     (* its outbound queue                                         *)
  missed,    (* history: the sessions a push was dropped for               *)
  blank,     (* history: the sessions whose list could not be read         *)
  overlapped, (* history: the sessions an edit overlapped another edit for *)
  (* The connection and the agent. *)
  wire,      (* frames not read yet                                        *)
  reading,   (* whether the agent still reads                              *)
  running,   (* id -> its probe loop: what it probes, and when it started  *)
  frames     (* history: lists the session has applied                     *)

handlers == <<pc, target, message>>
hub == <<agents, serve, held, queue, missed, blank, overlapped>>
agent == <<wire, reading, running, frames>>
vars == <<tasks, edits, handlers, hub, agent>>

(* The states in which the session's receiver exists.                       *)
Served == {"active", "greeting", "loop", "sending"}

TypeOK ==
  /\ tasks \in Lists
  /\ edits \in 0..MaxEdits
  /\ pc \in [Editors -> {"idle", "saved", "reading", "holding"}]
  /\ target \in [Editors -> Sessions \cup {None}]
  /\ message \in [Editors -> Lists]
  /\ agents \in Sessions \cup {None}
  /\ serve \in [Sessions -> {"new", "ended", "abandoned"} \cup Served]
  /\ held \in [Sessions -> Lists]
  /\ \A s \in Sessions : /\ queue[s] \in Seq(Lists) /\ Len(queue[s]) <= CAPACITY
                         /\ wire[s] \in Seq(Lists) /\ Len(wire[s]) <= Window
                         /\ DOMAIN running[s] \subseteq Ids
                         /\ \A i \in DOMAIN running[s] : running[s][i] \in Specs \X Nat
                         /\ Cardinality(DOMAIN running[s]) <= MAX_PING_TASKS
  /\ missed \subseteq Sessions /\ blank \subseteq Sessions /\ overlapped \subseteq Sessions
  /\ reading \in [Sessions -> BOOLEAN]
  /\ frames \in [Sessions -> Nat]

Init ==
  /\ tasks = NoProbes /\ edits = 0
  /\ pc = [e \in Editors |-> "idle"]
  /\ target = [e \in Editors |-> None]
  /\ message = [e \in Editors |-> NoProbes]
  /\ agents = None
  /\ serve = [s \in Sessions |-> "new"]
  /\ held = [s \in Sessions |-> NoProbes]
  /\ queue = [s \in Sessions |-> <<>>]
  /\ missed = {} /\ blank = {} /\ overlapped = {}
  /\ wire = [s \in Sessions |-> <<>>]
  /\ reading = [s \in Sessions |-> TRUE]
  /\ running = [s \in Sessions |-> NoProbes]
  /\ frames = [s \in Sessions |-> 0]

-----------------------------------------------------------------------------
(* The handlers.                                                            *)

Without(list, i) == [j \in DOMAIN list \ {i} |-> list[j]]
With(list, i, spec) == [j \in DOMAIN list \cup {i} |-> IF j = i THEN spec ELSE list[j]]

(* Db::save_ping_task or Db::delete_ping_task: one probe joins the node's   *)
(* list, changes in it, or leaves it.  Nothing orders the handlers: another *)
(* one may hold a list it has read for a session and not queued yet.        *)
Save(e) ==
  /\ pc[e] = "idle" /\ edits < MaxEdits
  /\ edits' = edits + 1
  /\ pc' = [pc EXCEPT ![e] = "saved"]
  /\ \E i \in Ids : \/ tasks' = Without(tasks, i)
                    \/ \E spec \in Specs : tasks' = With(tasks, i, spec)
  /\ overlapped' = overlapped \cup {target[f] : f \in {g \in Editors : pc[g] = "holding"}}
  /\ UNCHANGED <<target, message, agents, serve, held, queue, missed, blank, agent>>

(* Mutant: a session that has yet to send its first list is passed over.    *)
SnapshotGreeted(e) ==
  LET found == IF agents # None /\ serve[agents] \in {"loop", "sending"} THEN agents ELSE None IN
  /\ pc[e] = "saved"
  /\ target' = [target EXCEPT ![e] = found]
  /\ pc' = [pc EXCEPT ![e] = IF found = None THEN "idle" ELSE "reading"]
  /\ UNCHANGED <<tasks, edits, message, hub, agent>>

(* push_ping_tasks: the senders are taken out of the map.                   *)
Snapshot(e) ==
  /\ pc[e] = "saved"
  /\ target' = [target EXCEPT ![e] = agents]
  /\ pc' = [pc EXCEPT ![e] = IF agents = None THEN "idle" ELSE "reading"]
  /\ UNCHANGED <<tasks, edits, message, hub, agent>>

(* ping_tasks_message, for a session: the node's list, or an empty one when *)
(* the query fails.                                                         *)
PingTasksMessage(s, text) ==
  \/ text = tasks /\ UNCHANGED blank
  \/ text = NoProbes /\ blank' = blank \cup {s}

ReadList(e) ==
  /\ pc[e] = "reading"
  /\ pc' = [pc EXCEPT ![e] = "holding"]
  /\ \E text \in {tasks, NoProbes} :
       PingTasksMessage(target[e], text) /\ message' = [message EXCEPT ![e] = text]
  /\ UNCHANGED <<tasks, edits, target, agents, serve, held, queue, missed, overlapped, agent>>

HasRoom(s) == Len(queue[s]) < CAPACITY

(* try_send: a full queue drops the message, and so does a closed one.      *)
TrySend(e) ==
  LET s == target[e] IN
  /\ pc[e] = "holding"
  /\ pc' = [pc EXCEPT ![e] = "idle"]
  /\ target' = [target EXCEPT ![e] = None]
  /\ message' = [message EXCEPT ![e] = NoProbes]
  /\ \/ /\ serve[s] \in Served /\ HasRoom(s)
        /\ queue' = [queue EXCEPT ![s] = Append(@, message[e])]
        /\ UNCHANGED missed
     \/ /\ serve[s] \in Served /\ ~HasRoom(s)
        /\ missed' = missed \cup {s}
        /\ UNCHANGED queue
     \/ /\ serve[s] \notin Served
        /\ UNCHANGED <<queue, missed>>
  /\ UNCHANGED <<tasks, edits, agents, serve, held, blank, overlapped, agent>>

-----------------------------------------------------------------------------
(* The serve loop.                                                          *)

(* activate; a session the node still had leaves the map, and its loop ends *)
(* when it finds its channel closed.                                        *)
Activate(s) ==
  /\ serve[s] = "new" /\ \A t \in Sessions : t < s => serve[t] # "new"
  /\ \A t \in Sessions : serve[t] \in Served => ~reading[t]
  /\ serve' = [serve EXCEPT ![s] = "active"]
  /\ agents' = s
  /\ UNCHANGED <<tasks, edits, handlers, held, queue, missed, blank, overlapped, agent>>

(* The list the session starts with.                                        *)
Greet(s) ==
  /\ serve[s] = "active"
  /\ serve' = [serve EXCEPT ![s] = "greeting"]
  /\ \E text \in {tasks, NoProbes} :
       PingTasksMessage(s, text) /\ held' = [held EXCEPT ![s] = text]
  /\ UNCHANGED <<tasks, edits, handlers, agents, queue, missed, overlapped, agent>>

(* Mutant: the last message stays in the queue.                             *)
ForwardAllButOne(s) ==
  /\ serve[s] = "loop" /\ Len(queue[s]) > 1
  /\ serve' = [serve EXCEPT ![s] = "sending"]
  /\ held' = [held EXCEPT ![s] = Head(queue[s])]
  /\ queue' = [queue EXCEPT ![s] = Tail(@)]
  /\ UNCHANGED <<tasks, edits, handlers, agents, missed, blank, overlapped, agent>>

(* A message leaves the queue.                                              *)
Forward(s) ==
  /\ serve[s] = "loop" /\ queue[s] # <<>>
  /\ serve' = [serve EXCEPT ![s] = "sending"]
  /\ held' = [held EXCEPT ![s] = Head(queue[s])]
  /\ queue' = [queue EXCEPT ![s] = Tail(@)]
  /\ UNCHANGED <<tasks, edits, handlers, agents, missed, blank, overlapped, agent>>

(* socket.send completes once the connection takes the frame; nothing else  *)
(* of the loop runs meanwhile.  An error of the first send is ignored.      *)
Sent(s) ==
  /\ \/ /\ serve[s] \in {"greeting", "sending"}
        /\ Len(wire[s]) < Window
        /\ wire' = [wire EXCEPT ![s] = Append(@, held[s])]
     \/ /\ serve[s] = "greeting" /\ ~reading[s]
        /\ UNCHANGED wire
  /\ serve' = [serve EXCEPT ![s] = "loop"]
  /\ held' = [held EXCEPT ![s] = NoProbes]
  /\ UNCHANGED <<tasks, edits, handlers, agents, queue, missed, blank, overlapped, reading, running,
                 frames>>

(* Both ends let go of what the connection carried: the Hub drops the       *)
(* receiver, the agent's session stops its probe loops.                     *)
Drop(s) ==
  /\ queue' = [queue EXCEPT ![s] = <<>>] /\ wire' = [wire EXCEPT ![s] = <<>>]
  /\ held' = [held EXCEPT ![s] = NoProbes] /\ running' = [running EXCEPT ![s] = NoProbes]
  /\ missed' = missed \ {s} /\ blank' = blank \ {s} /\ overlapped' = overlapped \ {s}
  /\ reading' = [reading EXCEPT ![s] = TRUE] /\ frames' = [frames EXCEPT ![s] = 0]

(* The loop ends and releases the session: the peer closed, the channel did *)
(* after a replacement, or the peer was silent for SILENCE.                 *)
End(s) ==
  /\ serve[s] = "loop"
  /\ serve' = [serve EXCEPT ![s] = "ended"]
  /\ agents' = IF agents = s THEN None ELSE agents
  /\ Drop(s)
  /\ UNCHANGED <<tasks, edits, handlers>>

(* The send fails because the connection is gone: the map keeps the entry.  *)
SendFails(s) ==
  /\ serve[s] = "sending"
  /\ serve' = [serve EXCEPT ![s] = "abandoned"]
  /\ Drop(s)
  /\ UNCHANGED <<tasks, edits, handlers, agents>>

-----------------------------------------------------------------------------
(* The agent.                                                               *)

(* The probes with the lowest ids: the Hub orders the list by id.           *)
Truncated(list) ==
  [i \in {j \in DOMAIN list : Cardinality({k \in DOMAIN list : k <= j}) <= MAX_PING_TASKS} |-> list[i]]

(* Mutant: every loop is started again.                                     *)
RespawnAll(loops, wanted, now) == [i \in DOMAIN wanted |-> <<wanted[i], now>>]

(* respawn_ping_tasks: a loop whose probe is unchanged goes on, the others  *)
(* stop, and what is missing starts.                                        *)
Respawn(loops, wanted, now) ==
  [i \in DOMAIN wanted |->
     IF i \in DOMAIN loops /\ loops[i][1] = wanted[i] THEN loops[i] ELSE <<wanted[i], now>>]

Receive(s) ==
  /\ wire[s] # <<>> /\ reading[s] /\ serve[s] \in Served
  /\ wire' = [wire EXCEPT ![s] = Tail(@)]
  /\ frames' = [frames EXCEPT ![s] = @ + 1]
  /\ running' = [running EXCEPT ![s] = Respawn(@, Truncated(Head(wire[s])), frames[s] + 1)]
  /\ UNCHANGED <<tasks, edits, handlers, hub, reading>>

(* The process stops reading its socket.                                    *)
Freeze(s) ==
  /\ serve[s] \in Served /\ reading[s]
  /\ reading' = [reading EXCEPT ![s] = FALSE]
  /\ UNCHANGED <<tasks, edits, handlers, hub, wire, running, frames>>

-----------------------------------------------------------------------------
Edit(e) == Snapshot(e) \/ ReadList(e) \/ TrySend(e)

Serve(s) == Greet(s) \/ Forward(s) \/ Sent(s)

Next ==
  \/ \E e \in Editors : Save(e) \/ Edit(e)
  \/ \E s \in Sessions :
       \/ Activate(s) \/ Serve(s) \/ End(s) \/ SendFails(s)
       \/ Receive(s) \/ Freeze(s)

(* A request goes on once begun, the loop and the agent go on while they    *)
(* can.  The heartbeat branch is polled again and again while the loop      *)
(* waits, and ends the session of an agent that has gone silent.            *)
Fairness ==
  /\ \A e \in Editors : WF_vars(Edit(e))
  /\ \A s \in Sessions :
       /\ WF_vars(Serve(s))
       /\ WF_vars(Receive(s))
       /\ SF_vars(End(s) /\ ~reading[s])

Spec == Init /\ [][Next]_vars /\ Fairness
-----------------------------------------------------------------------------
(* Properties.                                                              *)

(* What a session's agent probes.                                           *)
Probes(s) == [i \in DOMAIN running[s] |-> running[s][i][1]]

(* Nothing is on its way to the agent of the session in the map.            *)
Settled(s) ==
  /\ agents = s /\ serve[s] = "loop"
  /\ queue[s] = <<>> /\ wire[s] = <<>>
  /\ \A e \in Editors : pc[e] = "idle"

(* An edit takes effect without a reconnect: once nothing is on its way, a  *)
(* connected agent runs the probes the panel shows, however the edit, the   *)
(* activation and the session's first list interleave.  Three sessions are  *)
(* left behind: one whose queue was full, one whose list could not be read, *)
(* and one for which an edit was saved while the handler of another held    *)
(* the list it had read, which may reach the queue last (push_ping_tasks,   *)
(* serve; nothing orders the handlers of save_ping_task and                 *)
(* delete_ping_task).                                                       *)
AgentRunsCurrentList ==
  \A s \in Sessions :
    Settled(s) /\ reading[s] /\ s \notin missed \cup blank \cup overlapped =>
      Probes(s) = Truncated(tasks)

(* An edit reaches the agent: a push that was begun ends with the session   *)
(* on the current list, with a session that lost its connection or stopped  *)
(* reading, or with a queue that was full or a list that was not read.      *)
EditTakesEffect ==
  (\E e \in Editors : pc[e] = "saved") ~>
    \/ agents = None \/ agents \in missed \cup blank
    \/ serve[agents] = "abandoned" \/ ~reading[agents]
    \/ Probes(agents) = Truncated(tasks)

(* A push leaves the probes it does not change alone: their loops keep      *)
(* their timers, and a probe that did change starts again                   *)
(* (respawn_ping_tasks).                                                    *)
TimersSurvive ==
  [][\A s \in Sessions : \A i \in DOMAIN running[s] \cap DOMAIN running'[s] :
       (running'[s][i][2] = running[s][i][2]) <=> (running'[s][i][1] = running[s][i][1])]_vars
=============================================================================
