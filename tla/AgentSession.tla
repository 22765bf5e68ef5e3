---------------------------- MODULE AgentSession ----------------------------
(***************************************************************************)
(* Agent sessions on the Hub (server/src/agent_ws.rs) against the panel    *)
(* operations that end them: token rotation, node deletion and restore     *)
(* (server/src/api.rs).                                                    *)
(*                                                                         *)
(* A connection checks its token, upgrades, and activates: under the admin *)
(* mutex it checks the token again, takes the node's previous session out  *)
(* of the map, waits for that session's report, and puts itself in.  It    *)
(* then serves frames: each is dispatched to a blocking thread, which      *)
(* looks the session up, takes the session's state lock, checks that it    *)
(* was not retired meanwhile, and writes to the database, one to three     *)
(* times.  A panel operation takes the sessions concerned out of the map,  *)
(* retires and locks them one by one, and changes the database with their  *)
(* locks held.                                                             *)
(*                                                                         *)
(* A token is a number per node, 0 for a node that is not there.  What a   *)
(* report contains is left out, and so are the probe lists (ProbePush).    *)
(***************************************************************************)
EXTENDS Naturals, FiniteSets

CONSTANTS
  Nodes,
  Sessions,     (* the connections of a behaviour                          *)
  None,         (* no session, no operation                                *)
  MaxToken,     (* bound: tokens issued for one node                       *)
  MaxEpoch      (* bound: restores, plus one                               *)

ASSUME SessionAssumption ==
  /\ None \notin Sessions
  /\ MaxToken \in Nat \ {0}
  /\ MaxEpoch \in Nat \ {0}

VARIABLES
  (* The database. *)
  token,     (* of each node: the token its row holds                      *)
  issued,    (* of each node: the tokens ever issued                       *)
  epoch,     (* which database is in service                               *)
  (* The Hub. *)
  agents,    (* App::agents: the session each online node has              *)
  admin,     (* who holds agents_admin, and how far it is                  *)
  (* The sessions. *)
  pc, node,
  cred,      (* the token the connection presented                         *)
  basis,     (* history: the database the session was activated on         *)
  retired,   (* Agent::retired                                             *)
  locked,    (* Agent::state: free, or held by a report or by the panel    *)
  link,      (* the connection as the network sees it                      *)
  stray      (* history: the writes a session made without title to them   *)

hub == <<agents, admin>>
database == <<token, issued, epoch>>
who == <<node, cred, basis>>
vars == <<database, hub, pc, who, retired, locked, link, stray>>

(* The frames a session handles with the state lock held.                   *)
Writing == {"facts", "accumulate", "metric", "touch", "ping"}
(* The serve loop is running.                                               *)
Serving == {"serving", "cloned", "locate"} \cup Writing
SessionStates == {"new", "upgraded", "activating", "ending", "ended", "abandoned"} \cup Serving

Ops == {"none", "activate", "rotate", "delete", "restore"}
Stages == {"take", "retire"}

TypeOK ==
  /\ token \in [Nodes -> 0..MaxToken]
  /\ issued \in [Nodes -> 1..MaxToken]
  /\ epoch \in 1..MaxEpoch
  /\ agents \in [Nodes -> Sessions \cup {None}]
  /\ admin.op \in Ops /\ admin.stage \in Stages
  /\ admin.by \in Sessions \cup Nodes \cup {None}
  /\ admin.todo \subseteq Sessions /\ admin.held \subseteq Sessions
  /\ admin.current \in Sessions \cup {None}
  /\ pc \in [Sessions -> SessionStates]
  /\ node \in [Sessions -> Nodes]
  /\ cred \in [Sessions -> 0..MaxToken]
  /\ basis \in [Sessions -> 0..MaxEpoch]
  /\ retired \in [Sessions -> BOOLEAN]
  /\ locked \in [Sessions -> {"free", "report", "panel"}]
  /\ link \in [Sessions -> {"up", "dead"}]
  /\ stray \subseteq Sessions \X {"report", "lookup"}

(* The operation holding agents_admin: who asked for it, the sessions still *)
(* to retire, the one it is waiting for, and those whose lock it holds.     *)
NoOp == [op |-> "none", by |-> None, stage |-> "take",
         todo |-> {}, current |-> None, held |-> {}]

Init ==
  /\ token = [n \in Nodes |-> 1]
  /\ issued = [n \in Nodes |-> 1]
  /\ epoch = 1
  /\ agents = [n \in Nodes |-> None]
  /\ admin = NoOp
  /\ pc = [s \in Sessions |-> "new"]
  /\ node \in [Sessions -> Nodes]
  /\ cred = [s \in Sessions |-> 0]
  /\ basis = [s \in Sessions |-> 0]
  /\ retired = [s \in Sessions |-> FALSE]
  /\ locked = [s \in Sessions |-> "free"]
  /\ link = [s \in Sessions |-> "up"]
  /\ stray = {}

Goto(s, from, to) ==
  /\ pc[s] = from
  /\ pc' = [pc EXCEPT ![s] = to]

-----------------------------------------------------------------------------
(* The connection, up to activation.                                        *)

(* handler: the token names a node now; the upgrade completes later.        *)
Handshake(s) ==
  /\ Goto(s, "new", "upgraded")
  /\ token[node[s]] # 0
  /\ cred' = [cred EXCEPT ![s] = token[node[s]]]
  /\ UNCHANGED <<database, hub, node, basis, retired, locked, link, stray>>

(* Mutant: the token is not checked again after the upgrade.                *)
ActivateBeginUnchecked(s) ==
  /\ admin.op = "none"
  /\ Goto(s, "upgraded", "activating")
  /\ admin' = [NoOp EXCEPT !.op = "activate", !.by = s]
  /\ UNCHANGED <<database, agents, who, retired, locked, link, stray>>

(* activate: the admin mutex, and the second check of the token.            *)
ActivateBegin(s) ==
  /\ admin.op = "none"
  /\ token[node[s]] = cred[s]
  /\ Goto(s, "upgraded", "activating")
  /\ admin' = [NoOp EXCEPT !.op = "activate", !.by = s]
  /\ UNCHANGED <<database, agents, who, retired, locked, link, stray>>

ActivateRefused(s) ==
  /\ admin.op = "none"
  /\ token[node[s]] # cred[s]
  /\ Goto(s, "upgraded", "ended")
  /\ UNCHANGED <<database, hub, who, retired, locked, link, stray>>

-----------------------------------------------------------------------------
(* The panel: retire_node_then and retire_all_then, and what they run.      *)

PanelBegin(op, by) ==
  /\ admin.op = "none"
  /\ admin' = [NoOp EXCEPT !.op = op, !.by = by]
  /\ UNCHANGED <<database, agents, pc, who, retired, locked, link, stray>>

(* reset_token checks that the node exists before the mutex, so the node    *)
(* may be gone by now.                                                      *)
Rotate(n) == issued[n] < MaxToken /\ PanelBegin("rotate", n)
Delete(n) == PanelBegin("delete", n)
Restore   == epoch < MaxEpoch /\ PanelBegin("restore", None)

(* The nodes whose sessions an operation ends.                              *)
Target ==
  CASE admin.op = "activate" -> {node[admin.by]}
    [] admin.op \in {"rotate", "delete"} -> {admin.by}
    [] admin.op = "restore" -> Nodes
    [] OTHER -> {}

(* The sessions leave the map together.                                     *)
TakeOut ==
  /\ admin.op # "none" /\ admin.stage = "take"
  /\ admin' = [admin EXCEPT !.stage = "retire",
                            !.todo = {agents[n] : n \in Target} \ {None}]
  /\ agents' = [n \in Nodes |-> IF n \in Target THEN None ELSE agents[n]]
  /\ UNCHANGED <<database, pc, who, retired, locked, link, stray>>

(* retire_and_lock, session by session: mark, then wait for the report.     *)
Mark(s) ==
  /\ admin.current = None /\ s \in admin.todo
  /\ retired' = [retired EXCEPT ![s] = TRUE]
  /\ admin' = [admin EXCEPT !.todo = @ \ {s}, !.current = s]
  /\ UNCHANGED <<database, agents, pc, who, locked, link, stray>>

(* Mutant: the retired session's report is not waited for.                  *)
LockStateNoWait ==
  /\ admin.current # None
  /\ admin' = [admin EXCEPT !.current = None]
  /\ UNCHANGED <<database, agents, pc, who, retired, locked, link, stray>>

LockState ==
  /\ admin.current # None
  /\ locked[admin.current] = "free"
  /\ locked' = [locked EXCEPT ![admin.current] = "panel"]
  /\ admin' = [admin EXCEPT !.held = @ \cup {admin.current}, !.current = None]
  /\ UNCHANGED <<database, agents, pc, who, retired, link, stray>>

AllRetired == admin.stage = "retire" /\ admin.todo = {} /\ admin.current = None

(* The operation ends: the state locks and the admin mutex are released.    *)
Done ==
  /\ admin' = NoOp
  /\ locked' = [s \in Sessions |-> IF s \in admin.held THEN "free" ELSE locked[s]]

(* activate: the new session enters the map.                                *)
ActivateInsert ==
  /\ admin.op = "activate" /\ AllRetired
  /\ agents' = [agents EXCEPT ![node[admin.by]] = admin.by]
  /\ basis' = [basis EXCEPT ![admin.by] = epoch]
  /\ pc' = [pc EXCEPT ![admin.by] = "serving"]
  /\ Done
  /\ UNCHANGED <<database, node, cred, retired, link, stray>>

(* Db::reset_token, Db::delete_node and Db::restore_from, run with the      *)
(* locks held; each may fail and leave the database as it was.  A restore   *)
(* brings back whichever token the archive holds, or no node at all.        *)
PanelRun ==
  /\ admin.op \in {"rotate", "delete", "restore"} /\ AllRetired
  /\ \/ /\ admin.op = "rotate"
        /\ issued' = [issued EXCEPT ![admin.by] = @ + 1]
        /\ token' = [token EXCEPT ![admin.by] = IF @ = 0 THEN 0 ELSE issued[admin.by] + 1]
        /\ UNCHANGED epoch
     \/ /\ admin.op = "delete"
        /\ token' = [token EXCEPT ![admin.by] = 0]
        /\ UNCHANGED <<issued, epoch>>
     \/ /\ admin.op = "restore"
        /\ token' \in {t \in [Nodes -> 0..MaxToken] : \A n \in Nodes : t[n] <= issued[n]}
        /\ epoch' = epoch + 1
        /\ UNCHANGED issued
     \/ UNCHANGED database
  /\ Done
  /\ UNCHANGED <<agents, pc, who, retired, link, stray>>

-----------------------------------------------------------------------------
(* The serve loop.                                                          *)

(* dispatch: the map must still hold this session.                          *)
Lookup(s) ==
  /\ pc[s] = "serving"
  /\ agents[node[s]] = s
  /\ pc' = [pc EXCEPT ![s] = "cloned"]
  /\ UNCHANGED <<database, hub, who, retired, locked, link, stray>>

(* Mutant: the retirement check comes before the lock, in Lookup.           *)
EnterUnchecked(s) ==
  /\ locked[s] = "free"
  /\ \E frame \in {"facts", "accumulate", "ping"} : Goto(s, "cloned", frame)
  /\ locked' = [locked EXCEPT ![s] = "report"]
  /\ UNCHANGED <<database, hub, who, retired, link, stray>>

(* The state lock, and then the retirement check.                           *)
Enter(s) ==
  /\ locked[s] = "free"
  /\ \/ /\ ~retired[s]
        /\ \E frame \in {"facts", "accumulate", "ping"} : Goto(s, "cloned", frame)
        /\ locked' = [locked EXCEPT ![s] = "report"]
     \/ /\ retired[s]
        /\ Goto(s, "cloned", "serving")
        /\ UNCHANGED locked
  /\ UNCHANGED <<database, hub, who, retired, link, stray>>

(* A session may write while it is the node's holder of the current token,  *)
(* on the database it was activated on.                                     *)
Entitled(s) == token[node[s]] = cred[s] /\ basis[s] = epoch

Wrote(s) == stray' = IF Entitled(s) THEN stray ELSE stray \cup {<<s, "report">>}

Leave(s, to) ==
  /\ pc' = [pc EXCEPT ![s] = to]
  /\ locked' = [locked EXCEPT ![s] = "free"]

(* The first write of a report; the history row is due once a minute.       *)
Accumulate(s) ==
  /\ \/ \E to \in {"metric", "touch"} : Goto(s, "accumulate", to) /\ UNCHANGED locked
     \/ pc[s] = "accumulate" /\ Leave(s, "serving")
  /\ Wrote(s)
  /\ UNCHANGED <<database, hub, who, retired, link>>

(* Mutant: a report whose history row fails starts again, lock in hand.     *)
InsertMetricRetries(s) ==
  /\ \E to \in {"touch", "accumulate"} : Goto(s, "metric", to)
  /\ Wrote(s)
  /\ UNCHANGED <<database, hub, who, retired, locked, link>>

InsertMetric(s) ==
  /\ \/ Goto(s, "metric", "touch") /\ UNCHANGED locked
     \/ pc[s] = "metric" /\ Leave(s, "serving")
  /\ Wrote(s)
  /\ UNCHANGED <<database, hub, who, retired, link>>

(* The last write of a report, of a hello, and a probe result.              *)
LastWrite(s) ==
  /\ pc[s] \in {"touch", "facts", "ping"}
  /\ \/ Leave(s, "serving")
     \/ pc[s] = "facts" /\ Leave(s, "locate")
  /\ Wrote(s)
  /\ UNCHANGED <<database, hub, who, retired, link>>

(* locate: the country of a new address, stored after the lock is released. *)
(* The statement matches the node's id and address, which a restored row    *)
(* may well share.                                                          *)
Locate(s) ==
  /\ Goto(s, "locate", "serving")
  /\ stray' = IF basis[s] # epoch /\ token[node[s]] # 0
                THEN stray \cup {<<s, "lookup">>} ELSE stray
  /\ UNCHANGED <<database, hub, who, retired, locked, link>>

-----------------------------------------------------------------------------
(* The end of a session.                                                    *)

(* The machine leaves the network, or its connection is reset.              *)
LinkDies(s) ==
  /\ pc[s] \in Serving /\ link[s] = "up"
  /\ link' = [link EXCEPT ![s] = "dead"]
  /\ UNCHANGED <<database, hub, pc, who, retired, locked, stray>>

(* The peer closes, or the receive fails.                                   *)
PeerCloses(s) ==
  /\ Goto(s, "serving", "ending")
  /\ UNCHANGED <<database, hub, who, retired, locked, link, stray>>

(* Mutant: the loop goes on without its outbound channel.                   *)
ChannelClosesUnnoticed(s) ==
  /\ retired[s]
  /\ Goto(s, "serving", "serving")
  /\ UNCHANGED <<database, hub, who, retired, locked, link, stray>>

(* The outbound channel is closed: the map no longer holds its sender.      *)
ChannelCloses(s) ==
  /\ retired[s]
  /\ Goto(s, "serving", "ending")
  /\ UNCHANGED <<database, hub, who, retired, locked, link, stray>>

(* The heartbeat finds the connection silent.                               *)
Silence(s) ==
  /\ link[s] = "dead"
  /\ Goto(s, "serving", "ending")
  /\ UNCHANGED <<database, hub, who, retired, locked, link, stray>>

(* A push or a ping cannot be sent: serve returns without release.          *)
SendFails(s) ==
  /\ link[s] = "dead"
  /\ Goto(s, "serving", "abandoned")
  /\ UNCHANGED <<database, hub, who, retired, locked, link, stray>>

(* Mutant: whichever session the node has is released.                      *)
ReleaseAny(s) ==
  /\ Goto(s, "ending", "ended")
  /\ agents' = [agents EXCEPT ![node[s]] = None]
  /\ retired' = [retired EXCEPT ![s] = TRUE]
  /\ UNCHANGED <<database, admin, who, locked, link, stray>>

(* release: the map entry goes if it is still this session's.               *)
Release(s) ==
  /\ Goto(s, "ending", "ended")
  /\ IF agents[node[s]] = s
       THEN /\ agents' = [agents EXCEPT ![node[s]] = None]
            /\ retired' = [retired EXCEPT ![s] = TRUE]
       ELSE UNCHANGED <<agents, retired>>
  /\ UNCHANGED <<database, admin, who, locked, link, stray>>

-----------------------------------------------------------------------------
Connect(s) == Handshake(s) \/ ActivateBegin(s) \/ ActivateRefused(s)

Panel ==
  \/ \E n \in Nodes : Rotate(n) \/ Delete(n)
  \/ Restore

Retire == TakeOut \/ (\E s \in Sessions : Mark(s)) \/ LockState \/ ActivateInsert \/ PanelRun

Report(s) == Enter(s) \/ Accumulate(s) \/ InsertMetric(s) \/ LastWrite(s) \/ Locate(s)

End(s) == PeerCloses(s) \/ ChannelCloses(s) \/ Silence(s) \/ SendFails(s) \/ Release(s)

(* Every connection has come and gone.                                      *)
Finished ==
  /\ admin.op = "none"
  /\ \A s \in Sessions : pc[s] \in {"ended", "abandoned"} \/ (pc[s] = "new" /\ token[node[s]] = 0)
  /\ UNCHANGED vars

Next ==
  \/ \E s \in Sessions : Connect(s) \/ Lookup(s) \/ Report(s) \/ LinkDies(s) \/ End(s)
  \/ Panel
  \/ Retire
  \/ Finished

(* A thread that has begun an operation or a frame goes on.  The select     *)
(* loop serves frames too, so the branches that end it need strong          *)
(* fairness: tokio polls the ready branches in random order.                *)
Fairness ==
  /\ WF_vars(Retire)
  /\ \A s \in Sessions :
       /\ WF_vars(Report(s))
       /\ WF_vars(Release(s))
       /\ SF_vars(ActivateBegin(s) \/ ActivateRefused(s))
       /\ SF_vars(ChannelCloses(s))
       /\ SF_vars(Silence(s) \/ SendFails(s))

Spec == Init /\ [][Next]_vars /\ Fairness
-----------------------------------------------------------------------------
(* Properties.                                                              *)

(* No report outlives its session: whatever a hello, a report or a probe    *)
(* result writes, it writes while the session's token is the node's and the *)
(* database is the one it connected to.  Rotation, deletion and restore     *)
(* wait for the report in progress and turn away the one behind it          *)
(* (retire_node_then, retire_all_then, the check after lock_state).         *)
ReportsStayEntitled == \A s \in Sessions : <<s, "report">> \notin stray

(* Reports for one node are ordered across a reconnect: two sessions of a   *)
(* node are never both in the middle of a frame (activate waits out the old *)
(* session's report).                                                       *)
OneReporterPerNode ==
  \A s, t \in Sessions :
    s # t /\ node[s] = node[t] => ~(pc[s] \in Writing /\ pc[t] \in Writing)

(* A session that is being served and that nobody retired is the one the    *)
(* panel shows: a late teardown does not take a reconnected node offline    *)
(* (release compares the session).                                          *)
ServedMeansOnline ==
  \A s \in Sessions :
    pc[s] \in Serving /\ ~retired[s] /\ admin.op = "none" => agents[node[s]] = s

(* A revoked token is locked out: once no operation is in progress, the     *)
(* session of an online node holds the token its row holds, on the database *)
(* in service (activate's second check, under the mutex).                   *)
OnlineMeansEntitled ==
  admin.op = "none" =>
    \A n \in Nodes : agents[n] # None => Entitled(agents[n])

(* The panel's operation, and an activation, always get through: no report  *)
(* and no other operation blocks them forever.                              *)
OperationsFinish == (admin.op # "none") ~> (admin.op = "none")

(* A retired session does not linger: its serve loop ends, although its     *)
(* peer may keep the connection open.                                       *)
RetiredEnds ==
  \A s \in Sessions : (retired[s] /\ pc[s] \in Serving) ~> (pc[s] \notin Serving)

=============================================================================
