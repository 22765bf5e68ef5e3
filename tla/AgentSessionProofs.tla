------------------------- MODULE AgentSessionProofs -------------------------
(***************************************************************************)
(* Reports never outlive the session's title to make them, for any number  *)
(* of nodes, connections, rotations, deletions and restores.               *)
(*                                                                         *)
(* A session whose report is under way is in the map, or in the hands of   *)
(* the operation that took it out and has not yet got its lock (ServedInv  *)
(* and WaitInv).  That operation changes the database only when it waits   *)
(* for nobody, and then only for the nodes it took out of the map          *)
(* (OpInv), so whoever still writes is a session of another node.          *)
(***************************************************************************)
EXTENDS AgentSession, TLAPS

Shape ==
  /\ token \in [Nodes -> 0..MaxToken]
  /\ issued \in [Nodes -> 1..MaxToken]
  /\ epoch \in 1..MaxEpoch
  /\ agents \in [Nodes -> Sessions \cup {None}]
  /\ admin \in [op : Ops, by : Sessions \cup Nodes \cup {None}, stage : Stages,
                todo : SUBSET Sessions, current : Sessions \cup {None}, held : SUBSET Sessions]
  /\ pc \in [Sessions -> SessionStates]
  /\ node \in [Sessions -> Nodes]
  /\ cred \in [Sessions -> 0..MaxToken]
  /\ basis \in [Sessions -> 0..MaxEpoch]
  /\ retired \in [Sessions -> BOOLEAN]
  /\ locked \in [Sessions -> {"free", "report", "panel"}]
  /\ link \in [Sessions -> {"up", "dead"}]
  /\ stray \subseteq Sessions \X {"report", "lookup"}

(* A connection that was activated, at some time.                           *)
Activated(s) == pc[s] \notin {"new", "upgraded", "activating"}

(* The operation still has to retire s, or to get its lock.                 *)
Awaited(s) == s \in admin.todo \/ s = admin.current

(* Who is in the map is a session of that node, and entitled.               *)
MapInv ==
  \A n \in Nodes : agents[n] # None =>
    node[agents[n]] = n /\ Activated(agents[n]) /\ Entitled(agents[n])

(* What the operation under way knows.                                      *)
OpInv ==
  /\ admin.op = "none" \/ admin.stage = "take" =>
       admin.todo = {} /\ admin.current = None /\ admin.held = {}
  /\ admin.op \in {"rotate", "delete"} => admin.by \in Nodes
  /\ admin.op = "rotate" => issued[admin.by] < MaxToken
  /\ admin.op = "restore" => epoch < MaxEpoch
  /\ admin.op = "activate" =>
       admin.by \in Sessions /\ pc[admin.by] = "activating"
         /\ token[node[admin.by]] = cred[admin.by]
  /\ admin.op # "none" /\ admin.stage = "retire" => \A n \in Target : agents[n] = None

(* Whom it waits for: sessions of the nodes concerned, one of each, still   *)
(* entitled.                                                                *)
WaitInv ==
  /\ \A s \in Sessions : Awaited(s) =>
       node[s] \in Target /\ Activated(s) /\ Entitled(s)
  /\ \A s, t \in Sessions : Awaited(s) /\ Awaited(t) /\ node[s] = node[t] => s = t

(* The state lock is a frame's exactly while the frame is handled, and the  *)
(* panel's while the operation holds it.                                    *)
LockInv ==
  /\ \A s \in Sessions : pc[s] \in Writing <=> locked[s] = "report"
  /\ \A s \in admin.held : locked[s] = "panel"

(* A served session that nobody retired, and one that handles a frame, is   *)
(* in the map or awaited.                                                   *)
ServedInv ==
  \A s \in Sessions :
    /\ pc[s] \in Serving /\ ~retired[s] => agents[node[s]] = s \/ s \in admin.todo
    /\ pc[s] \in Writing => agents[node[s]] = s \/ Awaited(s)

IInv == Shape /\ MapInv /\ OpInv /\ WaitInv /\ LockInv /\ ServedInv /\ ReportsStayEntitled

-----------------------------------------------------------------------------
(* The invariant gives the properties.                                      *)
LEMMA IInvGives ==
  IInv => TypeOK /\ ReportsStayEntitled /\ OneReporterPerNode /\ ServedMeansOnline
            /\ OnlineMeansEntitled
<1> SUFFICES ASSUME IInv
             PROVE  TypeOK /\ ReportsStayEntitled /\ OneReporterPerNode /\ ServedMeansOnline
                      /\ OnlineMeansEntitled
  OBVIOUS
<1>1. TypeOK
  BY DEF IInv, Shape, TypeOK
<1>2. OneReporterPerNode
  <2> SUFFICES ASSUME NEW s \in Sessions, NEW t \in Sessions, s # t, node[s] = node[t],
                      pc[s] \in Writing, pc[t] \in Writing
               PROVE  FALSE
    BY DEF OneReporterPerNode
  <2>1. (agents[node[s]] = s \/ Awaited(s)) /\ (agents[node[s]] = t \/ Awaited(t))
    BY DEF IInv, ServedInv
  <2>2. ASSUME NEW r \in Sessions, node[r] = node[s], Awaited(r)
        PROVE  agents[node[s]] = None
    <3>1. node[s] \in Target
      BY <2>2 DEF IInv, WaitInv
    <3>2. admin.op # "none" /\ admin.stage = "retire"
      BY <2>2, SessionAssumption DEF IInv, OpInv, Awaited, Shape, Stages
    <3> QED BY <3>1, <3>2 DEF IInv, OpInv
  <2>3. ~(Awaited(s) /\ Awaited(t))
    BY DEF IInv, WaitInv
  <2> QED BY <2>1, <2>2, <2>3, SessionAssumption
<1>3. ServedMeansOnline
  BY DEF IInv, ServedInv, OpInv, ServedMeansOnline
<1>4. OnlineMeansEntitled
  BY DEF IInv, MapInv, OnlineMeansEntitled
<1> QED BY <1>1, <1>2, <1>3, <1>4 DEF IInv

LEMMA InitIInv == Init => IInv
<1> SUFFICES ASSUME Init PROVE IInv
  OBVIOUS
<1> USE SessionAssumption DEF Init, NoOp
<1>1. Shape
  BY DEF Shape, Ops, Stages, SessionStates, Serving, Writing
<1>2. MapInv
  BY DEF MapInv
<1>3. OpInv
  BY DEF OpInv
<1>4. WaitInv
  BY DEF WaitInv, Awaited
<1>5. LockInv
  BY DEF LockInv, Writing
<1>6. ServedInv
  BY DEF ServedInv, Serving, Writing
<1>7. ReportsStayEntitled
  BY DEF ReportsStayEntitled
<1> QED BY <1>1, <1>2, <1>3, <1>4, <1>5, <1>6, <1>7 DEF IInv

-----------------------------------------------------------------------------
(* A step of one session alone, whichever way it goes.                      *)
Alone(s, to) ==
  /\ UNCHANGED <<database, hub, who>>
  /\ pc[s] # "activating"
  /\ pc' = [pc EXCEPT ![s] = to]
  /\ Activated(s) => to \notin {"new", "upgraded", "activating"}

LEMMA AloneKeeps ==
  ASSUME IInv, NEW s \in Sessions, NEW to \in SessionStates, Alone(s, to)
  PROVE  MapInv' /\ OpInv' /\ WaitInv'
<1>1. UNCHANGED <<token, issued, epoch, agents, admin, node, cred, basis, Target>>
  BY DEF Alone, database, hub, who, Target
<1>2. ASSUME NEW t \in Sessions
      PROVE  /\ Activated(t) => Activated(t)'
             /\ pc[t] = "activating" => pc'[t] = "activating"
             /\ Entitled(t)' <=> Entitled(t)
             /\ Awaited(t)' <=> Awaited(t)
  <2>1. pc'[t] = IF t = s THEN to ELSE pc[t]
    BY DEF Alone, IInv, Shape
  <2> QED BY <1>1, <2>1 DEF Alone, Activated, Entitled, Awaited
<1>3. MapInv'
  <2> SUFFICES ASSUME NEW n \in Nodes, agents[n] # None
               PROVE  node[agents[n]] = n /\ Activated(agents[n])' /\ Entitled(agents[n])'
    BY <1>1 DEF MapInv
  <2>1. PICK t \in Sessions : t = agents[n]
    BY DEF IInv, Shape
  <2>2. node[t] = n /\ Activated(t) /\ Entitled(t)
    BY <2>1 DEF IInv, MapInv
  <2>3. Activated(t)' /\ Entitled(t)' /\ agents'[n] = t
    BY <1>1, <1>2, <2>1, <2>2
  <2> QED BY <2>1, <2>2, <2>3
<1>4. OpInv'
  BY <1>1, <1>2 DEF IInv, OpInv
<1>5. WaitInv'
  BY <1>1, <1>2 DEF IInv, WaitInv
<1> QED BY <1>3, <1>4, <1>5
-----------------------------------------------------------------------------
(* The connection, up to activation, and the steps of a serve loop.         *)

(* Whoever handles a frame may write.                                       *)
LEMMA WriterEntitled ==
  ASSUME IInv, NEW s \in Sessions, pc[s] \in Writing
  PROVE  Entitled(s)
<1>1. agents[node[s]] = s \/ Awaited(s)
  BY DEF IInv, ServedInv
<1>2. ASSUME agents[node[s]] = s PROVE Entitled(s)
  BY <1>2, SessionAssumption DEF IInv, MapInv, Shape
<1>3. ASSUME Awaited(s) PROVE Entitled(s)
  BY <1>3 DEF IInv, WaitInv
<1> QED BY <1>1, <1>2, <1>3

LEMMA ActivateRefusedKeeps ==
  ASSUME IInv, NEW s \in Sessions, ActivateRefused(s)
  PROVE  IInv'
<1>1. PICK to \in {"ended"} : Alone(s, to)
  BY DEF ActivateRefused, Goto, Alone, Activated, Writing
<1>2. to \in SessionStates
  BY DEF SessionStates, Serving, Writing
<1>3. MapInv' /\ OpInv' /\ WaitInv'
  BY <1>1, <1>2, AloneKeeps
<1>4. Shape /\ LockInv /\ ServedInv /\ UNCHANGED <<admin, agents, node>>
  BY <1>1 DEF IInv, Alone, hub, who
<1>5. stray' = stray
  BY DEF ActivateRefused
<1>6. Shape'
  BY <1>1, <1>2, <1>4, <1>5 DEF ActivateRefused, Goto, Alone, database, hub, who, Shape
<1>7. LockInv'
  BY <1>1, <1>4 DEF ActivateRefused, Goto, Alone, LockInv, Shape, Writing
<1>8. ServedInv'
  BY <1>1, <1>4 DEF ActivateRefused, Goto, Alone, ServedInv, Shape, Serving, Writing, Awaited
<1>9. ReportsStayEntitled'
  BY <1>5 DEF IInv, ReportsStayEntitled
<1> QED BY <1>3, <1>6, <1>7, <1>8, <1>9 DEF IInv

LEMMA LookupKeeps ==
  ASSUME IInv, NEW s \in Sessions, Lookup(s)
  PROVE  IInv'
<1>1. PICK to \in {"cloned"} : Alone(s, to)
  BY DEF Lookup, Alone, Activated, Writing
<1>2. to \in SessionStates
  BY DEF SessionStates, Serving, Writing
<1>3. MapInv' /\ OpInv' /\ WaitInv'
  BY <1>1, <1>2, AloneKeeps
<1>4. Shape /\ LockInv /\ ServedInv /\ UNCHANGED <<admin, agents, node>>
  BY <1>1 DEF IInv, Alone, hub, who
<1>5. stray' = stray
  BY DEF Lookup
<1>6. Shape'
  BY <1>1, <1>2, <1>4, <1>5 DEF Lookup, Alone, database, hub, who, Shape
<1>7. LockInv'
  BY <1>1, <1>4 DEF Lookup, Alone, LockInv, Shape, Writing
<1>8. ServedInv'
  BY <1>1, <1>4 DEF Lookup, Alone, ServedInv, Shape, Serving, Writing, Awaited
<1>9. ReportsStayEntitled'
  BY <1>5 DEF IInv, ReportsStayEntitled
<1> QED BY <1>3, <1>6, <1>7, <1>8, <1>9 DEF IInv

LEMMA EnterKeeps ==
  ASSUME IInv, NEW s \in Sessions, Enter(s)
  PROVE  IInv'
<1>1. PICK to \in {"facts", "accumulate", "ping", "serving"} : Alone(s, to)
  BY DEF Enter, Goto, Alone, Activated, Writing
<1>2. to \in SessionStates
  BY DEF SessionStates, Serving, Writing
<1>3. MapInv' /\ OpInv' /\ WaitInv'
  BY <1>1, <1>2, AloneKeeps
<1>4. Shape /\ LockInv /\ ServedInv /\ UNCHANGED <<admin, agents, node>>
  BY <1>1 DEF IInv, Alone, hub, who
<1>5. stray' = stray
  BY DEF Enter
<1>6. Shape'
  BY <1>1, <1>2, <1>4, <1>5 DEF Enter, Goto, Alone, database, hub, who, Shape
<1>7. LockInv'
  BY <1>1, <1>4 DEF Enter, Goto, Alone, LockInv, Shape, Writing
<1>8. ServedInv'
  BY <1>1, <1>4 DEF Enter, Goto, Alone, ServedInv, Shape, Serving, Writing, Awaited
<1>9. ReportsStayEntitled'
  BY <1>5 DEF IInv, ReportsStayEntitled
<1> QED BY <1>3, <1>6, <1>7, <1>8, <1>9 DEF IInv

LEMMA AccumulateKeeps ==
  ASSUME IInv, NEW s \in Sessions, Accumulate(s)
  PROVE  IInv'
<1>1. PICK to \in {"metric", "touch", "serving"} : Alone(s, to)
  BY DEF Accumulate, Goto, Leave, Alone, Activated, Writing
<1>2. to \in SessionStates
  BY DEF SessionStates, Serving, Writing
<1>3. MapInv' /\ OpInv' /\ WaitInv'
  BY <1>1, <1>2, AloneKeeps
<1>4. Shape /\ LockInv /\ ServedInv /\ UNCHANGED <<admin, agents, node>>
  BY <1>1 DEF IInv, Alone, hub, who
<1>5. stray' = stray
  <2>1. pc[s] \in Writing
    BY DEF Accumulate, Goto, Leave, Writing
  <2> QED BY <2>1, WriterEntitled DEF Accumulate, Wrote
<1>6. Shape'
  BY <1>1, <1>2, <1>4, <1>5 DEF Accumulate, Goto, Leave, Alone, database, hub, who, Shape
<1>7. LockInv'
  BY <1>1, <1>4 DEF Accumulate, Goto, Leave, Alone, LockInv, Shape, Writing
<1>8. ServedInv'
  BY <1>1, <1>4 DEF Accumulate, Goto, Leave, Alone, ServedInv, Shape, Serving, Writing, Awaited
<1>9. ReportsStayEntitled'
  BY <1>5 DEF IInv, ReportsStayEntitled
<1> QED BY <1>3, <1>6, <1>7, <1>8, <1>9 DEF IInv

LEMMA InsertMetricKeeps ==
  ASSUME IInv, NEW s \in Sessions, InsertMetric(s)
  PROVE  IInv'
<1>1. PICK to \in {"touch", "serving"} : Alone(s, to)
  BY DEF InsertMetric, Goto, Leave, Alone, Activated, Writing
<1>2. to \in SessionStates
  BY DEF SessionStates, Serving, Writing
<1>3. MapInv' /\ OpInv' /\ WaitInv'
  BY <1>1, <1>2, AloneKeeps
<1>4. Shape /\ LockInv /\ ServedInv /\ UNCHANGED <<admin, agents, node>>
  BY <1>1 DEF IInv, Alone, hub, who
<1>5. stray' = stray
  <2>1. pc[s] \in Writing
    BY DEF InsertMetric, Goto, Leave, Writing
  <2> QED BY <2>1, WriterEntitled DEF InsertMetric, Wrote
<1>6. Shape'
  BY <1>1, <1>2, <1>4, <1>5 DEF InsertMetric, Goto, Leave, Alone, database, hub, who, Shape
<1>7. LockInv'
  BY <1>1, <1>4 DEF InsertMetric, Goto, Leave, Alone, LockInv, Shape, Writing
<1>8. ServedInv'
  BY <1>1, <1>4 DEF InsertMetric, Goto, Leave, Alone, ServedInv, Shape, Serving, Writing, Awaited
<1>9. ReportsStayEntitled'
  BY <1>5 DEF IInv, ReportsStayEntitled
<1> QED BY <1>3, <1>6, <1>7, <1>8, <1>9 DEF IInv

LEMMA LastWriteKeeps ==
  ASSUME IInv, NEW s \in Sessions, LastWrite(s)
  PROVE  IInv'
<1>1. PICK to \in {"serving", "locate"} : Alone(s, to)
  BY DEF LastWrite, Leave, Alone, Activated, Writing
<1>2. to \in SessionStates
  BY DEF SessionStates, Serving, Writing
<1>3. MapInv' /\ OpInv' /\ WaitInv'
  BY <1>1, <1>2, AloneKeeps
<1>4. Shape /\ LockInv /\ ServedInv /\ UNCHANGED <<admin, agents, node>>
  BY <1>1 DEF IInv, Alone, hub, who
<1>5. stray' = stray
  <2>1. pc[s] \in Writing
    BY DEF LastWrite, Leave, Writing
  <2> QED BY <2>1, WriterEntitled DEF LastWrite, Wrote
<1>6. Shape'
  BY <1>1, <1>2, <1>4, <1>5 DEF LastWrite, Leave, Alone, database, hub, who, Shape
<1>7. LockInv'
  BY <1>1, <1>4 DEF LastWrite, Leave, Alone, LockInv, Shape, Writing
<1>8. ServedInv'
  BY <1>1, <1>4 DEF LastWrite, Leave, Alone, ServedInv, Shape, Serving, Writing, Awaited
<1>9. ReportsStayEntitled'
  BY <1>5 DEF IInv, ReportsStayEntitled
<1> QED BY <1>3, <1>6, <1>7, <1>8, <1>9 DEF IInv

LEMMA LocateKeeps ==
  ASSUME IInv, NEW s \in Sessions, Locate(s)
  PROVE  IInv'
<1>1. PICK to \in {"serving"} : Alone(s, to)
  BY DEF Locate, Goto, Alone, Activated, Writing
<1>2. to \in SessionStates
  BY DEF SessionStates, Serving, Writing
<1>3. MapInv' /\ OpInv' /\ WaitInv'
  BY <1>1, <1>2, AloneKeeps
<1>4. Shape /\ LockInv /\ ServedInv /\ UNCHANGED <<admin, agents, node>>
  BY <1>1 DEF IInv, Alone, hub, who
<1>5. stray' = stray \/ stray' = stray \cup {<<s, "lookup">>}
  BY DEF Locate
<1>6. Shape'
  BY <1>1, <1>2, <1>4, <1>5 DEF Locate, Goto, Alone, database, hub, who, Shape
<1>7. LockInv'
  BY <1>1, <1>4 DEF Locate, Goto, Alone, LockInv, Shape, Writing
<1>8. ServedInv'
  BY <1>1, <1>4 DEF Locate, Goto, Alone, ServedInv, Shape, Serving, Writing, Awaited
<1>9. ReportsStayEntitled'
  <2> SUFFICES ASSUME NEW t \in Sessions PROVE <<t, "report">> \notin stray'
    BY DEF ReportsStayEntitled
  <2>1. <<t, "report">> \notin stray
    BY DEF IInv, ReportsStayEntitled
  <2>2. <<t, "report">> # <<s, "lookup">>
    OBVIOUS
  <2> QED BY <1>5, <2>1, <2>2
<1> QED BY <1>3, <1>6, <1>7, <1>8, <1>9 DEF IInv

LEMMA PeerClosesKeeps ==
  ASSUME IInv, NEW s \in Sessions, PeerCloses(s)
  PROVE  IInv'
<1>1. PICK to \in {"ending"} : Alone(s, to)
  BY DEF PeerCloses, Goto, Alone, Activated, Writing
<1>2. to \in SessionStates
  BY DEF SessionStates, Serving, Writing
<1>3. MapInv' /\ OpInv' /\ WaitInv'
  BY <1>1, <1>2, AloneKeeps
<1>4. Shape /\ LockInv /\ ServedInv /\ UNCHANGED <<admin, agents, node>>
  BY <1>1 DEF IInv, Alone, hub, who
<1>5. stray' = stray
  BY DEF PeerCloses
<1>6. Shape'
  BY <1>1, <1>2, <1>4, <1>5 DEF PeerCloses, Goto, Alone, database, hub, who, Shape
<1>7. LockInv'
  BY <1>1, <1>4 DEF PeerCloses, Goto, Alone, LockInv, Shape, Writing
<1>8. ServedInv'
  BY <1>1, <1>4 DEF PeerCloses, Goto, Alone, ServedInv, Shape, Serving, Writing, Awaited
<1>9. ReportsStayEntitled'
  BY <1>5 DEF IInv, ReportsStayEntitled
<1> QED BY <1>3, <1>6, <1>7, <1>8, <1>9 DEF IInv

LEMMA ChannelClosesKeeps ==
  ASSUME IInv, NEW s \in Sessions, ChannelCloses(s)
  PROVE  IInv'
<1>1. PICK to \in {"ending"} : Alone(s, to)
  BY DEF ChannelCloses, Goto, Alone, Activated, Writing
<1>2. to \in SessionStates
  BY DEF SessionStates, Serving, Writing
<1>3. MapInv' /\ OpInv' /\ WaitInv'
  BY <1>1, <1>2, AloneKeeps
<1>4. Shape /\ LockInv /\ ServedInv /\ UNCHANGED <<admin, agents, node>>
  BY <1>1 DEF IInv, Alone, hub, who
<1>5. stray' = stray
  BY DEF ChannelCloses
<1>6. Shape'
  BY <1>1, <1>2, <1>4, <1>5 DEF ChannelCloses, Goto, Alone, database, hub, who, Shape
<1>7. LockInv'
  BY <1>1, <1>4 DEF ChannelCloses, Goto, Alone, LockInv, Shape, Writing
<1>8. ServedInv'
  BY <1>1, <1>4 DEF ChannelCloses, Goto, Alone, ServedInv, Shape, Serving, Writing, Awaited
<1>9. ReportsStayEntitled'
  BY <1>5 DEF IInv, ReportsStayEntitled
<1> QED BY <1>3, <1>6, <1>7, <1>8, <1>9 DEF IInv

LEMMA SilenceKeeps ==
  ASSUME IInv, NEW s \in Sessions, Silence(s)
  PROVE  IInv'
<1>1. PICK to \in {"ending"} : Alone(s, to)
  BY DEF Silence, Goto, Alone, Activated, Writing
<1>2. to \in SessionStates
  BY DEF SessionStates, Serving, Writing
<1>3. MapInv' /\ OpInv' /\ WaitInv'
  BY <1>1, <1>2, AloneKeeps
<1>4. Shape /\ LockInv /\ ServedInv /\ UNCHANGED <<admin, agents, node>>
  BY <1>1 DEF IInv, Alone, hub, who
<1>5. stray' = stray
  BY DEF Silence
<1>6. Shape'
  BY <1>1, <1>2, <1>4, <1>5 DEF Silence, Goto, Alone, database, hub, who, Shape
<1>7. LockInv'
  BY <1>1, <1>4 DEF Silence, Goto, Alone, LockInv, Shape, Writing
<1>8. ServedInv'
  BY <1>1, <1>4 DEF Silence, Goto, Alone, ServedInv, Shape, Serving, Writing, Awaited
<1>9. ReportsStayEntitled'
  BY <1>5 DEF IInv, ReportsStayEntitled
<1> QED BY <1>3, <1>6, <1>7, <1>8, <1>9 DEF IInv

LEMMA SendFailsKeeps ==
  ASSUME IInv, NEW s \in Sessions, SendFails(s)
  PROVE  IInv'
<1>1. PICK to \in {"abandoned"} : Alone(s, to)
  BY DEF SendFails, Goto, Alone, Activated, Writing
<1>2. to \in SessionStates
  BY DEF SessionStates, Serving, Writing
<1>3. MapInv' /\ OpInv' /\ WaitInv'
  BY <1>1, <1>2, AloneKeeps
<1>4. Shape /\ LockInv /\ ServedInv /\ UNCHANGED <<admin, agents, node>>
  BY <1>1 DEF IInv, Alone, hub, who
<1>5. stray' = stray
  BY DEF SendFails
<1>6. Shape'
  BY <1>1, <1>2, <1>4, <1>5 DEF SendFails, Goto, Alone, database, hub, who, Shape
<1>7. LockInv'
  BY <1>1, <1>4 DEF SendFails, Goto, Alone, LockInv, Shape, Writing
<1>8. ServedInv'
  BY <1>1, <1>4 DEF SendFails, Goto, Alone, ServedInv, Shape, Serving, Writing, Awaited
<1>9. ReportsStayEntitled'
  BY <1>5 DEF IInv, ReportsStayEntitled
<1> QED BY <1>3, <1>6, <1>7, <1>8, <1>9 DEF IInv

LEMMA LinkDiesKeeps ==
  ASSUME IInv, NEW s \in Sessions, LinkDies(s)
  PROVE  IInv'
<1> USE DEF LinkDies, database, hub, who, IInv
<1>1. Shape'
  BY DEF Shape
<1>2. MapInv'
  BY DEF MapInv, Activated, Entitled
<1>3. OpInv' /\ WaitInv'
  BY DEF OpInv, WaitInv, Target, Awaited, Activated, Entitled
<1>4. LockInv' /\ ServedInv' /\ ReportsStayEntitled'
  BY DEF LockInv, ServedInv, Awaited, ReportsStayEntitled
<1> QED BY <1>1, <1>2, <1>3, <1>4

(* release: an entry leaves the map only with its session's loop.           *)
LEMMA ReleaseKeeps ==
  ASSUME IInv, NEW s \in Sessions, Release(s)
  PROVE  IInv'
<1>1. /\ UNCHANGED <<token, issued, epoch, admin, node, cred, basis, locked, link, stray, Target>>
      /\ pc[s] = "ending" /\ pc' = [pc EXCEPT ![s] = "ended"]
      /\ \A n \in Nodes : agents'[n] = agents[n] \/ agents'[n] = None
      /\ \A t \in Sessions : t # s => agents'[node[t]] = agents[node[t]] \/ agents[node[t]] = s
      /\ agents' \in [Nodes -> Sessions \cup {None}] /\ retired' \in [Sessions -> BOOLEAN]
      /\ \A t \in Sessions : t # s => retired'[t] = retired[t]
  BY DEF Release, Goto, database, who, Target, IInv, Shape
<1>2. ASSUME NEW t \in Sessions
      PROVE  /\ Activated(t) => Activated(t)'
             /\ pc[t] = "activating" => pc'[t] = "activating"
             /\ pc'[t] \in Serving => pc[t] \in Serving /\ t # s
             /\ pc'[t] \in Writing <=> pc[t] \in Writing
             /\ Entitled(t)' <=> Entitled(t)
             /\ Awaited(t)' <=> Awaited(t)
  <2>1. pc'[t] = IF t = s THEN "ended" ELSE pc[t]
    BY <1>1 DEF IInv, Shape
  <2> QED BY <1>1, <2>1 DEF Activated, Entitled, Awaited, Serving, Writing
<1>3. Shape'
  BY <1>1 DEF IInv, Shape, SessionStates
<1>4. MapInv'
  <2> SUFFICES ASSUME NEW n \in Nodes, agents'[n] # None
               PROVE  (node[agents[n]] = n /\ Activated(agents[n]) /\ Entitled(agents[n]))'
    BY DEF MapInv
  <2>1. PICK t \in Sessions : t = agents[n] /\ t = agents'[n]
    BY <1>1 DEF IInv, Shape
  <2>2. node[t] = n /\ Activated(t) /\ Entitled(t)
    BY <2>1, SessionAssumption DEF IInv, MapInv
  <2>3. node'[t] = n /\ Activated(t)' /\ Entitled(t)'
    BY <1>1, <1>2, <2>2
  <2> QED BY <2>1, <2>3
<1>5. OpInv'
  <2>1. \A n \in Nodes : agents[n] = None => agents'[n] = None
    BY <1>1
  <2>2. Target \subseteq Nodes \/ admin.op = "none"
    BY DEF IInv, Shape, OpInv, Target, Ops
  <2> QED BY <1>1, <1>2, <2>1, <2>2 DEF IInv, OpInv
<1>6. WaitInv'
  BY <1>1, <1>2 DEF IInv, WaitInv
<1>7. LockInv'
  BY <1>1, <1>2 DEF IInv, LockInv
<1>8. ServedInv'
  <2> SUFFICES ASSUME NEW t \in Sessions, pc'[t] \in Serving
               PROVE  /\ ~retired'[t] => agents'[node[t]] = t \/ t \in admin.todo
                      /\ pc'[t] \in Writing => agents'[node[t]] = t \/ Awaited(t)
    BY <1>1, <1>2 DEF ServedInv, Serving
  <2>1. t # s /\ pc[t] \in Serving /\ retired'[t] = retired[t]
    BY <1>1, <1>2
  <2>2. agents[node[t]] = t => agents'[node[t]] = t
    BY <1>1, <2>1
  <2> QED BY <1>2, <2>1, <2>2 DEF IInv, ServedInv
<1>9. ReportsStayEntitled'
  BY <1>1 DEF IInv, ReportsStayEntitled
<1> QED BY <1>3, <1>4, <1>5, <1>6, <1>7, <1>8, <1>9 DEF IInv

(* handler: the token is read by a connection that is not activated yet.    *)
LEMMA HandshakeKeeps ==
  ASSUME IInv, NEW s \in Sessions, Handshake(s)
  PROVE  IInv'
<1>1. /\ UNCHANGED <<token, issued, epoch, agents, admin, node, basis, retired, locked, link,
                     stray, Target>>
      /\ pc[s] = "new" /\ pc' = [pc EXCEPT ![s] = "upgraded"]
      /\ cred' = [cred EXCEPT ![s] = token[node[s]]]
  BY DEF Handshake, Goto, database, hub, Target
<1>2. ASSUME NEW t \in Sessions
      PROVE  /\ Activated(t) => t # s /\ Activated(t)'
             /\ pc[t] = "activating" => t # s /\ pc'[t] = "activating"
             /\ pc'[t] \in Serving <=> pc[t] \in Serving
             /\ pc'[t] \in Writing <=> pc[t] \in Writing
             /\ t # s => cred'[t] = cred[t] /\ (Entitled(t)' <=> Entitled(t))
             /\ Awaited(t)' <=> Awaited(t)
  <2>1. pc'[t] = IF t = s THEN "upgraded" ELSE pc[t]
    BY <1>1 DEF IInv, Shape
  <2>2. t # s => cred'[t] = cred[t]
    BY <1>1 DEF IInv, Shape
  <2> QED BY <1>1, <2>1, <2>2 DEF Activated, Entitled, Awaited, Serving, Writing
<1>3. Shape'
  BY <1>1 DEF IInv, Shape, SessionStates
<1>4. MapInv'
  <2> SUFFICES ASSUME NEW n \in Nodes, agents'[n] # None
               PROVE  (node[agents[n]] = n /\ Activated(agents[n]) /\ Entitled(agents[n]))'
    BY DEF MapInv
  <2>1. PICK t \in Sessions : t = agents[n] /\ t = agents'[n]
    BY <1>1 DEF IInv, Shape
  <2>2. node[t] = n /\ Activated(t) /\ Entitled(t)
    BY <2>1, SessionAssumption DEF IInv, MapInv
  <2>3. node'[t] = n /\ Activated(t)' /\ Entitled(t)'
    BY <1>1, <1>2, <2>2
  <2> QED BY <2>1, <2>3
<1>5. OpInv'
  BY <1>1, <1>2 DEF IInv, OpInv
<1>6. WaitInv'
  BY <1>1, <1>2 DEF IInv, WaitInv
<1>7. LockInv'
  BY <1>1, <1>2 DEF IInv, LockInv
<1>8. ServedInv'
  BY <1>1, <1>2 DEF IInv, ServedInv
<1>9. ReportsStayEntitled'
  BY <1>1 DEF IInv, ReportsStayEntitled
<1> QED BY <1>3, <1>4, <1>5, <1>6, <1>7, <1>8, <1>9 DEF IInv

-----------------------------------------------------------------------------
(* The operations under the admin mutex.                                    *)

(* A step that leaves the sessions where they are, the map, and who is      *)
(* entitled to what.                                                        *)
LEMMA SameMap ==
  ASSUME IInv, UNCHANGED <<token, epoch, agents, node, cred, basis>>,
         \A t \in Sessions : Activated(t) => Activated(t)'
  PROVE  MapInv'
<1> SUFFICES ASSUME NEW n \in Nodes, agents'[n] # None
             PROVE  (node[agents[n]] = n /\ Activated(agents[n]) /\ Entitled(agents[n]))'
  BY DEF MapInv
<1>1. PICK t \in Sessions : t = agents[n] /\ t = agents'[n]
  BY DEF IInv, Shape
<1>2. node[t] = n /\ Activated(t) /\ Entitled(t)
  BY <1>1, SessionAssumption DEF IInv, MapInv
<1>3. node'[t] = n /\ Activated(t)' /\ Entitled(t)'
  BY <1>2 DEF Entitled
<1> QED BY <1>1, <1>3

(* The mutex is taken for an operation that has done nothing yet.           *)
LEMMA ActivateBeginKeeps ==
  ASSUME IInv, NEW s \in Sessions, ActivateBegin(s)
  PROVE  IInv'
<1>1. /\ UNCHANGED <<token, issued, epoch, agents, node, cred, basis, retired, locked, link, stray>>
      /\ pc[s] = "upgraded" /\ pc' = [pc EXCEPT ![s] = "activating"]
      /\ admin.op = "none" /\ token[node[s]] = cred[s]
      /\ admin' = [op |-> "activate", by |-> s, stage |-> "take",
                   todo |-> {}, current |-> None, held |-> {}]
  BY DEF ActivateBegin, Goto, database, who, NoOp
<1>2. ASSUME NEW t \in Sessions
      PROVE  /\ Activated(t) => Activated(t)'
             /\ pc'[t] \in Serving <=> pc[t] \in Serving
             /\ pc'[t] \in Writing <=> pc[t] \in Writing
             /\ ~Awaited(t)' /\ ~Awaited(t)
  <2>1. pc'[t] = IF t = s THEN "activating" ELSE pc[t]
    BY <1>1 DEF IInv, Shape
  <2>2. ~Awaited(t)' /\ ~Awaited(t)
    BY <1>1, SessionAssumption DEF Awaited, IInv, OpInv
  <2> QED BY <1>1, <2>1, <2>2 DEF Activated, Serving, Writing
<1>3. Shape'
  BY <1>1 DEF IInv, Shape, SessionStates, Ops, Stages
<1>4. MapInv'
  BY <1>1, <1>2, SameMap
<1>5. OpInv'
  BY <1>1 DEF IInv, OpInv, Shape
<1>6. WaitInv'
  BY <1>2 DEF WaitInv
<1>7. LockInv'
  BY <1>1, <1>2 DEF IInv, LockInv
<1>8. ServedInv'
  BY <1>1, <1>2 DEF IInv, ServedInv, Awaited
<1>9. ReportsStayEntitled'
  BY <1>1 DEF IInv, ReportsStayEntitled
<1> QED BY <1>3, <1>4, <1>5, <1>6, <1>7, <1>8, <1>9 DEF IInv

LEMMA PanelKeeps ==
  ASSUME IInv, Panel
  PROVE  IInv'
<1>1. PICK op \in {"rotate", "delete", "restore"}, by \in Nodes \cup {None} :
        /\ PanelBegin(op, by)
        /\ op # "restore" => by \in Nodes
        /\ op = "rotate" => issued[by] < MaxToken
        /\ op = "restore" => epoch < MaxEpoch
  BY DEF Panel, Rotate, Delete, Restore
<1>2. /\ UNCHANGED <<token, issued, epoch, agents, pc, node, cred, basis, retired, locked, link, stray>>
      /\ admin.op = "none"
      /\ admin' = [op |-> op, by |-> by, stage |-> "take",
                   todo |-> {}, current |-> None, held |-> {}]
  BY <1>1 DEF PanelBegin, database, who, NoOp
<1>3. ASSUME NEW t \in Sessions
      PROVE  (Activated(t) => Activated(t)') /\ ~Awaited(t)' /\ ~Awaited(t)
  BY <1>2, SessionAssumption DEF Awaited, Activated, IInv, OpInv
<1>4. Shape'
  BY <1>2 DEF IInv, Shape, Ops, Stages
<1>5. MapInv'
  BY <1>2, <1>3, SameMap
<1>6. OpInv'
  BY <1>1, <1>2 DEF OpInv
<1>7. WaitInv'
  BY <1>3 DEF WaitInv
<1>8. LockInv'
  BY <1>2 DEF IInv, LockInv
<1>9. ServedInv'
  BY <1>2, <1>3 DEF IInv, ServedInv, Awaited
<1>10. ReportsStayEntitled'
  BY <1>2 DEF IInv, ReportsStayEntitled
<1> QED BY <1>4, <1>5, <1>6, <1>7, <1>8, <1>9, <1>10 DEF IInv

(* The nodes an operation concerns.                                         *)
LEMMA TargetNodes ==
  ASSUME IInv
  PROVE  Target \subseteq Nodes
BY DEF IInv, Shape, OpInv, Target, Ops

LEMMA TakeOutKeeps ==
  ASSUME IInv, TakeOut
  PROVE  IInv'
<1>1. /\ UNCHANGED <<token, issued, epoch, pc, node, cred, basis, retired, locked, link, stray>>
      /\ admin.op # "none" /\ admin.stage = "take"
      /\ admin'.op = admin.op /\ admin'.by = admin.by /\ admin'.stage = "retire"
      /\ admin'.todo = {agents[n] : n \in Target} \ {None}
      /\ admin'.current = admin.current /\ admin'.held = admin.held
      /\ agents' = [n \in Nodes |-> IF n \in Target THEN None ELSE agents[n]]
  BY DEF TakeOut, database, who, IInv, Shape
<1>2. Target' = Target
  BY <1>1 DEF Target
<1>3. admin.todo = {} /\ admin.current = None /\ admin.held = {}
  BY <1>1 DEF IInv, OpInv
<1>4. Target \subseteq Nodes
  BY TargetNodes
<1>5. ASSUME NEW t \in Sessions
      PROVE  /\ Activated(t)' <=> Activated(t)
             /\ Entitled(t)' <=> Entitled(t)
             /\ Awaited(t)' <=> node[t] \in Target /\ agents[node[t]] = t
             /\ t \in admin'.todo <=> node[t] \in Target /\ agents[node[t]] = t
             /\ agents[node[t]] = t /\ node[t] \notin Target => agents'[node[t]] = t
             /\ ~Awaited(t)
             /\ agents[node[t]] = t => Activated(t) /\ Entitled(t)
  <2>1. (Activated(t)' <=> Activated(t)) /\ (Entitled(t)' <=> Entitled(t))
    BY <1>1 DEF Activated, Entitled
  <2>2. t \in admin'.todo <=> node[t] \in Target /\ agents[node[t]] = t
    <3>1. ASSUME NEW n \in Target, agents[n] = t PROVE node[t] = n
      BY <1>4, <3>1, SessionAssumption DEF IInv, MapInv
    <3> QED BY <1>1, <3>1, SessionAssumption
  <2>3. t # None
    BY SessionAssumption
  <2>4. agents[node[t]] = t /\ node[t] \notin Target => agents'[node[t]] = t
    BY <1>1 DEF IInv, Shape
  <2>5. agents[node[t]] = t => Activated(t) /\ Entitled(t)
    BY <2>3 DEF IInv, MapInv, Shape
  <2> QED BY <1>1, <1>3, <2>1, <2>2, <2>3, <2>4, <2>5 DEF Awaited
<1>6. Shape'
  <2>1. {agents[n] : n \in Target} \ {None} \subseteq Sessions
    BY <1>4 DEF IInv, Shape
  <2>2. admin' \in [op : Ops, by : Sessions \cup Nodes \cup {None}, stage : Stages,
                    todo : SUBSET Sessions, current : Sessions \cup {None}, held : SUBSET Sessions]
    BY <2>1 DEF TakeOut, IInv, Shape, Stages
  <2>3. agents' \in [Nodes -> Sessions \cup {None}]
    BY <1>1 DEF IInv, Shape
  <2> QED BY <1>1, <2>2, <2>3 DEF IInv, Shape
<1>7. MapInv'
  <2> SUFFICES ASSUME NEW n \in Nodes, agents'[n] # None
               PROVE  (node[agents[n]] = n /\ Activated(agents[n]) /\ Entitled(agents[n]))'
    BY DEF MapInv
  <2>1. PICK t \in Sessions : t = agents[n] /\ t = agents'[n]
    BY <1>1 DEF IInv, Shape
  <2>2. node[t] = n
    BY <2>1, SessionAssumption DEF IInv, MapInv
  <2>3. node'[t] = n /\ Activated(t)' /\ Entitled(t)'
    BY <1>1, <1>5, <2>1, <2>2
  <2> QED BY <2>1, <2>3
<1>8. OpInv'
  <2>1. \A n \in Target : agents'[n] = None
    BY <1>1, <1>4
  <2> QED BY <1>1, <1>2, <1>3, <2>1 DEF IInv, OpInv
<1>9. WaitInv'
  BY <1>1, <1>2, <1>5 DEF WaitInv
<1>10. LockInv'
  BY <1>1, <1>3 DEF IInv, LockInv
<1>11. ServedInv'
  BY <1>1, <1>3, <1>5 DEF IInv, ServedInv
<1>12. ReportsStayEntitled'
  BY <1>1 DEF IInv, ReportsStayEntitled
<1> QED BY <1>6, <1>7, <1>8, <1>9, <1>10, <1>11, <1>12 DEF IInv

(* retire_and_lock: the mark moves a session from the ones to retire to the *)
(* one waited for, whose report may still be writing.                       *)
LEMMA MarkKeeps ==
  ASSUME IInv, NEW s \in Sessions, Mark(s)
  PROVE  IInv'
<1>1. /\ UNCHANGED <<token, issued, epoch, agents, pc, node, cred, basis, locked, link, stray>>
      /\ admin.current = None /\ s \in admin.todo
      /\ retired' = [retired EXCEPT ![s] = TRUE]
      /\ admin'.op = admin.op /\ admin'.by = admin.by /\ admin'.stage = admin.stage
      /\ admin'.todo = admin.todo \ {s}
      /\ admin'.current = s /\ admin'.held = admin.held
  BY DEF Mark, database, who, IInv, Shape
<1>2. Target' = Target
  BY <1>1 DEF Target
<1>3. admin.op # "none" /\ admin.stage # "take"
  BY <1>1 DEF IInv, OpInv
<1>4. ASSUME NEW t \in Sessions
      PROVE  /\ Activated(t)' <=> Activated(t)
             /\ Entitled(t)' <=> Entitled(t)
             /\ Awaited(t)' <=> Awaited(t)
             /\ t \in admin.todo /\ ~retired'[t] => t \in admin'.todo
             /\ ~retired'[t] => ~retired[t]
  <2>1. retired'[t] = IF t = s THEN TRUE ELSE retired[t]
    BY <1>1 DEF IInv, Shape
  <2>2. t # None
    BY SessionAssumption
  <2> QED BY <1>1, <2>1, <2>2 DEF Activated, Entitled, Awaited
<1>5. Shape'
  BY <1>1 DEF Mark, IInv, Shape
<1>6. MapInv'
  BY <1>1, <1>4, SameMap
<1>7. OpInv'
  BY <1>1, <1>2, <1>3 DEF IInv, OpInv
<1>8. WaitInv'
  BY <1>1, <1>2, <1>4 DEF IInv, WaitInv
<1>9. LockInv'
  BY <1>1 DEF IInv, LockInv
<1>10. ServedInv'
  BY <1>1, <1>4 DEF IInv, ServedInv
<1>11. ReportsStayEntitled'
  BY <1>1 DEF IInv, ReportsStayEntitled
<1> QED BY <1>5, <1>6, <1>7, <1>8, <1>9, <1>10, <1>11 DEF IInv

(* The lock is free only when no frame is being handled.                    *)
LEMMA LockStateKeeps ==
  ASSUME IInv, LockState
  PROVE  IInv'
<1> DEFINE c == admin.current
<1>1. /\ UNCHANGED <<token, issued, epoch, agents, pc, node, cred, basis, retired, link, stray>>
      /\ c # None /\ locked[c] = "free"
      /\ locked' = [locked EXCEPT ![c] = "panel"]
      /\ admin'.op = admin.op /\ admin'.by = admin.by /\ admin'.stage = admin.stage
      /\ admin'.todo = admin.todo
      /\ admin'.current = None /\ admin'.held = admin.held \cup {c}
  BY DEF LockState, database, who, IInv, Shape
<1>2. c \in Sessions /\ pc[c] \notin Writing
  BY <1>1 DEF IInv, Shape, LockInv
<1>3. Target' = Target
  BY <1>1 DEF Target
<1>4. admin.op # "none" /\ admin.stage # "take"
  BY <1>1 DEF IInv, OpInv
<1>5. ASSUME NEW t \in Sessions
      PROVE  /\ Activated(t)' <=> Activated(t)
             /\ Entitled(t)' <=> Entitled(t)
             /\ Awaited(t)' => Awaited(t)
             /\ Awaited(t) /\ t # c => Awaited(t)'
             /\ locked'[t] = IF t = c THEN "panel" ELSE locked[t]
  <2>1. t # None
    BY SessionAssumption
  <2>2. locked'[t] = IF t = c THEN "panel" ELSE locked[t]
    BY <1>1 DEF IInv, Shape
  <2> QED BY <1>1, <2>1, <2>2 DEF Activated, Entitled, Awaited
<1>6. Shape'
  BY <1>1, <1>2 DEF LockState, IInv, Shape
<1>7. MapInv'
  BY <1>1, <1>5, SameMap
<1>8. OpInv'
  BY <1>1, <1>3, <1>4 DEF IInv, OpInv
<1>9. WaitInv'
  BY <1>1, <1>3, <1>5 DEF IInv, WaitInv
<1>10. LockInv'
  <2>1. ASSUME NEW t \in Sessions PROVE pc'[t] \in Writing <=> locked'[t] = "report"
    BY <1>1, <1>2, <1>5 DEF IInv, LockInv
  <2>2. ASSUME NEW t \in admin'.held PROVE locked'[t] = "panel"
    BY <1>1, <1>2, <1>5 DEF IInv, LockInv, Shape
  <2> QED BY <2>1, <2>2 DEF LockInv
<1>11. ServedInv'
  BY <1>1, <1>2, <1>5 DEF IInv, ServedInv
<1>12. ReportsStayEntitled'
  BY <1>1 DEF IInv, ReportsStayEntitled
<1> QED BY <1>6, <1>7, <1>8, <1>9, <1>10, <1>11, <1>12 DEF IInv

(* The end of an operation leaves nobody awaited and no lock held.          *)
LEMMA DoneKeeps ==
  ASSUME IInv, AllRetired, Done
  PROVE  /\ admin' \in [op : Ops, by : Sessions \cup Nodes \cup {None}, stage : Stages,
                        todo : SUBSET Sessions, current : Sessions \cup {None},
                        held : SUBSET Sessions]
         /\ locked' \in [Sessions -> {"free", "report", "panel"}]
         /\ OpInv' /\ WaitInv'
         /\ \A t \in Sessions : ~Awaited(t)
         /\ \A t \in Sessions : locked'[t] = "report" <=> locked[t] = "report"
         /\ admin'.held = {} /\ admin'.todo = {}
<1>1. /\ admin'.op = "none" /\ admin'.stage = "take" /\ admin'.todo = {}
      /\ admin'.current = None /\ admin'.held = {}
      /\ locked' = [s \in Sessions |-> IF s \in admin.held THEN "free" ELSE locked[s]]
  BY DEF Done, NoOp
<1>2. admin' \in [op : Ops, by : Sessions \cup Nodes \cup {None}, stage : Stages,
                  todo : SUBSET Sessions, current : Sessions \cup {None}, held : SUBSET Sessions]
  BY DEF Done, NoOp, Ops, Stages
<1>3. locked' \in [Sessions -> {"free", "report", "panel"}]
  BY <1>1 DEF IInv, Shape
<1>4. OpInv'
  BY <1>1 DEF OpInv
<1>5. ASSUME NEW t \in Sessions PROVE ~Awaited(t) /\ ~Awaited(t)'
  BY <1>1, SessionAssumption DEF AllRetired, Awaited
<1>6. WaitInv'
  BY <1>5 DEF WaitInv
<1>7. ASSUME NEW t \in Sessions PROVE locked'[t] = "report" <=> locked[t] = "report"
  BY <1>1 DEF IInv, LockInv
<1> QED BY <1>1, <1>2, <1>3, <1>4, <1>5, <1>6, <1>7

(* activate: the map gets a session whose token was checked under the same  *)
(* mutex.                                                                   *)
LEMMA ActivateInsertKeeps ==
  ASSUME IInv, ActivateInsert
  PROVE  IInv'
<1>1. PICK b \in Sessions : b = admin.by
  BY DEF ActivateInsert, IInv, OpInv
<1>2. /\ UNCHANGED <<token, issued, epoch, node, cred, retired, link, stray>>
      /\ AllRetired /\ Done
      /\ agents' = [agents EXCEPT ![node[b]] = b]
      /\ basis' = [basis EXCEPT ![b] = epoch]
      /\ pc' = [pc EXCEPT ![b] = "serving"]
  BY <1>1 DEF ActivateInsert, database
<1>3. pc[b] = "activating" /\ token[node[b]] = cred[b]
      /\ node[b] \in Nodes /\ agents[node[b]] = None
  BY <1>1 DEF ActivateInsert, AllRetired, IInv, OpInv, Target, Shape
<1>4. ASSUME NEW t \in Sessions
      PROVE  /\ pc'[t] = IF t = b THEN "serving" ELSE pc[t]
             /\ basis'[t] = IF t = b THEN epoch ELSE basis[t]
             /\ Activated(t) => Activated(t)'
             /\ Entitled(t) => Entitled(t)'
             /\ agents[node[t]] = t => agents'[node[t]] = t
  <2>1. /\ pc'[t] = IF t = b THEN "serving" ELSE pc[t]
        /\ basis'[t] = IF t = b THEN epoch ELSE basis[t]
    BY <1>2 DEF IInv, Shape
  <2>2. agents[node[t]] = t => agents'[node[t]] = t
    BY <1>2, <1>3, SessionAssumption DEF IInv, Shape
  <2> QED BY <1>2, <2>1, <2>2 DEF Activated, Entitled
<1>5. Activated(b)' /\ Entitled(b)' /\ agents'[node[b]] = b
  <2>1. pc'[b] = "serving" /\ basis'[b] = epoch
    BY <1>4
  <2>2. agents'[node[b]] = b
    BY <1>2, <1>3 DEF IInv, Shape
  <2> QED BY <1>2, <1>3, <2>1, <2>2 DEF Activated, Entitled
<1>6. Shape'
  <2>1. agents' \in [Nodes -> Sessions \cup {None}] /\ basis' \in [Sessions -> 0..MaxEpoch]
        /\ pc' \in [Sessions -> SessionStates]
    BY <1>2 DEF IInv, Shape, SessionStates, Serving
  <2> QED BY <1>2, <2>1, DoneKeeps DEF IInv, Shape
<1>7. MapInv'
  <2> SUFFICES ASSUME NEW n \in Nodes, agents'[n] # None
               PROVE  (node[agents[n]] = n /\ Activated(agents[n]) /\ Entitled(agents[n]))'
    BY DEF MapInv
  <2>1. CASE n = node[b]
    <3>1. agents'[n] = b /\ node'[b] = n
      BY <1>2, <1>5, <2>1
    <3> QED BY <1>5, <3>1
  <2>2. CASE n # node[b]
    <3>1. PICK t \in Sessions : t = agents[n] /\ t = agents'[n]
      BY <1>2, <2>2 DEF IInv, Shape
    <3>2. node[t] = n /\ Activated(t) /\ Entitled(t)
      BY <3>1, SessionAssumption DEF IInv, MapInv
    <3>3. node'[t] = n /\ Activated(t)' /\ Entitled(t)'
      BY <1>2, <1>4, <3>2
    <3> QED BY <3>1, <3>3
  <2> QED BY <2>1, <2>2
<1>8. LockInv'
  <2>1. ASSUME NEW t \in Sessions PROVE pc'[t] \in Writing <=> pc[t] \in Writing
    BY <1>3, <1>4 DEF Writing
  <2> QED BY <1>2, <2>1, DoneKeeps DEF IInv, LockInv
<1>9. ServedInv'
  <2> SUFFICES ASSUME NEW t \in Sessions,
                      (pc'[t] \in Serving /\ ~retired'[t]) \/ pc'[t] \in Writing
               PROVE  agents'[node'[t]] = t
    BY DEF ServedInv
  <2>1. CASE t = b
    BY <1>2, <1>5, <2>1
  <2>2. CASE t # b
    <3>1. agents[node[t]] = t \/ Awaited(t)
      BY <1>2, <1>4, <2>2 DEF IInv, ServedInv, Awaited
    <3>2. ~Awaited(t)
      BY <1>2, DoneKeeps
    <3> QED BY <1>2, <1>4, <3>1, <3>2
  <2> QED BY <2>1, <2>2
<1>10. ReportsStayEntitled'
  BY <1>2 DEF IInv, ReportsStayEntitled
<1>11. OpInv' /\ WaitInv'
  BY <1>2, DoneKeeps
<1> QED BY <1>6, <1>7, <1>8, <1>9, <1>10, <1>11 DEF IInv

(* The database changes for the nodes taken out of the map, and for no      *)
(* other.                                                                   *)
LEMMA PanelRunKeeps ==
  ASSUME IInv, PanelRun
  PROVE  IInv'
<1>1. /\ UNCHANGED <<agents, pc, node, cred, basis, retired, link, stray>>
      /\ AllRetired /\ Done
      /\ admin.op \in {"rotate", "delete", "restore"}
  BY DEF PanelRun, who
<1>2. \A n \in Target : agents[n] = None
  BY <1>1 DEF AllRetired, IInv, OpInv
<1>3. /\ token' \in [Nodes -> 0..MaxToken] /\ issued' \in [Nodes -> 1..MaxToken]
      /\ epoch' \in 1..MaxEpoch
      /\ \A n \in Nodes : n \notin Target => token'[n] = token[n] /\ epoch' = epoch
  <2>1. CASE admin.op = "rotate" /\ issued' = [issued EXCEPT ![admin.by] = issued[admin.by] + 1]
             /\ token' = [token EXCEPT ![admin.by] =
                            IF token[admin.by] = 0 THEN 0 ELSE issued[admin.by] + 1]
             /\ epoch' = epoch
    <3>1. admin.by \in Nodes /\ issued[admin.by] \in Nat /\ issued[admin.by] + 1 \in 1..MaxToken
          /\ Target = {admin.by}
      BY <2>1, SessionAssumption DEF IInv, OpInv, Shape, Target
    <3>2. issued[admin.by] + 1 \in 0..MaxToken /\ 0 \in 0..MaxToken
      BY <3>1, SessionAssumption
    <3> QED BY <2>1, <3>1, <3>2 DEF IInv, Shape
  <2>2. CASE admin.op = "delete" /\ token' = [token EXCEPT ![admin.by] = 0]
             /\ UNCHANGED <<issued, epoch>>
    <3>1. Target = {admin.by} /\ 0 \in 0..MaxToken
      BY <2>2, SessionAssumption DEF Target
    <3> QED BY <2>2, <3>1 DEF IInv, Shape
  <2>3. CASE admin.op = "restore" /\ token' \in [Nodes -> 0..MaxToken]
             /\ epoch' = epoch + 1 /\ UNCHANGED issued
    <3>1. Target = Nodes
      BY <2>3 DEF Target
    <3>2. epoch + 1 \in 1..MaxEpoch
      BY <2>3, SessionAssumption DEF IInv, Shape, OpInv
    <3> QED BY <2>3, <3>1, <3>2 DEF IInv, Shape
  <2>4. CASE UNCHANGED database
    BY <2>4 DEF database, IInv, Shape
  <2> QED BY <2>1, <2>2, <2>3, <2>4 DEF PanelRun
<1>4. Shape'
  BY <1>1, <1>3, DoneKeeps DEF IInv, Shape
<1>5. MapInv'
  <2> SUFFICES ASSUME NEW n \in Nodes, agents'[n] # None
               PROVE  (node[agents[n]] = n /\ Activated(agents[n]) /\ Entitled(agents[n]))'
    BY DEF MapInv
  <2>1. PICK t \in Sessions : t = agents[n] /\ t = agents'[n]
    BY <1>1 DEF IInv, Shape
  <2>2. node[t] = n /\ Activated(t) /\ Entitled(t)
    BY <2>1, SessionAssumption DEF IInv, MapInv
  <2>3. n \notin Target
    BY <1>2, <2>1, SessionAssumption
  <2>4. node'[t] = n /\ Activated(t)' /\ Entitled(t)'
    BY <1>1, <1>3, <2>2, <2>3 DEF Activated, Entitled
  <2> QED BY <2>1, <2>4
<1>6. LockInv'
  BY <1>1, DoneKeeps DEF IInv, LockInv
<1>7. ServedInv'
  <2> SUFFICES ASSUME NEW t \in Sessions,
                      (pc'[t] \in Serving /\ ~retired'[t]) \/ pc'[t] \in Writing
               PROVE  agents'[node'[t]] = t
    BY DEF ServedInv
  <2>1. agents[node[t]] = t \/ Awaited(t)
    BY <1>1 DEF IInv, ServedInv, Awaited
  <2>2. ~Awaited(t)
    BY <1>1, DoneKeeps
  <2> QED BY <1>1, <2>1, <2>2
<1>8. ReportsStayEntitled'
  BY <1>1 DEF IInv, ReportsStayEntitled
<1>9. OpInv' /\ WaitInv'
  BY <1>1, DoneKeeps
<1> QED BY <1>4, <1>5, <1>6, <1>7, <1>8, <1>9 DEF IInv

-----------------------------------------------------------------------------
(* Every step keeps the invariant.                                          *)
LEMMA NextKeepsIInv == IInv /\ [Next]_vars => IInv'
<1> SUFFICES ASSUME IInv, [Next]_vars PROVE IInv'
  OBVIOUS
<1>1. CASE UNCHANGED vars
  <2> USE <1>1 DEF vars, database, hub, who, IInv
  <2>1. Shape'
    BY DEF Shape
  <2>2. MapInv'
    BY DEF MapInv, Activated, Entitled
  <2>3. OpInv' /\ WaitInv'
    BY DEF OpInv, WaitInv, Target, Awaited, Activated, Entitled
  <2>4. LockInv' /\ ServedInv' /\ ReportsStayEntitled'
    BY DEF LockInv, ServedInv, Awaited, ReportsStayEntitled
  <2> QED BY <2>1, <2>2, <2>3, <2>4
<1>2. ASSUME NEW s \in Sessions,
             Connect(s) \/ Lookup(s) \/ Report(s) \/ LinkDies(s) \/ End(s)
      PROVE  IInv'
  <2>1. CASE Connect(s)
    BY <2>1, HandshakeKeeps, ActivateBeginKeeps, ActivateRefusedKeeps DEF Connect
  <2>2. CASE Report(s)
    BY <2>2, EnterKeeps, AccumulateKeeps, InsertMetricKeeps, LastWriteKeeps, LocateKeeps
       DEF Report
  <2>3. CASE End(s)
    BY <2>3, PeerClosesKeeps, ChannelClosesKeeps, SilenceKeeps, SendFailsKeeps, ReleaseKeeps
       DEF End
  <2> QED BY <1>2, <2>1, <2>2, <2>3, LookupKeeps, LinkDiesKeeps
<1>3. CASE Retire
  BY <1>3, TakeOutKeeps, MarkKeeps, LockStateKeeps, ActivateInsertKeeps, PanelRunKeeps DEF Retire
<1>4. CASE Panel
  BY <1>4, PanelKeeps
<1> QED BY <1>1, <1>2, <1>3, <1>4 DEF Next, Finished

LEMMA Invariance == Spec => []IInv
<1>1. Init => IInv
  BY InitIInv
<1>2. IInv /\ [Next]_vars => IInv'
  BY NextKeepsIInv
<1> QED BY <1>1, <1>2, PTL DEF Spec

(* No report outlives its session's title: what dispatch writes for a       *)
(* hello, a report or a probe result, it writes under the node's token and  *)
(* into the database the session was activated on, whatever rotation,       *)
(* deletion, restore or reconnect runs beside it (retire_node_then,         *)
(* retire_all_then, lock_state).                                            *)
THEOREM ReportsNeverStray == Spec => []ReportsStayEntitled
<1>1. IInv => ReportsStayEntitled
  BY IInvGives
<1> QED BY <1>1, Invariance, PTL

(* Two sessions of a node never handle frames at the same time: activate    *)
(* waits out the frame of the session it replaces.                          *)
THEOREM OneReporter == Spec => []OneReporterPerNode
<1>1. IInv => OneReporterPerNode
  BY IInvGives
<1> QED BY <1>1, Invariance, PTL

(* A served session nobody retired is the one in the map, so a late         *)
(* release never takes a reconnected node offline.                          *)
THEOREM ServedIsOnline == Spec => []ServedMeansOnline
<1>1. IInv => ServedMeansOnline
  BY IInvGives
<1> QED BY <1>1, Invariance, PTL

(* With no operation under way, the session of an online node holds the     *)
(* node's token on the database in service: activate's second check is      *)
(* enough, although the handshake checked long before.                      *)
THEOREM OnlineIsEntitled == Spec => []OnlineMeansEntitled
<1>1. IInv => OnlineMeansEntitled
  BY IInvGives
<1> QED BY <1>1, Invariance, PTL
=============================================================================
