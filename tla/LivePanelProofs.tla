--------------------------- MODULE LivePanelProofs ---------------------------
(***************************************************************************)
(* The effect of useNodes, for any number of events, failures and requests *)
(* in flight: its timers and its socket are never doubled or left behind,  *)
(* it never stops trying of its own accord, and a panel that was stopped   *)
(* asks for a sign-in.                                                     *)
(*                                                                         *)
(* None of the three is inductive alone.  A reconnect replaces no socket   *)
(* because a reconnect is armed only where the socket is gone (OneOfEach), *)
(* and it may fail to make one because the poll is armed beside it         *)
(* (KeepsTrying).  A frame cannot undo the sign-in notice of a stopped     *)
(* panel because only the current run has a socket, and none once it is    *)
(* closed (RunOK).                                                         *)
(***************************************************************************)
EXTENDS LivePanel, TLAPS

Creds == Nat \cup {None}
Socks == [st : {"none", "connecting", "open", "ended"}, cred : Creds, frame : {"", "full", "public"}]
Posts == [st : {"idle", "login", "change", "dropped", "loggedIn", "changed"}, tok : Creds]

Shape ==
  /\ events \in Nat /\ events <= MaxEvents
  /\ gen \in Gens
  /\ closed \in [Gens -> BOOLEAN]
  /\ sock \in [Gens -> Socks]
  /\ poll \in [Gens -> Nat] /\ retry \in [Gens -> Nat]
  /\ post \in Posts /\ cookie \in Creds /\ issued \in Nat

(* A run of the effect is paid for by an event: a refresh by its own, the   *)
(* one after a sign-in by the submission of the form.                       *)
Owed == IF post.st \in {"login", "loggedIn"} THEN 1 ELSE 0
Budget == gen + Owed <= events + 1

(* Of one run of the effect: unless it is the current one it was cleaned up, *)
(* a socket that is gone has nothing left of it, no timer is doubled or     *)
(* left behind, and a run that is not closed has a way to go on.            *)
RunOK(g) ==
  /\ g # gen => closed[g]
  /\ sock[g].st = "none" => sock[g] = Dead
  /\ poll[g] <= 1 /\ retry[g] <= 1
  /\ retry[g] > 0 => sock[g] = Dead
  /\ closed[g] => poll[g] = 0 /\ retry[g] = 0 /\ sock[g] = Dead
  /\ ~closed[g] => \/ sock[g].st # "none"
                   \/ poll[g] > 0 /\ (blocked \/ retry[g] > 0)

Effects == \A g \in Gens : RunOK(g)

IInv == Shape /\ Budget /\ Effects /\ StoppedAsksSignIn

-----------------------------------------------------------------------------
(* Sockets.                                                                 *)

LEMMA Runs == Gens \subseteq Nat /\ 1 \in Gens /\ \A n \in Nat : n <= MaxEvents /\ n >= 1 => n + 1 \in Gens
BY PanelAssumption DEF Gens

LEMMA DeadIsGone == Dead \in Socks /\ Dead.st = "none" /\ Dead.frame = ""
BY DEF Dead, Socks, Creds

LEMMA Connecting ==
  ASSUME NEW c \in Creds
  PROVE  /\ Connect(c) \in Socks
         /\ blocked => Connect(c) = Dead
         /\ ~blocked => Connect(c).st = "connecting"
BY DeadIsGone DEF Connect, Socks

(* A step that leaves the effect and what the page shows of it alone.       *)
LEMMA Aside ==
  ASSUME IInv, Shape', Budget',
         UNCHANGED <<effect, tab, admin, late>>
  PROVE  IInv'
BY DEF IInv, Effects, RunOK, StoppedAsksSignIn, effect, tab

LEMMA InitIInv == Init => IInv
<1> SUFFICES ASSUME Init PROVE IInv
  OBVIOUS
<1>1. cookie \in Creds /\ blocked \in BOOLEAN
  BY DEF Init, Creds
<1>2. Connect(cookie) \in Socks /\ Dead \in Socks
  BY <1>1, Connecting, DeadIsGone
<1>3. Shape
  BY <1>1, <1>2, Runs, PanelAssumption DEF Shape, Init, Fallback, Posts, Idle, Creds
<1>4. Budget
  BY DEF Budget, Owed, Init, Idle
<1>5. ASSUME NEW g \in Gens PROVE RunOK(g)
  <2>1. closed[g] <=> g # gen
    BY DEF Init
  <2>2. retry[g] = 0 /\ poll[g] = (IF g = 1 THEN Fallback ELSE 0)
    BY DEF Init
  <2>3. sock[g] = IF g = 1 THEN Connect(cookie) ELSE Dead
    BY DEF Init
  <2>4. gen = 1
    BY DEF Init
  <2>5. CASE g = 1
    <3>1. ~closed[g] /\ g = gen
      BY <2>1, <2>4, <2>5
    <3>2. retry[g] = 0 /\ poll[g] = Fallback /\ sock[g] = Connect(cookie)
      BY <2>2, <2>3, <2>5
    <3>3. CASE blocked
      <4>1. poll[g] = 1 /\ retry[g] = 0 /\ sock[g] = Dead
        BY <1>1, <3>2, <3>3, Connecting DEF Fallback
      <4> QED BY <3>1, <3>3, <4>1 DEF RunOK
    <3>4. CASE ~blocked
      <4>1. poll[g] = 0 /\ retry[g] = 0 /\ sock[g].st = "connecting"
        BY <1>1, <3>2, <3>4, Connecting DEF Fallback
      <4> QED BY <3>1, <4>1 DEF RunOK
    <3> QED BY <3>3, <3>4
  <2>6. CASE g # 1
    <3>1. closed[g]
      BY <2>1, <2>4, <2>6
    <3>2. poll[g] = 0 /\ retry[g] = 0 /\ sock[g] = Dead
      BY <2>2, <2>3, <2>6
    <3>3. poll[g] <= 1 /\ retry[g] <= 1 /\ ~ (retry[g] > 0)
      BY <3>2
    <3>4. RunOK(g)
      BY <3>1, <3>2, <3>3 DEF RunOK
    <3> QED BY <3>4
  <2> QED BY <2>5, <2>6
<1>6. StoppedAsksSignIn
  BY Runs DEF Init, StoppedAsksSignIn
<1> QED BY <1>3, <1>4, <1>5, <1>6 DEF IInv, Effects

LEMMA IInvGives == IInv => OneOfEach /\ KeepsTrying /\ StoppedAsksSignIn
BY DEF IInv, Shape, Effects, RunOK, OneOfEach, KeepsTrying

-----------------------------------------------------------------------------
(* What a step may do to the runs of the effect.                            *)

(* Some sockets that were there are in another state.                       *)
LEMMA SocksMove ==
  ASSUME IInv, UNCHANGED <<gen, closed, poll, retry, blocked>>,
         \A g \in Gens : sock'[g] = sock[g] \/ (sock[g].st # "none" /\ sock'[g].st # "none")
  PROVE  Effects'
<1> SUFFICES ASSUME NEW g \in Gens PROVE RunOK(g)'
  BY DEF Effects
<1>1. RunOK(g)
  BY DEF IInv, Effects
<1>2. CASE sock'[g] = sock[g]
  BY <1>1, <1>2 DEF RunOK
<1>3. CASE sock[g].st # "none" /\ sock'[g].st # "none"
  <2>1. sock[g] # Dead
    BY <1>3, DeadIsGone
  <2>2. retry[g] <= 1 /\ poll[g] <= 1 /\ ~(retry[g] > 0) /\ ~closed[g] /\ g = gen
    BY <1>1, <2>1 DEF RunOK
  <2> QED BY <1>3, <2>2 DEF RunOK
<1> QED BY <1>2, <1>3

(* Only the run h is touched.                                               *)
LEMMA OneRun ==
  ASSUME IInv, NEW h \in Gens, UNCHANGED <<gen, blocked>>, RunOK(h)',
         \A g \in Gens \ {h} : /\ closed'[g] = closed[g] /\ sock'[g] = sock[g]
                              /\ poll'[g] = poll[g] /\ retry'[g] = retry[g]
  PROVE  Effects'
<1> SUFFICES ASSUME NEW g \in Gens \ {h} PROVE RunOK(g)'
  BY DEF Effects
<1>1. RunOK(g)
  BY DEF IInv, Effects
<1> QED BY <1>1 DEF RunOK

(* A run with a socket that is there is the current one, and not closed.    *)
LEMMA SockIsCurrent ==
  ASSUME IInv, NEW g \in Gens, sock[g].st # "none"
  PROVE  g = gen /\ ~closed[g] /\ retry[g] = 0
<1>1. RunOK(g) /\ retry[g] \in Nat
  BY DEF IInv, Effects, Shape
<1>2. sock[g] # Dead
  BY DeadIsGone
<1> QED BY <1>1, <1>2 DEF RunOK

(* stop: whatever the run was, it is closed with nothing left.              *)
LEMMA Stopping ==
  ASSUME IInv, NEW h, Stop(h), UNCHANGED <<gen, blocked>>
  PROVE  /\ Effects'
         /\ closed' \in [Gens -> BOOLEAN] /\ sock' \in [Gens -> Socks]
         /\ poll' \in [Gens -> Nat] /\ retry' \in [Gens -> Nat]
<1>1. /\ closed' \in [Gens -> BOOLEAN] /\ sock' \in [Gens -> Socks]
      /\ poll' \in [Gens -> Nat] /\ retry' \in [Gens -> Nat]
  BY DeadIsGone DEF IInv, Shape, Stop
<1>2. ASSUME NEW g \in Gens PROVE RunOK(g)'
  <2>1. RunOK(g)
    BY DEF IInv, Effects
  <2>2. CASE g = h
    <3>1. closed'[g] /\ sock'[g] = Dead /\ poll'[g] = 0 /\ retry'[g] = 0
      BY <2>2 DEF Stop, IInv, Shape
    <3> QED BY <3>1 DEF RunOK
  <2>3. CASE g # h
    <3>1. closed'[g] = closed[g] /\ sock'[g] = sock[g] /\ poll'[g] = poll[g] /\ retry'[g] = retry[g]
      BY <2>3 DEF Stop, IInv, Shape
    <3> QED BY <2>1, <3>1 DEF RunOK
  <2> QED BY <2>2, <2>3
<1> QED BY <1>1, <1>2 DEF Effects

(* The current run is cleaned up and the next one begins.                   *)
LEMMA Rerunning ==
  ASSUME IInv, NEW cs, NEW c \in Creds, Rerun(cs, c), gen + 1 \in Gens, UNCHANGED <<tab, admin>>
  PROVE  /\ Effects' /\ StoppedAsksSignIn'
         /\ gen' = gen + 1
         /\ closed' \in [Gens -> BOOLEAN] /\ sock' \in [Gens -> Socks]
         /\ poll' \in [Gens -> Nat] /\ retry' \in [Gens -> Nat]
<1> USE Runs
<1>1. gen \in Gens /\ gen \in Nat /\ gen # gen + 1 /\ blocked' = blocked /\ gen' = gen + 1
  BY DEF IInv, Shape, Rerun, tab
<1>2. /\ closed' \in [Gens -> BOOLEAN] /\ sock' \in [Gens -> Socks]
      /\ poll' \in [Gens -> Nat] /\ retry' \in [Gens -> Nat]
  BY DeadIsGone, Connecting DEF IInv, Shape, Rerun, Fallback
<1>3. PICK n \in Gens : n = gen + 1
  OBVIOUS
<1>4. ~closed'[n] /\ sock'[n] = Connect(c) /\ poll'[n] = Fallback /\ retry'[n] = 0
  <2>1. ~closed'[n] /\ sock'[n] = Connect(c) /\ poll'[n] = Fallback /\ retry'[n] = retry[n]
    BY <1>1, <1>3 DEF IInv, Shape, Rerun
  <2>2. retry[n] = 0
    BY <1>1, <1>3 DEF IInv, Effects, RunOK
  <2> QED BY <2>1, <2>2
<1>5. RunOK(n)'
  <2>1. CASE blocked
    <3>1. poll'[n] = 1 /\ sock'[n] = Dead
      BY <1>4, <2>1, Connecting DEF Fallback
    <3> QED BY <1>1, <1>3, <1>4, <2>1, <3>1 DEF RunOK
  <2>2. CASE ~blocked
    <3>1. poll'[n] = 0 /\ sock'[n].st = "connecting"
      BY <1>4, <2>2, Connecting DEF Fallback
    <3> QED BY <1>1, <1>3, <1>4, <3>1 DEF RunOK
  <2> QED BY <2>1, <2>2
<1>6. ASSUME NEW g \in Gens, g # n PROVE RunOK(g)'
  <2>1. closed'[g] /\ sock'[g] = Dead /\ poll'[g] = 0 /\ retry'[g] = 0
    <3>1. CASE g = gen
      BY <1>1, <1>3, <3>1 DEF IInv, Shape, Rerun
    <3>2. CASE g # gen
      <4>1. closed[g] /\ sock[g] = Dead /\ poll[g] = 0 /\ retry[g] = 0
        BY <3>2 DEF IInv, Effects, RunOK
      <4>2. closed'[g] = closed[g] /\ sock'[g] = sock[g] /\ poll'[g] = poll[g] /\ retry'[g] = retry[g]
        BY <1>3, <1>6, <3>2 DEF IInv, Shape, Rerun
      <4> QED BY <4>1, <4>2
    <3> QED BY <3>1, <3>2
  <2> QED BY <2>1 DEF RunOK
<1>7. Effects'
  BY <1>5, <1>6 DEF Effects
<1>8. StoppedAsksSignIn'
  BY <1>1, <1>3, <1>4 DEF StoppedAsksSignIn
<1> QED BY <1>1, <1>2, <1>7, <1>8

(* The page is loaded afresh.                                               *)
LEMMA Loading ==
  ASSUME IInv, NEW c \in Creds, Load(c), UNCHANGED tab
  PROVE  /\ Effects' /\ StoppedAsksSignIn'
         /\ gen' = 1
         /\ closed' \in [Gens -> BOOLEAN] /\ sock' \in [Gens -> Socks]
         /\ poll' \in [Gens -> Nat] /\ retry' \in [Gens -> Nat]
<1> USE Runs
<1>1. gen' = 1 /\ blocked' = blocked
  BY DEF Load, tab
<1>2. /\ closed' \in [Gens -> BOOLEAN] /\ sock' \in [Gens -> Socks]
      /\ poll' \in [Gens -> Nat] /\ retry' \in [Gens -> Nat]
  BY DeadIsGone, Connecting DEF Load, Fallback
<1>3. ~closed'[1] /\ sock'[1] = Connect(c) /\ poll'[1] = Fallback /\ retry'[1] = 0
  BY DEF Load
<1>4. RunOK(1)'
  <2>1. CASE blocked
    <3>1. poll'[1] = 1 /\ sock'[1] = Dead
      BY <1>3, <2>1, Connecting DEF Fallback
    <3> QED BY <1>1, <1>3, <2>1, <3>1 DEF RunOK
  <2>2. CASE ~blocked
    <3>1. poll'[1] = 0 /\ sock'[1].st = "connecting"
      BY <1>3, <2>2, Connecting DEF Fallback
    <3> QED BY <1>1, <1>3, <3>1 DEF RunOK
  <2> QED BY <2>1, <2>2
<1>5. ASSUME NEW g \in Gens, g # 1 PROVE RunOK(g)'
  <2>1. closed'[g] /\ sock'[g] = Dead /\ poll'[g] = 0 /\ retry'[g] = 0
    BY <1>5 DEF Load
  <2> QED BY <2>1 DEF RunOK
<1>6. StoppedAsksSignIn'
  BY <1>1, <1>3 DEF StoppedAsksSignIn
<1> QED BY <1>1, <1>2, <1>4, <1>5, <1>6 DEF Effects

-----------------------------------------------------------------------------
(* The steps.                                                               *)

(* The rest of Shape, and Budget, where they are left alone.                *)
LEMMA Kept ==
  ASSUME IInv, UNCHANGED <<gen, post, events, cookie, issued>>,
         closed' \in [Gens -> BOOLEAN], sock' \in [Gens -> Socks],
         poll' \in [Gens -> Nat], retry' \in [Gens -> Nat]
  PROVE  Shape' /\ Budget'
BY DEF IInv, Shape, Budget, Owed

(* An event that begins no run leaves the budget at least as large.         *)
LEMMA BudgetKept ==
  ASSUME Budget, gen \in Nat, events \in Nat, events' \in Nat, events <= events', gen' = gen,
         post'.st \in {"login", "loggedIn"} => post.st \in {"login", "loggedIn"}
  PROVE  Budget'
<1>0. \A g, e, f \in Nat : e <= f =>
        /\ g + 1 <= e + 1 => g + 1 <= f + 1 /\ g + 0 <= f + 1
        /\ g + 0 <= e + 1 => g + 0 <= f + 1
  OBVIOUS
<1>1. CASE post.st \in {"login", "loggedIn"}
  <2>1. gen + 1 <= events + 1
    BY <1>1 DEF Budget, Owed
  <2>2. gen' + 1 <= events' + 1 /\ gen' + 0 <= events' + 1
    BY <1>0, <2>1
  <2> QED BY <2>2 DEF Budget, Owed
<1>2. CASE post.st \notin {"login", "loggedIn"}
  <2>1. gen + 0 <= events + 1
    BY <1>2 DEF Budget, Owed
  <2>2. gen' + 0 <= events' + 1
    BY <1>0, <2>1
  <2> QED BY <1>2, <2>2 DEF Budget, Owed
<1> QED BY <1>1, <1>2

(* Timers and requests that touch nothing of the effect.                    *)
LEMMA QuietSteps ==
  ASSUME IInv, UNCHANGED <<effect, tab, admin, late, post, events, cookie, issued>>
  PROVE  IInv'
<1>1. Shape' /\ Budget'
  BY DEF IInv, Shape, Budget, Owed, effect
<1> QED BY <1>1, Aside

LEMMA PollStep == ASSUME IInv, Polling PROVE IInv'
BY QuietSteps DEF Polling, PollFires, effect, tab, react, hub, history

LEMMA RetryStep == ASSUME IInv, Reconnecting PROVE IInv'
<1>1. PICK g \in Gens : RetryFires(g)
  BY DEF Reconnecting
<1>2. /\ sock \in [Gens -> Socks] /\ retry \in [Gens -> Nat] /\ cookie \in Creds
      /\ closed \in [Gens -> BOOLEAN] /\ poll \in [Gens -> Nat] /\ RunOK(g)
  BY DEF IInv, Shape, Effects
<1>3. /\ UNCHANGED <<gen, blocked, page, admin, late, closed, poll, post, events, cookie, issued>>
      /\ retry' = [retry EXCEPT ![g] = @ - 1] /\ sock' = [sock EXCEPT ![g] = Connect(cookie)]
      /\ retry[g] > 0
  BY <1>1 DEF RetryFires, hub, tab, react, history
<1>4. retry[g] = 1 /\ sock[g] = Dead /\ ~closed[g] /\ poll[g] = 1 /\ g = gen
  <2>1. retry[g] = 1 /\ sock[g] = Dead /\ ~closed[g] /\ g = gen
    BY <1>2, <1>3 DEF RunOK
  <2>2. poll[g] > 0 /\ poll[g] <= 1 /\ poll[g] \in Nat
    BY <1>2, <2>1, DeadIsGone DEF RunOK
  <2> QED BY <2>1, <2>2
<1>5. retry'[g] = 0 /\ sock'[g] = Connect(cookie)
  BY <1>2, <1>3, <1>4
<1>6. sock' \in [Gens -> Socks] /\ retry' \in [Gens -> Nat]
  BY <1>2, <1>3, <1>4, Connecting
<1>7. RunOK(g)'
  <2>1. CASE blocked
    <3>1. sock'[g] = Dead
      BY <1>2, <1>5, <2>1, Connecting
    <3> QED BY <1>2, <1>3, <1>4, <1>5, <2>1, <3>1 DEF RunOK
  <2>2. CASE ~blocked
    <3>1. sock'[g].st = "connecting"
      BY <1>2, <1>5, <2>2, Connecting
    <3> QED BY <1>2, <1>3, <1>4, <1>5, <3>1 DEF RunOK
  <2> QED BY <2>1, <2>2
<1>8. Effects'
  BY <1>2, <1>3, <1>7, OneRun
<1>9. StoppedAsksSignIn'
  BY <1>3 DEF IInv, StoppedAsksSignIn
<1> QED BY <1>2, <1>3, <1>6, <1>8, <1>9, Kept DEF IInv

LEMMA CloseStep == ASSUME IInv, Closing PROVE IInv'
<1>1. PICK g \in Gens : SocketCloses(g)
  BY DEF Closing
<1>2. /\ sock \in [Gens -> Socks] /\ retry \in [Gens -> Nat]
      /\ closed \in [Gens -> BOOLEAN] /\ poll \in [Gens -> Nat] /\ RunOK(g)
  BY DEF IInv, Shape, Effects
<1>3. g = gen /\ ~closed[g] /\ retry[g] = 0 /\ sock[g].st = "ended"
  BY <1>1, SockIsCurrent DEF SocketCloses
<1>4. /\ UNCHANGED <<gen, blocked, page, admin, late, closed, post, events, cookie, issued>>
      /\ sock' = [sock EXCEPT ![g] = Dead] /\ poll' = [poll EXCEPT ![g] = Covered(@)]
      /\ retry' = [retry EXCEPT ![g] = @ + 1]
  BY <1>1, <1>3 DEF SocketCloses, hub, tab, react, history
<1>5. poll' = [poll EXCEPT ![g] = 1] /\ retry' = [retry EXCEPT ![g] = 1]
  <2>1. Covered(poll[g]) = 1 /\ retry[g] + 1 = 1
    BY <1>2, <1>3 DEF Covered, RunOK
  <2> QED BY <1>4, <2>1
<1>6. sock' \in [Gens -> Socks] /\ retry' \in [Gens -> Nat] /\ poll' \in [Gens -> Nat]
  <2>1. sock' \in [Gens -> Socks]
    BY <1>2, <1>4, DeadIsGone
  <2>2. retry' \in [Gens -> Nat] /\ poll' \in [Gens -> Nat]
    BY <1>2, <1>5
  <2> QED BY <2>1, <2>2
<1>7. RunOK(g)'
  <2>1. sock'[g] = Dead /\ retry'[g] = 1 /\ poll'[g] = 1 /\ ~closed'[g] /\ g = gen'
    BY <1>2, <1>3, <1>4, <1>5
  <2> QED BY <2>1 DEF RunOK
<1>8. Effects'
  BY <1>2, <1>4, <1>7, OneRun
<1>9. StoppedAsksSignIn'
  BY <1>4 DEF IInv, StoppedAsksSignIn
<1> QED BY <1>2, <1>4, <1>6, <1>8, <1>9, Kept DEF IInv

LEMMA FrameStep == ASSUME IInv, Delivery PROVE IInv'
<1>1. PICK g \in Gens : FrameArrives(g)
  BY DEF Delivery
<1>2. /\ sock \in [Gens -> Socks] /\ retry \in [Gens -> Nat]
      /\ closed \in [Gens -> BOOLEAN] /\ poll \in [Gens -> Nat] /\ RunOK(g) /\ sock[g] \in Socks
  BY DEF IInv, Shape, Effects
<1>3. sock[g].st # "none"
  BY <1>1, <1>2, DeadIsGone DEF FrameArrives, RunOK
<1>4. g = gen /\ ~closed[g] /\ retry[g] = 0
  BY <1>3, SockIsCurrent
<1>5. /\ UNCHANGED <<gen, blocked, page, late, closed, retry, post, events, cookie, issued>>
      /\ sock' = [sock EXCEPT ![g] = [@ EXCEPT !.frame = ""]] /\ poll' = [poll EXCEPT ![g] = 0]
  BY <1>1 DEF FrameArrives, hub, tab, history
<1>6. sock'[g] \in Socks /\ sock'[g].st = sock[g].st /\ poll'[g] = 0
  BY <1>2, <1>5 DEF Socks
<1>7. sock' \in [Gens -> Socks] /\ poll' \in [Gens -> Nat]
  BY <1>2, <1>5, <1>6
<1>8. RunOK(g)'
  <2>1. sock'[g].st # "none" /\ retry'[g] = 0 /\ poll'[g] = 0 /\ ~closed'[g] /\ g = gen'
    BY <1>3, <1>4, <1>5, <1>6
  <2> QED BY <2>1 DEF RunOK
<1>9. Effects'
  BY <1>2, <1>5, <1>8, OneRun
<1>10. StoppedAsksSignIn'
  BY <1>4, <1>5 DEF StoppedAsksSignIn
<1> QED BY <1>2, <1>5, <1>7, <1>9, <1>10, Kept DEF IInv

(* A step that moves sockets and nothing else of the effect.                *)
LEMMA SockSteps ==
  ASSUME IInv, UNCHANGED <<gen, closed, poll, retry, tab, admin, late, cookie, issued>>,
         Shape', Budget',
         \A g \in Gens : sock'[g] = sock[g] \/ (sock[g].st # "none" /\ sock'[g].st # "none")
  PROVE  IInv'
<1>1. blocked' = blocked /\ page' = page
  BY DEF tab
<1>2. Effects'
  BY <1>1, SocksMove
<1>3. StoppedAsksSignIn'
  BY <1>1 DEF IInv, StoppedAsksSignIn
<1> QED BY <1>2, <1>3 DEF IInv

LEMMA HandshakeStep == ASSUME IInv, Handshake PROVE IInv'
<1>1. PICK g \in Gens : HubAccepts(g)
  BY DEF Handshake
<1>2. sock \in [Gens -> Socks] /\ sock[g] \in Socks /\ sock[g].st = "connecting"
  BY <1>1 DEF IInv, Shape, HubAccepts
<1>3. PICK s \in Socks : s.st # "none" /\ sock' = [sock EXCEPT ![g] = s]
  <2> DEFINE s == IF Valid(sock[g].cred) THEN [sock[g] EXCEPT !.st = "open"]
                  ELSE IF public THEN [sock[g] EXCEPT !.st = "open", !.cred = None]
                  ELSE [sock[g] EXCEPT !.st = "ended"]
  <2>1. s \in Socks /\ s.st # "none"
    BY <1>2 DEF Socks, Creds
  <2>2. sock' = [sock EXCEPT ![g] = s]
    BY <1>1 DEF HubAccepts
  <2> QED BY <2>1, <2>2
<1>4. UNCHANGED <<gen, closed, poll, retry, tab, admin, late, cookie, issued, post, events>>
  BY <1>1 DEF HubAccepts, hub, react, history
<1>5. sock' \in [Gens -> Socks]
  BY <1>2, <1>3
<1>6. Shape' /\ Budget'
  BY <1>4, <1>5, Kept DEF IInv, Shape
<1> QED BY <1>2, <1>3, <1>4, <1>6, SockSteps

LEMMA TickStep == ASSUME IInv, Ticking PROVE IInv'
<1>1. PICK g \in Gens : HubTicks(g)
  BY DEF Ticking
<1>2. sock \in [Gens -> Socks] /\ sock[g] \in Socks /\ sock[g].st = "open"
  BY <1>1 DEF IInv, Shape, HubTicks
<1>3. PICK s \in Socks : s.st # "none" /\ sock' = [sock EXCEPT ![g] = s]
  <2> DEFINE s == IF Audience(sock[g].cred)
                  THEN [sock[g] EXCEPT !.frame = IF sock[g].cred # None THEN "full" ELSE "public"]
                  ELSE [sock[g] EXCEPT !.st = "ended"]
  <2>1. s \in Socks /\ s.st # "none"
    BY <1>2 DEF Socks
  <2>2. sock' = [sock EXCEPT ![g] = s]
    BY <1>1 DEF HubTicks
  <2> QED BY <2>1, <2>2
<1>4. UNCHANGED <<gen, closed, poll, retry, tab, admin, late, cookie, issued, post, events>>
  BY <1>1 DEF HubTicks, hub, react, history
<1>5. sock' \in [Gens -> Socks]
  BY <1>2, <1>3
<1>6. Shape' /\ Budget'
  BY <1>4, <1>5, Kept DEF IInv, Shape
<1> QED BY <1>2, <1>3, <1>4, <1>6, SockSteps

LEMMA NodesStep == ASSUME IInv, NodesLand PROVE IInv'
<1>1. PICK c \in calls : ListLands(c) \/ RefusalLands(c) \/ FetchFails(c)
  BY DEF NodesLand
<1>2. CASE ListLands(c)
  <2>1. UNCHANGED <<effect, tab, post, events, cookie, issued>> /\ late' = closed[gen]
    BY <1>2 DEF ListLands, hub
  <2>2. Shape' /\ Budget' /\ Effects'
    BY <2>1 DEF IInv, Shape, Budget, Owed, Effects, RunOK, effect, tab
  <2>3. StoppedAsksSignIn'
    BY <2>1 DEF StoppedAsksSignIn, effect
  <2> QED BY <2>2, <2>3 DEF IInv
<1>3. CASE RefusalLands(c)
  <2>1. UNCHANGED <<gen, tab, page, blocked, post, events, cookie, issued>> /\ late' = FALSE
    BY <1>3 DEF RefusalLands, hub, tab
  <2>2. CASE page = "admin"
    <3>1. Stop(c.gen) /\ admin' = FALSE
      BY <1>3, <2>2 DEF RefusalLands
    <3>2. /\ Effects'
          /\ closed' \in [Gens -> BOOLEAN] /\ sock' \in [Gens -> Socks]
          /\ poll' \in [Gens -> Nat] /\ retry' \in [Gens -> Nat]
      BY <2>1, <3>1, Stopping
    <3>3. Shape' /\ Budget'
      BY <2>1, <3>2, Kept
    <3> QED BY <3>1, <3>2, <3>3 DEF IInv, StoppedAsksSignIn
  <2>3. CASE page # "admin"
    <3>1. UNCHANGED effect
      BY <1>3, <2>1, <2>3 DEF RefusalLands, effect
    <3>2. Shape' /\ Budget' /\ Effects'
      BY <2>1, <3>1 DEF IInv, Shape, Budget, Owed, Effects, RunOK, effect
    <3> QED BY <2>1, <2>3, <3>2 DEF IInv, StoppedAsksSignIn
  <2> QED BY <2>2, <2>3
<1>4. CASE FetchFails(c)
  BY <1>4, QuietSteps DEF FetchFails, hub, history
<1> QED BY <1>1, <1>2, <1>3, <1>4

LEMMA MeStep == ASSUME IInv, MeAnswered PROVE IInv'
BY QuietSteps DEF MeAnswered, MeLands, hub

LEMMA AnswerStep == ASSUME IInv, NEW k, Answers(k) PROVE IInv'
BY QuietSteps DEF Answers, HubAnswers, hub, react, history

(* The form, and the Hub's part of a sign-in: the effect is not touched.    *)
LEMMA AccountQuiet ==
  ASSUME IInv, \/ HubDropsAll \/ HubRefuses \/ HubIssues \/ Changed
               \/ Submit("login") \/ Submit("change") \/ RetryClicked
  PROVE  IInv'
<1> USE DEF IInv, Shape
<1>1. UNCHANGED <<effect, tab, admin, late>>
  BY DEF HubDropsAll, HubRefuses, HubIssues, Changed, Submit, RetryClicked, react, history
<1>2. post' \in Posts /\ cookie' \in Creds /\ issued' \in Nat
  BY DEF HubDropsAll, HubRefuses, HubIssues, Changed, Submit, RetryClicked, hub, Fresh, Posts, Creds, Idle
<1>3. events' \in Nat /\ events' <= MaxEvents /\ events <= events'
  BY PanelAssumption DEF HubDropsAll, HubRefuses, HubIssues, Changed, Submit, RetryClicked, Event
<1>4. Shape'
  BY <1>1, <1>2, <1>3 DEF effect
<1>5. Budget'
  <2>1. CASE post'.st \in {"login", "loggedIn"} => post.st \in {"login", "loggedIn"}
    <3>1. gen \in Nat /\ gen' = gen
      BY <1>1, Runs DEF effect
    <3> QED BY <1>3, <2>1, <3>1, BudgetKept
  <2>2. CASE Submit("login")
    <3>1. post.st = "idle" /\ events' = events + 1 /\ gen' = gen
      BY <2>2 DEF Submit, Event, Idle, effect
    <3> QED BY <3>1, Runs DEF Budget, Owed
  <2>3. CASE ~Submit("login")
    BY <2>1, <2>3 DEF HubDropsAll, HubRefuses, HubIssues, Changed, Submit, RetryClicked, Idle, Posts
  <2> QED BY <2>2, <2>3
<1> QED BY <1>1, <1>4, <1>5, Aside

LEMMA SignedInStep == ASSUME IInv, SignedIn PROVE IInv'
<1>1. /\ gen \in Gens /\ gen \in Nat /\ gen >= 1 /\ events \in Nat /\ events <= MaxEvents
      /\ post \in Posts /\ issued \in Nat /\ post.tok \in Creds /\ MaxEvents \in Nat
  BY PanelAssumption DEF IInv, Shape, Gens, Posts
<1>2. /\ post.st = "loggedIn" /\ Rerun(calls \cup {Get("me", 1, post.tok)}, post.tok)
      /\ post' = Idle /\ cookie' = post.tok /\ UNCHANGED <<tab, admin, events, issued>>
  BY DEF SignedIn, hub, react
<1>3. gen + 1 <= events + 1
  BY <1>1, <1>2 DEF IInv, Budget, Owed
<1>4. gen + 1 \in Gens
  BY <1>1, <1>3, Runs
<1>5. /\ Effects' /\ StoppedAsksSignIn' /\ gen' = gen + 1
      /\ closed' \in [Gens -> BOOLEAN] /\ sock' \in [Gens -> Socks]
      /\ poll' \in [Gens -> Nat] /\ retry' \in [Gens -> Nat]
  BY <1>1, <1>2, <1>4, Rerunning
<1>6. Shape'
  BY <1>1, <1>2, <1>4, <1>5 DEF Shape, Idle, Posts, Creds
<1>7. Budget'
  BY <1>1, <1>2, <1>3, <1>5 DEF Budget, Owed, Idle
<1> QED BY <1>5, <1>6, <1>7 DEF IInv

LEMMA RefreshStep == ASSUME IInv, Refresh PROVE IInv'
<1>1. /\ gen \in Gens /\ gen \in Nat /\ gen >= 1 /\ events \in Nat /\ events <= MaxEvents
      /\ post \in Posts /\ issued \in Nat /\ cookie \in Creds /\ MaxEvents \in Nat
  BY PanelAssumption DEF IInv, Shape, Gens
<1>2. /\ events < MaxEvents /\ events' = events + 1 /\ Rerun(calls, cookie)
      /\ UNCHANGED <<tab, admin, post, cookie, issued>>
  BY DEF Refresh, Event, hub, react
<1>3. gen + Owed <= events + 1 /\ Owed \in {0, 1} /\ Owed' = Owed
  BY <1>2 DEF IInv, Budget, Owed
<1>4. gen + 1 \in Gens
  BY <1>1, <1>2, <1>3, Runs
<1>5. /\ Effects' /\ StoppedAsksSignIn' /\ gen' = gen + 1
      /\ closed' \in [Gens -> BOOLEAN] /\ sock' \in [Gens -> Socks]
      /\ poll' \in [Gens -> Nat] /\ retry' \in [Gens -> Nat]
  BY <1>1, <1>2, <1>4, Rerunning
<1>6. Shape'
  BY <1>1, <1>2, <1>4, <1>5 DEF Shape
<1>7. Budget'
  BY <1>1, <1>2, <1>3, <1>5 DEF Budget
<1> QED BY <1>5, <1>6, <1>7 DEF IInv

LEMMA SignOutStep == ASSUME IInv, SignOut PROVE IInv'
<1>1. /\ events \in Nat /\ events <= MaxEvents /\ issued \in Nat /\ cookie \in Creds
      /\ MaxEvents \in Nat
  BY PanelAssumption DEF IInv, Shape
<1>2. /\ events < MaxEvents /\ events' = events + 1 /\ UNCHANGED <<tab, issued>>
      /\ cookie' \in Creds
  BY <1>1 DEF SignOut, Event, Creds
<1>3. PICK c \in Creds : Load(c)
  BY <1>1 DEF SignOut, Creds
<1>4. /\ Effects' /\ StoppedAsksSignIn' /\ gen' = 1
      /\ closed' \in [Gens -> BOOLEAN] /\ sock' \in [Gens -> Socks]
      /\ poll' \in [Gens -> Nat] /\ retry' \in [Gens -> Nat]
  BY <1>2, <1>3, Loading
<1>5. post' = Idle
  BY <1>3 DEF Load
<1>6. Shape'
  BY <1>1, <1>2, <1>4, <1>5, Runs DEF Shape, Idle, Posts, Creds
<1>7. Budget'
  BY <1>1, <1>2, <1>4, <1>5 DEF Budget, Owed, Idle
<1> QED BY <1>4, <1>6, <1>7 DEF IInv

LEMMA ElsewhereStep == ASSUME IInv, Elsewhere PROVE IInv'
<1> USE DEF IInv, Shape
<1>1. UNCHANGED <<effect, tab, admin, late, post>>
  BY DEF Elsewhere, Revoked, PublicToggled, OtherTab, react, history
<1>2. cookie' \in Creds /\ issued' \in Nat
  BY DEF Elsewhere, Revoked, PublicToggled, OtherTab, Fresh, Creds
<1>3. events' \in Nat /\ events' <= MaxEvents /\ events <= events'
  BY PanelAssumption DEF Elsewhere, Revoked, PublicToggled, OtherTab, Event
<1>4. Shape'
  BY <1>1, <1>2, <1>3 DEF effect
<1>5. Budget'
  <2>1. gen \in Nat /\ gen' = gen
    BY <1>1, Runs DEF effect
  <2> QED BY <1>1, <1>3, <2>1, BudgetKept
<1> QED BY <1>1, <1>4, <1>5, Aside

(* A failure changes sockets that were there, requests and the form.        *)
LEMMA FailureStep == ASSUME IInv, Failures PROVE IInv'
<1> USE DEF IInv, Shape
<1>1. UNCHANGED <<gen, closed, poll, retry, tab, admin, late, cookie, issued>>
  BY DEF Failures, HubStops, HubStarts, Unreachable, NetworkFails, effect, react, history, hub
<1>2. events' \in Nat /\ events' <= MaxEvents /\ events <= events'
  <2>1. events' = events \/ (events < MaxEvents /\ events' = events + 1)
    BY DEF Failures, HubStops, HubStarts, Unreachable, NetworkFails, Event
  <2> QED BY <2>1, PanelAssumption
<1>3. post' = post \/ post' = Idle
  BY DEF Failures, HubStops, HubStarts, Unreachable, NetworkFails
<1>4. [Dead EXCEPT !.st = "ended"] \in Socks /\ [Dead EXCEPT !.st = "ended"].st = "ended"
  BY DEF Dead, Socks, Creds
<1>5. /\ sock' \in [Gens -> Socks]
      /\ \A g \in Gens : sock'[g] = sock[g] \/ (sock[g].st # "none" /\ sock'[g].st # "none")
  <2>1. CASE sock' = sock
    BY <2>1
  <2>2. CASE HubStops
    <3>1. sock' = [g \in Gens |-> IF sock[g].st \in {"connecting", "open"}
                                 THEN [Dead EXCEPT !.st = "ended"] ELSE sock[g]]
      BY <2>2 DEF HubStops
    <3> QED BY <1>4, <3>1
  <2>3. ASSUME NEW g \in Gens, sock[g].st \in {"connecting", "open"},
               sock' = [sock EXCEPT ![g] = [Dead EXCEPT !.st = "ended"]]
        PROVE  /\ sock' \in [Gens -> Socks]
               /\ \A h \in Gens : sock'[h] = sock[h] \/ (sock[h].st # "none" /\ sock'[h].st # "none")
    BY <1>4, <2>3
  <2>4. CASE Unreachable \/ NetworkFails
    <3>1. \/ sock' = sock
          \/ \E g \in Gens : /\ sock[g].st \in {"connecting", "open"}
                            /\ sock' = [sock EXCEPT ![g] = [Dead EXCEPT !.st = "ended"]]
      BY <2>4 DEF Unreachable, NetworkFails
    <3> QED BY <2>1, <2>3, <3>1
  <2>5. CASE HubStarts
    BY <2>1, <2>5 DEF HubStarts, effect
  <2> QED BY <2>2, <2>4, <2>5 DEF Failures
<1>6. Shape'
  BY <1>1, <1>2, <1>3, <1>5 DEF Idle, Posts, Creds
<1>7. Budget'
  <2>1. gen \in Nat /\ gen' = gen
    BY <1>1, Runs
  <2>2. post'.st \in {"login", "loggedIn"} => post.st \in {"login", "loggedIn"}
    BY <1>3 DEF Idle
  <2> QED BY <1>2, <2>1, <2>2, BudgetKept
<1> QED BY <1>1, <1>5, <1>6, <1>7, SockSteps

LEMMA NextKeepsIInv == IInv /\ [Next]_vars => IInv'
<1> SUFFICES ASSUME IInv, [Next]_vars PROVE IInv'
  OBVIOUS
<1>1. CASE UNCHANGED vars
  BY <1>1, QuietSteps DEF vars, hub, effect, react, history
<1>2. CASE Account
  BY <1>2, AccountQuiet, SignedInStep DEF Account
<1>3. CASE People
  BY <1>3, AccountQuiet, RefreshStep, SignOutStep DEF People
<1> QED
  BY <1>1, <1>2, <1>3, PollStep, RetryStep, CloseStep, FrameStep, HandshakeStep, TickStep,
     NodesStep, MeStep, AnswerStep, ElsewhereStep, FailureStep DEF Next

LEMMA Inductive == Spec => []IInv
BY InitIInv, NextKeepsIInv, PTL DEF Spec

-----------------------------------------------------------------------------
(* For any number of events, failures and requests in flight, a run of the  *)
(* effect has at most one poll and one reconnect, no reconnect beside a     *)
(* socket, and nothing once it was stopped (useNodes: stop, poll ??=,       *)
(* onclose).                                                                *)
THEOREM TimersNeverDouble == Spec => []OneOfEach
BY Inductive, IInvGives, PTL

(* For any such history, a page that was not refused goes on trying         *)
(* (useNodes: onclose arms both, connect falls back on the poll).           *)
THEOREM NeverGivesUp == Spec => []KeepsTrying
BY Inductive, IInvGives, PTL

(* For any such history, a panel that stopped asks for a sign-in, unless a  *)
(* list landed after the stop (useNodes: fetchOnce and receive).            *)
THEOREM StopMeansSignIn == Spec => []StoppedAsksSignIn
BY Inductive, IInvGives, PTL
=============================================================================
