------------------------------ MODULE LivePanel ------------------------------
(***************************************************************************)
(* One open tab of the status page or of the admin panel, kept current by  *)
(* useNodes (web/src/lib/api.ts, admin/src/lib/api.ts) and shown by App    *)
(* (both App.tsx), against the Hub's nodes, me, live_ws, login, logout and *)
(* save_settings (server/src/api.rs, auth.rs).                             *)
(*                                                                         *)
(* The tab has a stream, a poll that covers for it, a reconnect timer and  *)
(* requests in flight, each carrying the cookie of the moment it was sent  *)
(* and answered from the Hub's state of another moment; answers land in    *)
(* any order, into one copy of React's state, also those of an effect that *)
(* was cleaned up since.                                                   *)
(*                                                                         *)
(* React's effects run in the step that changes what they depend on.  The  *)
(* contents of the list, the throttle and the per-address seats are left   *)
(* out: a refused seat is a failed connection.  Two like requests that the *)
(* Hub has not answered are one.                                           *)
(***************************************************************************)
EXTENDS Naturals, FiniteSets

CONSTANTS
  None,
  MaxCalls,     (* bound: requests in flight when the poll adds another    *)
  MaxEvents     (* bound: what people do to the tab and to the Hub, what   *)
                (* the network loses and restarts of the Hub, together     *)

ASSUME PanelAssumption ==
  MaxCalls \in Nat \ {0} /\ MaxEvents \in Nat

VARIABLES
  (* The Hub and the cookie jar of the browser, which all its tabs share. *)
  up, public, sessions, cookie,
  issued,     (* how many session tokens the Hub has made                  *)
  (* The tab: which page, and whether WebSocket cannot be constructed. *)
  page, blocked,
  (* useNodes, one copy of each per run of its effect. *)
  gen,        (* the run that is current                                   *)
  closed,     (* its flag: cleaned up, or stopped                          *)
  sock,       (* its socket                                                *)
  poll, retry,(* how many of each timer are armed                          *)
  (* React's state. *)
  me, meError, admin, nodes, error, shut,
  (* Requests. *)
  calls,      (* GETs in flight, answered by the Hub or not yet            *)
  post,       (* the sign-in or the change of credentials under way        *)
  (* Bounds and history. *)
  events,
  astray,     (* an answer of /me was lost, landed before another's, or    *)
              (* belied the refusal that the status page asked it about    *)
  late,       (* the list shown landed after the panel had stopped         *)
  signed      (* the session this page last signed in to                   *)

hub == <<up, public, sessions, issued>>
tab == <<page, blocked>>
effect == <<gen, closed, sock, poll, retry>>
react == <<me, meError, admin, nodes, error, shut>>
history == <<astray, late, signed>>
vars == <<hub, cookie, tab, effect, react, calls, post, events, history>>

(* A run of the effect and a token more for each event, at the most.        *)
Gens == 1..(MaxEvents + 1)
Tokens == 1..(MaxEvents + 1)
Audiences == {"full", "public"}
Dead == [st |-> "none", cred |-> None, frame |-> ""]
Nobody == [authed |-> FALSE, public |-> FALSE]
Idle == [st |-> "idle", tok |-> None]

TypeOK ==
  /\ up \in BOOLEAN /\ public \in BOOLEAN /\ sessions \subseteq Tokens
  /\ cookie \in Tokens \cup {None} /\ issued \in Tokens
  /\ page \in {"web", "admin"} /\ blocked \in BOOLEAN
  /\ gen \in Gens /\ closed \in [Gens -> BOOLEAN]
  /\ \A g \in Gens : /\ sock[g].st \in {"none", "connecting", "open", "ended"}
                     /\ sock[g].cred \in Tokens \cup {None}
                     /\ sock[g].frame \in Audiences \cup {""}
  /\ poll \in [Gens -> Nat] /\ retry \in [Gens -> Nat]
  /\ me = None \/ (DOMAIN me = {"authed", "public"} /\ me.authed \in BOOLEAN /\ me.public \in BOOLEAN)
  /\ meError \in BOOLEAN /\ admin \in {None, TRUE, FALSE}
  /\ nodes \in BOOLEAN /\ error \in BOOLEAN /\ shut \in BOOLEAN
  /\ \A c \in calls : c.kind \in {"nodes", "me"} /\ c.gen \in Gens /\ c.st \in {"sent", "answered", "lost"}
  /\ post.st \in {"idle", "login", "change", "dropped", "loggedIn", "changed"}
  /\ events \in 0..MaxEvents
  /\ astray \in BOOLEAN /\ late \in BOOLEAN /\ signed \in Tokens \cup {None}

-----------------------------------------------------------------------------
(* What the page shows (the returns of both App components).                *)
View ==
  IF me = None THEN "loading"
  ELSE IF page = "admin"
       THEN IF me.authed /\ admin # FALSE THEN "panel" ELSE "login"
       ELSE IF me.public \/ me.authed THEN "list" ELSE "notice"

Valid(t) == t \in sessions
Entitled == Valid(cookie) \/ Valid(sock[gen].cred) \/ (page = "web" /\ public)

(* api: a GET with the cookie c.                                            *)
Get(kind, g, c) == [kind |-> kind, gen |-> g, cred |-> c, st |-> "sent", ans |-> Nobody]

(* connect: where the constructor throws, the poll is all there is.         *)
Connect(c) == IF blocked THEN Dead ELSE [st |-> "connecting", cred |-> c, frame |-> ""]
Fallback == IF blocked THEN 1 ELSE 0

Init ==
  /\ up = TRUE /\ public \in BOOLEAN
  /\ page \in {"web", "admin"} /\ blocked \in BOOLEAN
  /\ issued = 1 /\ sessions = {1} /\ cookie \in {1, None}
  /\ gen = 1
  /\ closed = [g \in Gens |-> g # 1]
  /\ sock = [g \in Gens |-> IF g = 1 THEN Connect(cookie) ELSE Dead]
  /\ poll = [g \in Gens |-> IF g = 1 THEN Fallback ELSE 0]
  /\ retry = [g \in Gens |-> 0]
  /\ me = None /\ meError = FALSE /\ admin = None
  /\ nodes = FALSE /\ error = FALSE /\ shut = FALSE
  /\ calls = {Get("nodes", 1, cookie), Get("me", 1, cookie)}
  /\ post = Idle
  /\ events = 0 /\ astray = FALSE /\ late = FALSE /\ signed = None

-----------------------------------------------------------------------------
(* The timers and the socket of one run g of the effect.                    *)

(* poll ??= setInterval(fetchOnce, 5000).                                   *)
Covered(n) == IF n = 0 THEN 1 ELSE n

(* Mutant: the reconnect is left armed.                                     *)
StopForgets(g) ==
  /\ closed' = [closed EXCEPT ![g] = TRUE]
  /\ sock' = [sock EXCEPT ![g] = Dead]
  /\ poll' = [poll EXCEPT ![g] = 0]
  /\ UNCHANGED retry

(* stop, and the cleanup of the effect.                                     *)
Stop(g) ==
  /\ closed' = [closed EXCEPT ![g] = TRUE]
  /\ sock' = [sock EXCEPT ![g] = Dead]
  /\ poll' = [poll EXCEPT ![g] = 0]
  /\ retry' = [retry EXCEPT ![g] = 0]

(* The effect of the admin page runs again: the current run is cleaned up,  *)
(* the next one fetches and connects.                                       *)
Rerun(cs, c) ==
  /\ gen' = gen + 1
  /\ closed' = [closed EXCEPT ![gen] = TRUE, ![gen + 1] = FALSE]
  /\ sock' = [sock EXCEPT ![gen] = Dead, ![gen + 1] = Connect(c)]
  /\ poll' = [poll EXCEPT ![gen] = 0, ![gen + 1] = Fallback]
  /\ retry' = [retry EXCEPT ![gen] = 0]
  /\ calls' = cs \cup {Get("nodes", gen + 1, c)}
  /\ late' = FALSE

(* The interval of the poll elapses.                                        *)
PollFires(g) ==
  /\ poll[g] > 0 /\ Cardinality(calls) < MaxCalls
  /\ calls' = calls \cup {Get("nodes", g, cookie)}
  /\ UNCHANGED <<hub, cookie, tab, effect, react, post, events, history>>

(* connect, from its timer.                                                 *)
RetryFires(g) ==
  /\ retry[g] > 0
  /\ retry' = [retry EXCEPT ![g] = @ - 1]
  /\ sock' = [sock EXCEPT ![g] = Connect(cookie)]
  /\ UNCHANGED <<hub, cookie, tab, gen, closed, poll, react, calls, post, events, history>>

(* Mutant: the poll takes over for good.                                    *)
SocketClosesForGood(g) ==
  /\ sock[g].st = "ended" /\ sock[g].frame = ""
  /\ sock' = [sock EXCEPT ![g] = Dead]
  /\ poll' = [poll EXCEPT ![g] = IF closed[g] THEN @ ELSE Covered(@)]
  /\ UNCHANGED <<hub, cookie, tab, gen, closed, retry, react, calls, post, events, history>>

(* onclose: cover with the poll and come back later.                        *)
SocketCloses(g) ==
  /\ sock[g].st = "ended" /\ sock[g].frame = ""
  /\ sock' = [sock EXCEPT ![g] = Dead]
  /\ IF closed[g]
     THEN UNCHANGED <<poll, retry>>
     ELSE /\ poll' = [poll EXCEPT ![g] = Covered(@)]
          /\ retry' = [retry EXCEPT ![g] = @ + 1]
  /\ UNCHANGED <<hub, cookie, tab, gen, closed, react, calls, post, events, history>>

-----------------------------------------------------------------------------
(* React.                                                                   *)

Authed(m) == m # None /\ m.authed

(* The requests the effects of App add when its state becomes m, a and s:   *)
(* the panel asks /me again when a signed-in page is told it is not an      *)
(* admin's, the status page when it is told that it is closed.              *)
Asked(m, a, s) ==
  IF \/ page = "admin" /\ Authed(m) /\ a = FALSE /\ (a # admin \/ Authed(m) # Authed(me))
     \/ page = "web" /\ s /\ ~shut
  THEN {Get("me", 1, cookie)} ELSE {}

(* receive: a list for audience w arrives, by frame or by answer.           *)
Receive(w, cs) ==
  /\ nodes' = TRUE /\ error' = FALSE
  /\ shut' = FALSE
  /\ admin' = IF page = "admin" THEN w = "full" ELSE admin
  /\ calls' = cs \cup Asked(me, admin', FALSE)
  /\ UNCHANGED <<me, meError>>

(* onmessage.                                                               *)
FrameArrives(g) ==
  /\ sock[g].frame # ""
  /\ Receive(sock[g].frame, calls)
  /\ sock' = [sock EXCEPT ![g].frame = ""]
  /\ poll' = [poll EXCEPT ![g] = 0]
  /\ UNCHANGED <<hub, cookie, tab, gen, closed, retry, post, events, history>>

(* fetchOnce is answered with a list.                                       *)
ListLands(c) ==
  /\ c.kind = "nodes" /\ c.st = "answered" /\ (c.ans.authed \/ c.ans.public)
  /\ Receive(IF c.ans.authed THEN "full" ELSE "public", calls \ {c})
  /\ late' = closed[gen]
  /\ UNCHANGED <<hub, cookie, tab, effect, post, events, astray, signed>>

(* Mutant: the panel stops and keeps its list.                              *)
RefusalLandsSilently(c) ==
  /\ c.kind = "nodes" /\ c.st = "answered" /\ c.ans = Nobody
  /\ error' = TRUE
  /\ IF page = "admin"
     THEN shut' = shut /\ Stop(c.gen)
     ELSE shut' = TRUE /\ UNCHANGED <<closed, sock, poll, retry>>
  /\ calls' = (calls \ {c}) \cup Asked(me, admin, shut')
  /\ late' = FALSE
  /\ UNCHANGED <<hub, cookie, tab, gen, me, meError, admin, nodes, post, events, astray, signed>>

(* fetchOnce is answered 401: the panel takes it for the end of its session *)
(* and stops, the status page asks what it may show and goes on.            *)
RefusalLands(c) ==
  /\ c.kind = "nodes" /\ c.st = "answered" /\ c.ans = Nobody
  /\ error' = TRUE
  /\ IF page = "admin"
     THEN admin' = FALSE /\ shut' = shut /\ Stop(c.gen)
     ELSE admin' = admin /\ shut' = TRUE /\ UNCHANGED <<closed, sock, poll, retry>>
  /\ calls' = (calls \ {c}) \cup Asked(me, admin', shut')
  /\ late' = FALSE
  /\ UNCHANGED <<hub, cookie, tab, gen, me, meError, nodes, post, events, astray, signed>>

(* fetchOnce fails.                                                         *)
FetchFails(c) ==
  /\ c.kind = "nodes" /\ c.st = "lost"
  /\ error' = TRUE /\ calls' = calls \ {c}
  /\ UNCHANGED <<hub, cookie, tab, effect, me, meError, admin, nodes, shut, post, events, history>>

(* loadMe is answered, or fails.                                            *)
MeLands(c) ==
  /\ c.kind = "me" /\ c.st # "sent"
  /\ IF c.st = "answered"
     THEN /\ me' = c.ans /\ meError' = FALSE
          /\ calls' = (calls \ {c}) \cup Asked(c.ans, admin, shut)
     ELSE /\ meError' = TRUE /\ calls' = calls \ {c}
          /\ UNCHANGED me
  /\ astray' = \/ astray \/ c.st = "lost"
               \/ \E d \in calls \ {c} : d.kind = "me"
               \/ shut /\ c.ans # Nobody
  /\ UNCHANGED <<hub, cookie, tab, effect, admin, nodes, error, shut, post, events, late, signed>>

-----------------------------------------------------------------------------
(* The Hub.                                                                 *)

(* nodes and me: both report what the request's cookie is worth by now.     *)
HubAnswers(c) ==
  /\ up /\ c.st = "sent"
  /\ calls' = (calls \ {c}) \cup
       {[c EXCEPT !.st = "answered", !.ans = [authed |-> Valid(c.cred), public |-> public]]}
  /\ UNCHANGED <<hub, cookie, tab, effect, react, post, events, history>>

(* live_ws: the handshake is refused, or bound to its session if that is    *)
(* live and to nobody otherwise.                                            *)
HubAccepts(g) ==
  /\ up /\ sock[g].st = "connecting"
  /\ sock' = [sock EXCEPT ![g] =
       IF Valid(@.cred) THEN [@ EXCEPT !.st = "open"]
       ELSE IF public THEN [@ EXCEPT !.st = "open", !.cred = None]
       ELSE [@ EXCEPT !.st = "ended"]]
  /\ UNCHANGED <<hub, cookie, tab, gen, closed, poll, retry, react, calls, post, events, history>>

(* Mutant: tested at the handshake alone.                                   *)
AudienceOnce(cred) == TRUE

(* stream_audience.                                                         *)
Audience(cred) == IF cred # None THEN Valid(cred) ELSE public

(* stream_live, one tick: a frame, or the end of the stream.                *)
HubTicks(g) ==
  /\ up /\ sock[g].st = "open" /\ sock[g].frame = ""
  /\ sock' = [sock EXCEPT ![g] =
       IF Audience(@.cred)
       THEN [@ EXCEPT !.frame = IF sock[g].cred # None THEN "full" ELSE "public"]
       ELSE [@ EXCEPT !.st = "ended"]]
  /\ UNCHANGED <<hub, cookie, tab, gen, closed, poll, retry, react, calls, post, events, history>>

-----------------------------------------------------------------------------
(* Signing in, changing the credentials, signing out.                       *)

Event == events < MaxEvents /\ events' = events + 1

(* random_token: never one that was made before.                            *)
Fresh == issued + 1

(* The form is submitted; it is busy until the answer.                      *)
Submit(kind) ==
  /\ Event /\ post = Idle
  /\ View = (IF kind = "login" THEN "login" ELSE "panel")
  /\ post' = [st |-> kind, tok |-> cookie]
  /\ UNCHANGED <<hub, cookie, tab, effect, react, calls, history>>

(* save_settings: the caller's session is checked, the credential written   *)
(* and every session dropped.                                               *)
HubDropsAll ==
  /\ up /\ post.st = "change"
  /\ IF Valid(post.tok)
     THEN sessions' = {} /\ post' = [post EXCEPT !.st = "dropped"]
     ELSE sessions' = sessions /\ post' = Idle
  /\ UNCHANGED <<up, public, issued, cookie, tab, effect, react, calls, events, history>>

(* login and save_settings: throttled, another check under way, or not the  *)
(* password.                                                                *)
HubRefuses ==
  /\ up /\ post.st \in {"login", "change"}
  /\ post' = Idle
  /\ UNCHANGED <<hub, cookie, tab, effect, react, calls, events, history>>

(* issue_session, for login and for save_settings.                          *)
HubIssues ==
  /\ up /\ post.st \in {"login", "dropped"}
  /\ issued' = Fresh /\ sessions' = sessions \cup {Fresh}
  /\ post' = [st |-> IF post.st = "login" THEN "loggedIn" ELSE "changed", tok |-> Fresh]
  /\ UNCHANGED <<up, public, cookie, tab, effect, react, calls, events, history>>

(* Mutant: the stopped stream is not restarted.                             *)
SignedInOnly ==
  /\ post.st = "loggedIn"
  /\ cookie' = post.tok /\ post' = Idle
  /\ calls' = calls \cup {Get("me", 1, post.tok)}
  /\ signed' = post.tok
  /\ UNCHANGED <<hub, tab, effect, react, events, astray, late>>

(* The answer to a sign-in sets the cookie, and onDone asks /me and reruns  *)
(* the effect.                                                              *)
SignedIn ==
  /\ post.st = "loggedIn"
  /\ cookie' = post.tok /\ post' = Idle
  /\ Rerun(calls \cup {Get("me", 1, post.tok)}, post.tok)
  /\ signed' = post.tok
  /\ UNCHANGED <<hub, tab, react, events, astray>>

(* The answer to a change of credentials sets the cookie.                   *)
Changed ==
  /\ post.st = "changed"
  /\ cookie' = post.tok /\ post' = Idle
  /\ UNCHANGED <<hub, tab, effect, react, calls, events, history>>

(* The page is loaded afresh: nothing of it survives.                       *)
Load(c) ==
  /\ gen' = 1
  /\ closed' = [g \in Gens |-> g # 1]
  /\ sock' = [g \in Gens |-> IF g = 1 THEN Connect(c) ELSE Dead]
  /\ poll' = [g \in Gens |-> IF g = 1 THEN Fallback ELSE 0]
  /\ retry' = [g \in Gens |-> 0]
  /\ me' = None /\ meError' = FALSE /\ admin' = None
  /\ nodes' = FALSE /\ error' = FALSE /\ shut' = FALSE
  /\ calls' = {Get("nodes", 1, c), Get("me", 1, c)}
  /\ post' = Idle
  /\ astray' = FALSE /\ late' = FALSE /\ signed' = None

(* signOut and logout.  A logout that fails leaves the session as it was.   *)
SignOut ==
  /\ Event /\ View = "panel"
  /\ \/ /\ up /\ sessions' = sessions \ {cookie} /\ cookie' = None
        /\ Load(None)
     \/ Load(cookie) /\ UNCHANGED <<sessions, cookie>>
  /\ UNCHANGED <<up, public, issued, tab>>

(* refresh: a node was edited, or the button of the empty list.             *)
Refresh ==
  /\ Event /\ View = "panel"
  /\ Rerun(calls, cookie)
  /\ UNCHANGED <<hub, cookie, tab, react, post, astray, signed>>

(* The retry buttons: of App for /me, and of the status page for both.      *)
RetryClicked ==
  /\ Event
  /\ \/ me = None /\ meError
     \/ page = "web" /\ me # None /\ error /\ ~nodes
  /\ calls' = calls \cup (IF me = None THEN {Get("me", 1, cookie)} ELSE {})
                   \cup (IF page = "web" THEN {Get("nodes", 1, cookie)} ELSE {})
  /\ UNCHANGED <<hub, cookie, tab, effect, react, post, history>>

-----------------------------------------------------------------------------
(* What happens elsewhere.                                                  *)

(* Another operator ends the session, or it expires.                        *)
Revoked ==
  /\ Event /\ \E t \in sessions : sessions' = sessions \ {t}
  /\ UNCHANGED <<up, public, issued, cookie, tab, effect, react, calls, post, history>>

(* The status page is opened or closed to the public.                       *)
PublicToggled ==
  /\ Event /\ public' = ~public
  /\ UNCHANGED <<up, sessions, issued, cookie, tab, effect, react, calls, post, history>>

(* Another tab of this browser signs in or out.                             *)
OtherTab ==
  /\ Event /\ up
  /\ \/ issued' = Fresh /\ sessions' = sessions \cup {Fresh} /\ cookie' = Fresh
     \/ cookie # None /\ sessions' = sessions \ {cookie} /\ cookie' = None /\ UNCHANGED issued
  /\ UNCHANGED <<up, public, tab, effect, react, calls, post, history>>

(* The Hub stops: streams end, requests fail.                               *)
HubStops ==
  /\ Event /\ up /\ up' = FALSE
  /\ sock' = [g \in Gens |-> IF sock[g].st \in {"connecting", "open"}
                            THEN [Dead EXCEPT !.st = "ended"] ELSE sock[g]]
  /\ calls' = {IF c.st = "sent" THEN [c EXCEPT !.st = "lost"] ELSE c : c \in calls}
  /\ post' = Idle
  /\ UNCHANGED <<public, sessions, issued, cookie, tab, gen, closed, poll, retry, react, history>>

HubStarts ==
  /\ ~up /\ up' = TRUE
  /\ UNCHANGED <<public, sessions, issued, cookie, tab, effect, react, calls, post, events, history>>

(* While it is down, what is sent to it fails.                              *)
Unreachable ==
  /\ ~up
  /\ \/ \E c \in calls : /\ c.st = "sent"
                         /\ calls' = (calls \ {c}) \cup {[c EXCEPT !.st = "lost"]}
                         /\ UNCHANGED <<sock, post>>
     \/ \E g \in Gens : /\ sock[g].st = "connecting"
                        /\ sock' = [sock EXCEPT ![g] = [Dead EXCEPT !.st = "ended"]]
                        /\ UNCHANGED <<calls, post>>
     \/ post.st \in {"login", "change"} /\ post' = Idle /\ UNCHANGED <<calls, sock>>
  /\ UNCHANGED <<hub, cookie, tab, gen, closed, poll, retry, react, events, history>>

(* The network loses a request, an answer, a stream or a handshake.         *)
NetworkFails ==
  /\ Event
  /\ \/ \E c \in calls : /\ c.st # "lost"
                         /\ calls' = (calls \ {c}) \cup {[c EXCEPT !.st = "lost", !.ans = Nobody]}
                         /\ UNCHANGED <<sock, post>>
     \/ \E g \in Gens : /\ sock[g].st \in {"connecting", "open"}
                        /\ sock' = [sock EXCEPT ![g] = [Dead EXCEPT !.st = "ended"]]
                        /\ UNCHANGED <<calls, post>>
     \/ post # Idle /\ post' = Idle /\ UNCHANGED <<calls, sock>>
  /\ UNCHANGED <<hub, cookie, tab, gen, closed, poll, retry, react, history>>

-----------------------------------------------------------------------------
Polling == \E g \in Gens : PollFires(g)
Reconnecting == \E g \in Gens : RetryFires(g)
Handshake == \E g \in Gens : HubAccepts(g)
Ticking == \E g \in Gens : HubTicks(g)
Delivery == \E g \in Gens : FrameArrives(g)
Closing == \E g \in Gens : SocketCloses(g)
NodesLand == \E c \in calls : ListLands(c) \/ RefusalLands(c) \/ FetchFails(c)
MeAnswered == \E c \in calls : MeLands(c)
Answers(kind) == \E c \in calls : c.kind = kind /\ HubAnswers(c)
Account == HubDropsAll \/ HubRefuses \/ HubIssues \/ SignedIn \/ Changed
People == Submit("login") \/ Submit("change") \/ SignOut \/ Refresh \/ RetryClicked
Elsewhere == Revoked \/ PublicToggled \/ OtherTab
Failures == HubStops \/ HubStarts \/ Unreachable \/ NetworkFails

Next ==
  \/ Polling \/ Reconnecting \/ Handshake \/ Ticking \/ Delivery \/ Closing
  \/ NodesLand \/ MeAnswered \/ Answers("nodes") \/ Answers("me") \/ Account
  \/ People \/ Elsewhere \/ Failures

(* Timers fire, the Hub serves what it is sent and comes back after a stop, *)
(* what is sent arrives.  People owe nothing.                               *)
Fairness ==
  /\ WF_vars(Polling) /\ WF_vars(Reconnecting) /\ WF_vars(Handshake)
  /\ WF_vars(Ticking) /\ WF_vars(Delivery) /\ WF_vars(Closing)
  /\ WF_vars(NodesLand) /\ WF_vars(MeAnswered)
  /\ WF_vars(Answers("nodes")) /\ WF_vars(Answers("me")) /\ WF_vars(Account)
  /\ WF_vars(HubStarts)

Spec == Init /\ [][Next]_vars
LiveSpec == Spec /\ Fairness
-----------------------------------------------------------------------------
(* Properties.                                                              *)

(* No timer or socket is ever doubled or left behind: a run of the effect   *)
(* has at most one poll and one reconnect armed, none beside a socket, and  *)
(* a run that was stopped or cleaned up has neither (stop, poll ??=,        *)
(* onclose).                                                                *)
OneOfEach ==
  \A g \in Gens :
    /\ poll[g] <= 1 /\ retry[g] <= 1
    /\ retry[g] > 0 => sock[g] = Dead
    /\ closed[g] => poll[g] = 0 /\ retry[g] = 0 /\ sock[g] = Dead

(* The page never stops trying of its own accord: unless a refusal stopped  *)
(* it, the current run has a socket, or a reconnect armed with the poll     *)
(* covering for it; where no socket can be made, the poll (onclose, "a page *)
(* that outlives a deploy").                                                *)
KeepsTrying ==
  ~closed[gen] => \/ sock[gen].st # "none"
                  \/ retry[gen] > 0 /\ poll[gen] > 0
                  \/ blocked /\ poll[gen] > 0

(* A panel that stopped asks for a sign-in: it does not stay on a list that *)
(* nothing updates (fetchOnce's setAdmin(false), App's Login).  Excepted is *)
(* a list that lands after the stop: receive does not look at closed.       *)
StoppedAsksSignIn == page = "admin" /\ closed[gen] /\ ~late => admin = FALSE

Live ==
  /\ ~closed[gen] /\ ~error
  /\ IF blocked THEN poll[gen] = 1 ELSE sock[gen].st = "open" /\ poll[gen] = 0

(* Once nothing more happens to it, a page on which the list is shown is    *)
(* entitled to it and on the stream, without a poll and without an error:   *)
(* restarts of the Hub, lost streams and lost requests are recovered from,  *)
(* and a revoked session or a closed status page turns the page away.  Not  *)
(* so a panel with a late list (above), nor a status page whose one request *)
(* of /me about a refusal went astray: it asks only when closed changes.    *)
ShownIsLive ==
  <>[](\/ View \notin {"panel", "list"}
       \/ Entitled /\ Live
       \/ page = "admin" /\ late
       \/ page = "web" /\ astray)

(* Who has signed in gets the panel, though the stream had been stopped and *)
(* answers of the signed-out page are still arriving; unless the session is *)
(* ended or replaced by another tab's, or the answer of /me goes astray     *)
(* (onDone's loadMe and refresh).                                           *)
SignInResumes ==
  (signed # None) ~> (View = "panel" \/ cookie # signed \/ ~Valid(signed) \/ astray)
=============================================================================
