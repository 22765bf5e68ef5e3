----------------------------- MODULE WriterQueue -----------------------------
(***************************************************************************)
(* The Hub's single database writer (server/src/db/mod.rs).                *)
(*                                                                         *)
(* Every mutation of the database is a job.  A caller builds the job,      *)
(* stamping it with the database generation it read, counts it, sends it   *)
(* through a bounded channel while holding the sender's mutex, and waits   *)
(* for the reply.  One writer thread takes the jobs in order: telemetry    *)
(* jobs that follow one another share a transaction, a configuration job   *)
(* runs alone, and a job that replaces the database file first refuses     *)
(* everything queued behind it and then advances the generation.           *)
(*                                                                         *)
(* A job is one call of Db::write, Db::write_batch or Db::write_replace,   *)
(* and is made once.  The contents of the database are abstracted to which *)
(* jobs have committed, in which order, and into which database file       *)
(* (its epoch); what a job does to the tables is the subject of other      *)
(* modules.  The wait-time and transaction statistics are left out.  The   *)
(* release build aborts on a panic (server/Cargo.toml), so the writer      *)
(* thread never dies on its own.                                           *)
(***************************************************************************)
EXTENDS Integers, Sequences, FiniteSets

CONSTANTS
  Jobs,          (* the write calls made in a behaviour                    *)
  NoJob,         (* no job: an empty slot, a mutex nobody holds            *)
  WRITER_QUEUE,  (* capacity of the channel to the writer                  *)
  BATCH_OPS      (* the most jobs one transaction may carry                *)

ASSUME QueueAssumption ==
  /\ IsFiniteSet(Jobs)
  /\ NoJob \notin Jobs
  /\ WRITER_QUEUE \in Nat \ {0}
  /\ BATCH_OPS \in Nat \ {0}

VARIABLES
  (* The callers. *)
  pc,          (* where each call stands                                   *)
  kind,        (* Job::kind; Maintenance runs exactly as Solo does         *)
  stamp,       (* Job::generation, read when the job was built             *)
  born,        (* history: the database file in service at that moment     *)
  answer,      (* the outcome the writer replied with                      *)
  (* Inner. *)
  closed, sender, sender_lock, generation,
  queued, accepted, completed, committed, refused, failed, submit_failed,
  tally,       (* the counters resolve has updated for the job it is at    *)
  (* The channel and the writer thread. *)
  queue, deferred,
  writer,      (* the writer's step                                        *)
  batch,       (* the jobs it holds, in order                              *)
  verdict,     (* the outcome it is about to reply with                    *)
  conn,        (* whether the writer has a connection                      *)
  (* The database. *)
  epoch,       (* which database file is in service                        *)
  log,         (* history: the jobs committed, in commit order             *)
  home,        (* history: the file each job was committed into, 0 if none *)
  sent         (* history: the jobs handed to the channel, in order        *)

callers  == <<pc, kind, stamp, born, answer>>
counters == <<queued, accepted, completed, committed, refused, failed, submit_failed, tally>>
entry    == <<closed, sender, sender_lock>>
thread   == <<queue, deferred, writer, batch, verdict>>
database == <<conn, epoch, log, home>>
vars     == <<callers, counters, entry, thread, database, generation, sent>>

Kinds == {"batch", "solo", "replace"}
Outcomes == {"committed", "refused", "failed"}
CallerStates == {"idle", "built", "counted", "locked", "unsent", "sent", "waiting",
                 "done", "rejected"}
WriterStates == {"idle", "collect", "batch", "answer", "replay", "replied",
                 "one", "replace", "drain", "swap", "bump", "exited"}

TypeOK ==
  /\ pc \in [Jobs -> CallerStates]
  /\ kind \in [Jobs -> Kinds]
  /\ stamp \in [Jobs -> Nat]
  /\ born \in [Jobs -> Nat]
  /\ answer \in [Jobs -> Outcomes \cup {"none"}]
  /\ closed \in BOOLEAN
  /\ sender \in BOOLEAN
  /\ sender_lock \in Jobs \cup {NoJob}
  /\ generation \in Nat
  /\ queued \in Int /\ accepted \in Nat /\ completed \in Nat
  /\ committed \in Nat /\ refused \in Nat /\ failed \in Nat /\ submit_failed \in Nat
  /\ tally \in 0..3
  /\ queue \in Seq(Jobs)
  /\ Len(queue) <= WRITER_QUEUE
  /\ deferred \in Jobs \cup {NoJob}
  /\ writer \in WriterStates
  /\ batch \in Seq(Jobs)
  /\ Len(batch) <= BATCH_OPS
  /\ verdict \in Outcomes
  /\ conn \in BOOLEAN
  /\ epoch \in Nat
  /\ log \in Seq(Jobs)
  /\ home \in [Jobs -> Nat]
  /\ sent \in Seq(Jobs)

Init ==
  /\ pc = [j \in Jobs |-> "idle"]
  /\ kind \in [Jobs -> Kinds]
  /\ stamp = [j \in Jobs |-> 0]
  /\ born = [j \in Jobs |-> 0]
  /\ answer = [j \in Jobs |-> "none"]
  /\ closed = FALSE /\ sender = TRUE /\ sender_lock = NoJob
  /\ generation = 0
  /\ queued = 0 /\ accepted = 0 /\ completed = 0
  /\ committed = 0 /\ refused = 0 /\ failed = 0 /\ submit_failed = 0
  /\ tally = 0
  /\ queue = <<>> /\ deferred = NoJob
  /\ writer = "idle" /\ batch = <<>> /\ verdict = "refused"
  /\ conn = TRUE
  /\ epoch = 1
  /\ log = <<>> /\ home = [j \in Jobs |-> 0] /\ sent = <<>>

-----------------------------------------------------------------------------
(* The callers: Db::write, write_batch and write_replace build a job, and   *)
(* Db::submit hands it over.                                                *)

Goto(j, from, to) ==
  /\ pc[j] = from
  /\ pc' = [pc EXCEPT ![j] = to]

(* The generation is loaded while the job is built, before the queue.       *)
Build(j) ==
  /\ Goto(j, "idle", "built")
  /\ stamp' = [stamp EXCEPT ![j] = generation]
  /\ born' = [born EXCEPT ![j] = epoch]
  /\ UNCHANGED <<kind, answer, counters, entry, thread, database, generation, sent>>

(* ensure_open, then the increment of queued.                               *)
Count(j) ==
  /\ ~closed
  /\ Goto(j, "built", "counted")
  /\ queued' = queued + 1
  /\ UNCHANGED <<kind, stamp, born, answer, accepted, completed, committed, refused,
                 failed, submit_failed, tally, entry, thread, database, generation, sent>>

(* ensure_open fails: nothing was counted.                                  *)
RefuseClosed(j) ==
  /\ closed
  /\ Goto(j, "built", "rejected")
  /\ UNCHANGED <<kind, stamp, born, answer, counters, entry, thread, database, generation, sent>>

(* The sender's mutex, held across the send that follows.                   *)
LockSender(j) ==
  /\ sender_lock = NoJob
  /\ Goto(j, "counted", "locked")
  /\ sender_lock' = j
  /\ UNCHANGED <<kind, stamp, born, answer, counters, closed, sender, thread, database,
                 generation, sent>>

(* The channel takes the job, waiting for room with the mutex held.         *)
Send(j) ==
  /\ sender
  /\ Len(queue) < WRITER_QUEUE
  /\ Goto(j, "locked", "sent")
  /\ queue' = Append(queue, j)
  /\ sent' = Append(sent, j)
  /\ sender_lock' = NoJob
  /\ UNCHANGED <<kind, stamp, born, answer, counters, closed, sender, deferred, writer,
                 batch, verdict, database, generation>>

(* Mutant: the refused submission stays counted in queued.                  *)
SendFailsLeaks(j) ==
  /\ ~sender
  /\ Goto(j, "locked", "unsent")
  /\ sender_lock' = NoJob
  /\ UNCHANGED <<kind, stamp, born, answer, counters, closed, sender, thread, database,
                 generation, sent>>

(* The sender was taken by close between ensure_open and the send: the call *)
(* leaves queued and, in a step of its own, joins submit_failed.            *)
SendFails(j) ==
  /\ ~sender
  /\ Goto(j, "locked", "unsent")
  /\ queued' = queued - 1
  /\ sender_lock' = NoJob
  /\ UNCHANGED <<kind, stamp, born, answer, accepted, completed, committed, refused, failed,
                 submit_failed, tally, closed, sender, thread, database, generation, sent>>

Withdraw(j) ==
  /\ Goto(j, "unsent", "rejected")
  /\ submit_failed' = submit_failed + 1
  /\ UNCHANGED <<kind, stamp, born, answer, queued, accepted, completed, committed, refused,
                 failed, tally, entry, thread, database, generation, sent>>

(* accepted is counted after the send returned, by when the writer may      *)
(* already have answered.                                                   *)
Accept(j) ==
  /\ Goto(j, "sent", "waiting")
  /\ accepted' = accepted + 1
  /\ UNCHANGED <<kind, stamp, born, answer, queued, completed, committed, refused, failed,
                 submit_failed, tally, entry, thread, database, generation, sent>>

(* await_reply.                                                             *)
Receive(j) ==
  /\ answer[j] # "none"
  /\ Goto(j, "waiting", "done")
  /\ UNCHANGED <<kind, stamp, born, answer, counters, entry, thread, database, generation, sent>>

-----------------------------------------------------------------------------
(* The writer thread.                                                       *)

(* Mutant: the generation is never compared.                                *)
NeverStale(j) == FALSE

Stale(j) == stamp[j] # generation

Live == \A i \in DOMAIN batch : ~Stale(batch[i])

(* The writer is in resolve, with this status: it refuses a job of the      *)
(* batch or of the queue, or it replies to one it has run.                  *)
InResolve ==
  \/ writer = "batch" /\ ~Live
  \/ writer = "drain" /\ queue # <<>>
  \/ writer \in {"answer", "replied"}

ReplyStatus == IF writer \in {"answer", "replied"} THEN verdict ELSE "refused"

(* resolve: queued, completed and the status are updated one after the      *)
(* other, each in an atomic operation of its own.  (A job drained from the  *)
(* channel has already left it; here it leaves with its reply, so a sender  *)
(* that waits for room waits for the counters too.)                         *)
Tally ==
  /\ InResolve
  /\ \/ /\ tally = 0
        /\ queued' = queued - 1
        /\ UNCHANGED <<completed, committed, refused, failed>>
     \/ /\ tally = 1
        /\ completed' = completed + 1
        /\ UNCHANGED <<queued, committed, refused, failed>>
     \/ /\ tally = 2
        /\ committed' = committed + (IF ReplyStatus = "committed" THEN 1 ELSE 0)
        /\ refused' = refused + (IF ReplyStatus = "refused" THEN 1 ELSE 0)
        /\ failed' = failed + (IF ReplyStatus = "failed" THEN 1 ELSE 0)
        /\ UNCHANGED <<queued, completed>>
  /\ tally' = tally + 1
  /\ UNCHANGED <<callers, accepted, submit_failed, entry, thread, database, generation, sent>>

(* The reply, once the counters are updated.                                *)
Resolve(j, status) ==
  /\ tally = 3 /\ tally' = 0
  /\ answer' = [answer EXCEPT ![j] = status]
  /\ UNCHANGED <<pc, kind, stamp, born, queued, accepted, completed, committed, refused,
                 failed, submit_failed>>

(* The step a job of each kind starts with.                                 *)
Entry(j) == CASE kind[j] = "batch"   -> "collect"
              [] kind[j] = "solo"    -> "one"
              [] kind[j] = "replace" -> "replace"

(* Mutant: recv comes first, and the job set aside is looked at after it.   *)
TakeDeferredLate ==
  /\ deferred # NoJob
  /\ queue # <<>>
  /\ batch' = <<deferred>>
  /\ writer' = Entry(deferred)
  /\ deferred' = NoJob
  /\ UNCHANGED queue

TakeDeferred ==
  /\ deferred # NoJob
  /\ batch' = <<deferred>>
  /\ writer' = Entry(deferred)
  /\ deferred' = NoJob
  /\ UNCHANGED queue

(* Mutant: the queue may overtake the job set aside.                        *)
TakeQueuedAnytime ==
  /\ queue # <<>>
  /\ batch' = <<Head(queue)>>
  /\ writer' = Entry(Head(queue))
  /\ queue' = Tail(queue)
  /\ UNCHANGED deferred

TakeQueued ==
  /\ deferred = NoJob
  /\ queue # <<>>
  /\ batch' = <<Head(queue)>>
  /\ writer' = Entry(Head(queue))
  /\ queue' = Tail(queue)
  /\ UNCHANGED deferred

(* The job set aside while a batch was collected comes before the queue.    *)
TakeFirst ==
  /\ writer = "idle"
  /\ TakeDeferred \/ TakeQueued
  /\ UNCHANGED <<callers, counters, entry, verdict, database, generation, sent>>

(* Mutant: one job too many.                                                *)
BatchRoomOffByOne == Len(batch) <= BATCH_OPS

BatchRoom == Len(batch) < BATCH_OPS

Join ==
  /\ kind[Head(queue)] = "batch"
  /\ batch' = Append(batch, Head(queue))
  /\ queue' = Tail(queue)
  /\ UNCHANGED <<deferred, writer>>

SetAside ==
  /\ kind[Head(queue)] # "batch"
  /\ deferred' = Head(queue)
  /\ queue' = Tail(queue)
  /\ writer' = "batch"
  /\ UNCHANGED batch

(* Telemetry behind the first job joins the transaction; the first job of   *)
(* another kind is set aside and ends the collection, as does an empty      *)
(* queue or a full batch.                                                   *)
Collect ==
  /\ writer = "collect"
  /\ \/ BatchRoom /\ queue # <<>> /\ Join
     \/ BatchRoom /\ queue # <<>> /\ SetAside
     \/ /\ ~BatchRoom \/ queue = <<>>
        /\ writer' = "batch"
        /\ UNCHANGED <<batch, queue, deferred>>
  /\ UNCHANGED <<callers, counters, entry, verdict, database, generation, sent>>

(* run_batch, before the transaction: each job of an earlier generation is  *)
(* refused.                                                                 *)
BatchRefuse ==
  /\ writer = "batch"
  /\ \E i \in DOMAIN batch :
       /\ Stale(batch[i])
       /\ \A k \in 1..(i - 1) : ~Stale(batch[k])
       /\ Resolve(batch[i], "refused")
       /\ batch' = SubSeq(batch, 1, i - 1) \o SubSeq(batch, i + 1, Len(batch))
       /\ writer' = IF Len(batch) = 1 THEN "idle" ELSE "batch"
  /\ UNCHANGED <<entry, queue, deferred, verdict, database, generation, sent>>

(* A commit makes the jobs part of the file in service.                     *)
Commit(jobs) ==
  /\ log' = log \o jobs
  /\ home' = [j \in Jobs |-> IF \E i \in DOMAIN jobs : jobs[i] = j THEN epoch ELSE home[j]]
  /\ UNCHANGED <<conn, epoch>>

(* Mutant: the error of a failed commit is ignored.                         *)
ExecuteBlindly(jobs) ==
  /\ verdict' = "committed"
  /\ Commit(jobs) \/ UNCHANGED database

(* The transaction around some jobs commits, or nothing of it remains.      *)
(* A job run alone has no transaction around it (run_one): this takes each  *)
(* for one statement that writes, with nothing behind it that fails, which  *)
(* save_facts is not, whose UPDATE stays when the SELECT after it fails.    *)
Execute(jobs) ==
  \/ Commit(jobs) /\ verdict' = "committed"
  \/ UNCHANGED database /\ verdict' = "failed"

(* run_batch on the live jobs: no connection refuses them all; a            *)
(* transaction that cannot be opened or committed fails them all; a commit  *)
(* answers them all; a job that fails inside the transaction rolls it back, *)
(* and every job is replayed on its own.                                    *)
RunBatch ==
  /\ writer = "batch"
  /\ Live
  /\ \/ /\ ~conn
        /\ writer' = "answer" /\ verdict' = "refused"
        /\ UNCHANGED database
     \/ /\ conn
        /\ Execute(batch)
        /\ writer' = "answer"
     \/ /\ conn
        /\ writer' = "replay"
        /\ UNCHANGED <<verdict, database>>
  /\ UNCHANGED <<callers, counters, entry, queue, deferred, batch, generation, sent>>

(* run_alone, up to its reply.                                              *)
RunAlone ==
  /\ writer = "replay"
  /\ Execute(<<Head(batch)>>)
  /\ writer' = "replied"
  /\ UNCHANGED <<callers, counters, entry, queue, deferred, batch, generation, sent>>

(* run_one, up to its reply.                                                *)
RunOne ==
  /\ writer = "one"
  /\ \/ /\ Stale(Head(batch)) \/ ~conn
        /\ verdict' = "refused"
        /\ UNCHANGED database
     \/ /\ ~Stale(Head(batch)) /\ conn
        /\ Execute(batch)
  /\ writer' = "answer"
  /\ UNCHANGED <<callers, counters, entry, queue, deferred, batch, generation, sent>>

(* The replies, one at a time, in the order of the jobs.                    *)
Answer ==
  /\ writer \in {"answer", "replied"}
  /\ Resolve(Head(batch), verdict)
  /\ batch' = Tail(batch)
  /\ writer' = IF Len(batch) = 1 THEN "idle"
               ELSE IF writer = "replied" THEN "replay" ELSE "answer"
  /\ UNCHANGED <<entry, queue, deferred, verdict, database, generation, sent>>

(* run_replace: a replacement queued behind another one is refused.         *)
BeginReplace ==
  /\ writer = "replace"
  /\ IF Stale(Head(batch))
       THEN writer' = "answer" /\ verdict' = "refused"
       ELSE writer' = "drain" /\ UNCHANGED verdict
  /\ UNCHANGED <<callers, counters, entry, queue, deferred, batch, database, generation, sent>>

(* Everything queued is refused, until the queue is found empty.            *)
Drain ==
  /\ writer = "drain"
  /\ \/ /\ queue # <<>>
        /\ Resolve(Head(queue), "refused")
        /\ queue' = Tail(queue)
        /\ UNCHANGED writer
     \/ /\ queue = <<>>
        /\ writer' = "swap"
        /\ UNCHANGED <<callers, counters, queue>>
  /\ UNCHANGED <<entry, deferred, batch, verdict, database, generation, sent>>

(* The replacement itself (backup::restore, backup::apply_maintenance).     *)
(* Jobs may be built and queued all the while.  It puts another file in     *)
(* service, or fails with the old one open or with no file open at all.     *)
Replace ==
  /\ writer = "swap"
  /\ \/ /\ epoch' = epoch + 1
        /\ conn' = TRUE
        /\ log' = Append(log, Head(batch))
        /\ home' = [home EXCEPT ![Head(batch)] = epoch + 1]
        /\ verdict' = "committed"
     \/ /\ conn' \in BOOLEAN
        /\ UNCHANGED <<epoch, log, home>>
        /\ verdict' = "failed"
  /\ writer' = "bump"
  /\ UNCHANGED <<callers, counters, entry, queue, deferred, batch, generation, sent>>

(* The generation advances whether or not the replacement succeeded.        *)
Bump ==
  /\ writer = "bump"
  /\ generation' = generation + 1
  /\ writer' = "answer"
  /\ UNCHANGED <<callers, counters, entry, queue, deferred, batch, verdict, database, sent>>

(* Mutant: the closed database ends the loop with jobs still queued.        *)
WriterExitAtOnce ==
  /\ writer = "idle" /\ ~sender
  /\ writer' = "exited"
  /\ conn' = FALSE
  /\ UNCHANGED <<callers, counters, entry, queue, deferred, batch, verdict, epoch, log, home,
                 generation, sent>>

(* recv fails: the sender is gone and the queue is drained.  The connection *)
(* is dropped before the thread ends.                                       *)
WriterExit ==
  /\ writer = "idle"
  /\ deferred = NoJob /\ queue = <<>> /\ ~sender
  /\ writer' = "exited"
  /\ conn' = FALSE
  /\ UNCHANGED <<callers, counters, entry, queue, deferred, batch, verdict, epoch, log, home,
                 generation, sent>>

-----------------------------------------------------------------------------
(* Db::close.  Its last step, releasing the file after the writer is        *)
(* joined, is the subject of FileSwap.                                      *)

CloseBegin ==
  /\ ~closed
  /\ closed' = TRUE
  /\ UNCHANGED <<callers, counters, sender, sender_lock, thread, database, generation, sent>>

CloseTake ==
  /\ closed /\ sender
  /\ sender_lock = NoJob
  /\ sender' = FALSE
  /\ UNCHANGED <<callers, counters, closed, sender_lock, thread, database, generation, sent>>

-----------------------------------------------------------------------------
Submit(j) ==
  \/ Build(j) \/ Count(j) \/ RefuseClosed(j) \/ LockSender(j)
  \/ Send(j) \/ SendFails(j) \/ Withdraw(j) \/ Accept(j) \/ Receive(j)

WriterLoop ==
  \/ TakeFirst \/ Collect \/ BatchRefuse \/ RunBatch \/ RunAlone \/ RunOne
  \/ Tally \/ Answer \/ BeginReplace \/ Drain \/ Replace \/ Bump \/ WriterExit

Close == CloseBegin \/ CloseTake

(* Nothing is left to do.                                                   *)
Finished ==
  /\ writer = "exited"
  /\ \A j \in Jobs : pc[j] \in {"idle", "done", "rejected"}
  /\ UNCHANGED vars

Next ==
  \/ \E j \in Jobs : Submit(j)
  \/ WriterLoop
  \/ Close
  \/ Finished

(* The writer thread and a call in progress keep running; nothing obliges   *)
(* a caller to start, or the Hub to shut down.  The mutex may be handed to  *)
(* others again and again, so taking it needs strong fairness.              *)
Fairness ==
  /\ WF_vars(WriterLoop)
  /\ WF_vars(CloseTake)
  /\ \A j \in Jobs :
       /\ WF_vars(\/ Count(j) \/ RefuseClosed(j) \/ Send(j) \/ SendFails(j) \/ Withdraw(j)
                  \/ Accept(j) \/ Receive(j))
       /\ SF_vars(LockSender(j))

Spec == Init /\ [][Next]_vars /\ Fairness
-----------------------------------------------------------------------------
(* Properties.                                                              *)

(* A write lands in the database it was made for: a job that commits does   *)
(* so into the file that was in service when the caller built it, and a     *)
(* replacement replaces that file and no later one (the generation check of *)
(* run_batch, run_one and run_replace against the stamp of write).          *)
NoStraddle ==
  \A j \in Jobs : home[j] # 0 =>
    home[j] = IF kind[j] = "replace" THEN born[j] + 1 ELSE born[j]

(* The reply tells the truth: a caller told its write was committed has it  *)
(* in the database, one told otherwise does not (run_batch replies only     *)
(* after COMMIT, and a rolled-back batch is replayed job by job).           *)
AnswerIsTruth ==
  \A j \in Jobs : answer[j] # "none" => (answer[j] = "committed" <=> home[j] # 0)

(* The queue implements atomic writes: what its callers see is a write that *)
(* takes effect once, at one moment between the call and the return, in the *)
(* database it was called on, and a return that says so.                    *)
CallState(j) ==
  CASE pc[j] = "idle" -> "idle"
    [] pc[j] \in {"done", "rejected"} -> "returned"
    [] OTHER -> IF home[j] # 0 THEN "applied" ELSE "called"

Told(j) ==
  CASE pc[j] = "done" -> IF answer[j] = "committed" THEN "yes" ELSE "no"
    [] pc[j] = "rejected" -> "no"
    [] OTHER -> "none"

Abstract == INSTANCE AtomicWrites WITH
  state <- [j \in Jobs |-> CallState(j)],
  told <- [j \in Jobs |-> Told(j)]

ImplementsAtomicWrites == Abstract!Spec

(* Writes take effect at most once, in the order the channel took them: the *)
(* job set aside while a batch was collected is not overtaken, and a replay *)
(* neither repeats nor reorders.                                            *)
CommitOrder ==
  \A a, b \in DOMAIN log : a < b =>
    \E x, y \in DOMAIN sent : x < y /\ sent[x] = log[a] /\ sent[y] = log[b]

(* The calls counted in queued: from the increment in submit to the answer. *)
Outstanding ==
  {j \in Jobs : \/ pc[j] \in {"counted", "locked"}
                \/ pc[j] \in {"sent", "waiting"} /\ answer[j] = "none"}

Answered(status) == {j \in Jobs : answer[j] = status}

Total(status) == CASE status = "committed" -> committed
                   [] status = "refused"   -> refused
                   [] status = "failed"    -> failed

(* The job in resolve, once that many of its counters are updated.          *)
Ahead(updates) == IF tally >= updates THEN 1 ELSE 0

(* What a reader of the operation counters may find between any two of the  *)
(* updates that submit and resolve make (queue_stats).  The counters never  *)
(* trail the replies: a caller that has its answer finds it counted, in     *)
(* completed and under its status.  They are ahead of them by at most the   *)
(* one job in resolve, and exact while none is.  queued counts the calls    *)
(* from their increment in submit, those blocked on the full channel        *)
(* included, and never goes below zero, where the unsigned counter would    *)
(* wrap; accepted trails the channel by the calls about to count themselves.*)
Accounting ==
  /\ queued >= 0 /\ queued = Cardinality(Outstanding) - Ahead(1)
  /\ completed = Cardinality({j \in Jobs : answer[j] # "none"}) + Ahead(2)
  /\ \A status \in Outcomes :
       Total(status) = Cardinality(Answered(status)) + (IF status = ReplyStatus THEN Ahead(3) ELSE 0)
  /\ accepted = Cardinality({j \in Jobs : pc[j] \in {"waiting", "done"}})

(* Every call that was counted returns: no caller waits forever on the      *)
(* full channel, on the sender's mutex, on the reply, or on a shutdown that *)
(* started after it passed ensure_open.                                     *)
EveryCallReturns ==
  \A j \in Jobs : (pc[j] = "counted") ~> (pc[j] \in {"done", "rejected"})

(* Closing the database drains it: once close has begun, the writer stops,  *)
(* and stops with every job the channel took answered.                      *)
CloseDrains ==
  closed ~> (writer = "exited" /\ \A i \in DOMAIN sent : answer[sent[i]] # "none")
=============================================================================
