-------------------------- MODULE WriterQueueProofs --------------------------
(***************************************************************************)
(* The writer queue, for any number of calls, any queue capacity and any   *)
(* batch size: it keeps its types, no write straddles a replacement of the *)
(* database, replies are true, commits follow the channel, the counters    *)
(* lead the replies by one job at most, and what the callers see is        *)
(* AtomicWrites.                                                           *)
(*                                                                         *)
(* NoStraddle speaks of files, the code compares generations.  The bridge  *)
(* is StampInv: outside the moment between a replacement and the increment *)
(* that follows it, a call whose stamp is the current generation was built *)
(* on the file in service.  BatchInv says which jobs are in the writer's   *)
(* hands at each of its steps, and which of them it has compared.          *)
(*                                                                         *)
(* The rest is Way, the way of a call to its answer.  Order is relative to *)
(* Precedes, the order in which the channel took the jobs, which is strict *)
(* because it takes each once: the log comes before everything undecided,  *)
(* the batch before the job set aside, and that before the queue.  So an   *)
(* undecided job is not in the log, which is what makes a refusal true, an *)
(* answered one is in nobody's hands, which is what makes the counters     *)
(* right, and a commit only appends to the order.                          *)
(***************************************************************************)
EXTENDS WriterQueue, SequenceTheorems, FiniteSetTheorems, TLAPS

(* A call that has been built.                                              *)
Built(j) == pc[j] # "idle"

StampInv ==
  /\ \A j \in Jobs : Built(j) => stamp[j] <= generation
  /\ writer # "bump" => \A j \in Jobs : Built(j) /\ stamp[j] = generation => born[j] = epoch
  /\ \A j \in Jobs : ~Built(j) => home[j] = 0

(* The jobs in a sequence.                                                  *)
Elems(s) == {s[i] : i \in 1..Len(s)}

(* Only calls that were built travel to the writer.                         *)
HeldInv ==
  /\ \A j \in Elems(queue) : Built(j)
  /\ \A j \in Elems(batch) : Built(j)
  /\ deferred # NoJob => Built(deferred)

BatchInv ==
  /\ writer \notin {"idle", "exited"} => batch # <<>>
  /\ writer \in {"collect", "batch", "replay", "replied"} =>
       \A j \in Elems(batch) : kind[j] = "batch"
  /\ writer = "one" => Elems(batch) = {Head(batch)} /\ kind[Head(batch)] = "solo"
  /\ writer \in {"replace", "drain", "swap", "bump"} => kind[Head(batch)] = "replace"
  /\ writer \in {"replay", "replied"} => \A j \in Elems(batch) : stamp[j] = generation
  /\ writer \in {"drain", "swap"} => stamp[Head(batch)] = generation

Inv == TypeOK /\ StampInv /\ HeldInv /\ BatchInv /\ NoStraddle

-----------------------------------------------------------------------------
LEMMA NonEmpty ==
  ASSUME NEW s, Len(s) # 0
  PROVE  s # <<>>
<1> SUFFICES ASSUME s = <<>> PROVE Len(s) = 0
  OBVIOUS
<1> QED
  BY EmptySeq

(* The jobs of a sequence without its first one, of a longer one, of a      *)
(* single one, and of one without its i-th job.                             *)
LEMMA ElemsIn ==
  ASSUME NEW S, NEW s \in Seq(S)
  PROVE  Elems(s) \subseteq S /\ DOMAIN s = 1..Len(s) /\ Len(s) \in Nat
  BY DEF Elems

LEMMA ElemAt ==
  ASSUME NEW S, NEW s \in Seq(S), NEW i \in DOMAIN s
  PROVE  i \in 1..Len(s) /\ s[i] \in S
  OBVIOUS

LEMMA HeadTail ==
  ASSUME NEW S, NEW s \in Seq(S), s # <<>>
  PROVE  /\ Head(s) \in S /\ Head(s) \in Elems(s)
         /\ Tail(s) \in Seq(S) /\ Len(Tail(s)) = Len(s) - 1
         /\ Elems(Tail(s)) \subseteq Elems(s)
         /\ Len(s) # 1 => Tail(s) # <<>>
<1>1. /\ Head(s) \in S /\ Tail(s) \in Seq(S) /\ Len(Tail(s)) = Len(s) - 1
      /\ \A i \in 1..(Len(s) - 1) : Tail(s)[i] = s[i + 1]
  BY HeadTailProperties
<1>2. Len(s) \in Nat \ {0}
  BY EmptySeq
<1>3. Head(s) = s[1] /\ 1 \in 1..Len(s)
  BY <1>2
<1>4. Len(s) # 1 => Tail(s) # <<>>
  <2>1. Len(s) # 1 => Len(Tail(s)) # 0
    BY <1>1, <1>2
  <2> QED
    BY <2>1, NonEmpty
<1>5. ASSUME NEW i \in 1..(Len(s) - 1) PROVE Tail(s)[i] \in Elems(s)
  <2>1. i + 1 \in 1..Len(s)
    BY <1>2
  <2> QED
    BY <1>1, <2>1 DEF Elems
<1>6. Head(s) \in Elems(s)
  BY <1>3 DEF Elems
<1>7. Elems(Tail(s)) \subseteq Elems(s)
  BY <1>1, <1>5 DEF Elems
<1> QED
  BY <1>1, <1>4, <1>6, <1>7

LEMMA Longer ==
  ASSUME NEW S, NEW s \in Seq(S), NEW e \in S
  PROVE  /\ Append(s, e) \in Seq(S) /\ Append(s, e) # <<>>
         /\ Len(Append(s, e)) = Len(s) + 1
         /\ Elems(Append(s, e)) = Elems(s) \cup {e}
<1> DEFINE l == Append(s, e)
<1>1. /\ l \in Seq(S) /\ l # <<>> /\ Len(l) = Len(s) + 1
      /\ \A i \in 1..Len(s) : l[i] = s[i]
      /\ l[Len(s) + 1] = e
  BY AppendProperties
<1>2. Len(s) \in Nat
  OBVIOUS
<1> HIDE DEF l
<1>3. 1..Len(l) = 1..Len(s) \cup {Len(s) + 1}
  BY <1>1, <1>2
<1>4. Elems(l) = Elems(s) \cup {e}
  BY <1>1, <1>3 DEF Elems
<1> QED
  BY <1>1, <1>4 DEF l

LEMMA LongerHead ==
  ASSUME NEW S, NEW s \in Seq(S), NEW q \in Seq(S), q # <<>>
  PROVE  /\ Append(s, Head(q)) # <<>>
         /\ Elems(Append(s, Head(q))) = Elems(s) \cup {Head(q)}
<1>1. Head(q) \in S
  BY HeadTail
<1> QED
  BY <1>1, Longer

LEMMA Singleton ==
  ASSUME NEW S, NEW e \in S
  PROVE  /\ <<e>> \in Seq(S) /\ Len(<<e>>) = 1 /\ <<e>> # <<>>
         /\ Head(<<e>>) = e /\ Elems(<<e>>) = {e}
<1>1. <<e>> \in Seq(S) /\ Len(<<e>>) = 1 /\ <<e>>[1] = e /\ Head(<<e>>) = e
  OBVIOUS
<1>2. Elems(<<e>>) = {e}
  BY <1>1 DEF Elems
<1>3. <<e>> # <<>>
  BY <1>1, NonEmpty
<1> QED
  BY <1>1, <1>2, <1>3

(* run_batch's refusal of one job.                                          *)
Without(s, i) == SubSeq(s, 1, i - 1) \o SubSeq(s, i + 1, Len(s))

LEMMA RemoveOne ==
  ASSUME NEW S, NEW s \in Seq(S), NEW i \in 1..Len(s)
  PROVE  /\ Without(s, i) \in Seq(S) /\ Len(Without(s, i)) = Len(s) - 1
         /\ Elems(Without(s, i)) \subseteq Elems(s)
         /\ Len(s) # 1 => Without(s, i) # <<>>
<1> DEFINE r == Without(s, i)
           a == SubSeq(s, 1, i - 1)
           b == SubSeq(s, i + 1, Len(s))
<1>1. Len(s) \in Nat /\ \A k \in 1..Len(s) : s[k] \in S
  OBVIOUS
<1>2. /\ a \in Seq(S) /\ Len(a) = i - 1
      /\ \A k \in 1..(i - 1) : a[k] = s[k]
  BY <1>1, SubSeqProperties
<1>3. /\ b \in Seq(S) /\ Len(b) = Len(s) - i
      /\ \A k \in 1..(Len(s) - i) : b[k] = s[i + k]
  <2>1. \A k \in (i + 1)..Len(s) : s[k] \in S
    BY <1>1
  <2>2. /\ b \in Seq(S)
        /\ Len(b) = IF i + 1 <= Len(s) THEN Len(s) - (i + 1) + 1 ELSE 0
        /\ \A k \in 1..(Len(s) - (i + 1) + 1) : b[k] = s[(i + 1) + k - 1]
    BY <1>1, <2>1, SubSeqProperties
  <2> QED
    BY <1>1, <2>2
<1> HIDE DEF a, b
<1>4. /\ a \o b \in Seq(S) /\ Len(a \o b) = Len(s) - 1
      /\ \A k \in 1..Len(s) - 1 : (a \o b)[k] = IF k < i THEN a[k] ELSE b[k - (i - 1)]
  <2>1. /\ a \o b \in Seq(S) /\ Len(a \o b) = Len(a) + Len(b)
        /\ \A k \in 1..Len(a) + Len(b) :
             (a \o b)[k] = IF k <= Len(a) THEN a[k] ELSE b[k - Len(a)]
    BY <1>2, <1>3, ConcatProperties
  <2> QED
    BY <1>1, <1>2, <1>3, <2>1
<1>5. r = a \o b
  BY DEF Without, a, b
<1> HIDE DEF r
<1>6. ASSUME NEW k \in 1..(Len(s) - 1)
      PROVE  r[k] \in Elems(s)
  <2>1. CASE k < i
    <3>1. r[k] = s[k] /\ k \in 1..Len(s)
      BY <1>1, <1>2, <1>4, <1>5, <2>1
    <3> QED
      BY <3>1 DEF Elems
  <2>2. CASE ~(k < i)
    <3>1. k - (i - 1) \in 1..(Len(s) - i) /\ k + 1 \in 1..Len(s) /\ i + (k - (i - 1)) = k + 1
      BY <1>1, <2>2
    <3>2. r[k] = b[k - (i - 1)]
      BY <1>4, <1>5, <2>2
    <3> QED
      BY <1>3, <3>1, <3>2 DEF Elems
  <2> QED
    BY <2>1, <2>2
<1>7. r \in Seq(S) /\ Len(r) = Len(s) - 1
  BY <1>4, <1>5
<1>8. Len(s) # 1 => r # <<>>
  <2>1. Len(s) # 1 => Len(r) # 0
    BY <1>1, <1>7
  <2> QED
    BY <2>1, NonEmpty
<1>9. Elems(r) \subseteq Elems(s)
  BY <1>6, <1>7 DEF Elems
<1> QED
  BY <1>7, <1>8, <1>9 DEF r

LEMMA ResolveTypes ==
  ASSUME TypeOK, NEW j \in Jobs, NEW status \in Outcomes, Resolve(j, status)
  PROVE  /\ pc' \in [Jobs -> CallerStates] /\ kind' \in [Jobs -> Kinds]
         /\ stamp' \in [Jobs -> Nat] /\ born' \in [Jobs -> Nat]
         /\ answer' \in [Jobs -> Outcomes \cup {"none"}]
         /\ queued' \in Int /\ accepted' \in Nat /\ completed' \in Nat
         /\ committed' \in Nat /\ refused' \in Nat /\ failed' \in Nat /\ submit_failed' \in Nat
         /\ tally' \in 0..3
  BY DEF TypeOK, Resolve

LEMMA TallyTypes ==
  ASSUME TypeOK, Tally
  PROVE  /\ queued' \in Int /\ completed' \in Nat /\ tally' \in 0..3
         /\ committed' \in Nat /\ refused' \in Nat /\ failed' \in Nat
<1>1. /\ queued \in Int /\ completed \in Nat /\ tally \in 0..3
      /\ committed \in Nat /\ refused \in Nat /\ failed \in Nat
  BY DEF TypeOK
<1>2. CASE tally = 0
  BY <1>1, <1>2 DEF Tally
<1>3. CASE tally = 1
  BY <1>1, <1>3 DEF Tally
<1>4. CASE tally = 2
  BY <1>1, <1>4 DEF Tally
<1> QED BY <1>2, <1>3, <1>4 DEF Tally

(* A commit, and an execution, add jobs to the log and give them a home.    *)
LEMMA ExecuteTypes ==
  ASSUME TypeOK, NEW jobs \in Seq(Jobs), Execute(jobs)
  PROVE  /\ log' \in Seq(Jobs) /\ home' \in [Jobs -> Nat]
         /\ conn' = conn /\ epoch' = epoch
         /\ verdict' \in {"committed", "failed"}
<1>1. CASE Commit(jobs) /\ verdict' = "committed"
  <2>1. log' \in Seq(Jobs)
    BY <1>1, ConcatProperties DEF Commit, TypeOK
  <2>2. home' \in [Jobs -> Nat] /\ conn' = conn /\ epoch' = epoch
    BY <1>1 DEF Commit, TypeOK
  <2> QED
    BY <1>1, <2>1, <2>2
<1>2. CASE UNCHANGED database /\ verdict' = "failed"
  BY <1>2 DEF database, TypeOK
<1> QED
  BY <1>1, <1>2 DEF Execute

(* Every step keeps the types.                                              *)
LEMMA TypePreserved == Inv /\ [Next]_vars => TypeOK'
<1> SUFFICES ASSUME Inv, [Next]_vars PROVE TypeOK'
  OBVIOUS
<1> USE QueueAssumption DEF Inv, TypeOK, callers, counters, entry, thread, database,
    CallerStates, WriterStates, Kinds, Outcomes
<1>1. ASSUME NEW j \in Jobs, Build(j) PROVE TypeOK'
  BY <1>1 DEF Build, Goto
<1>2. ASSUME NEW j \in Jobs, Count(j) PROVE TypeOK'
  <2>1. pc' \in [Jobs -> CallerStates] /\ queued' \in Int
    BY <1>2 DEF Count, Goto
  <2> QED BY <1>2, <2>1 DEF Count
<1>3. ASSUME NEW j \in Jobs, RefuseClosed(j) PROVE TypeOK'
  BY <1>3 DEF RefuseClosed, Goto
<1>4. ASSUME NEW j \in Jobs, LockSender(j) PROVE TypeOK'
  BY <1>4 DEF LockSender, Goto
<1>5. ASSUME NEW j \in Jobs, Send(j) PROVE TypeOK'
  <2>1. queue' \in Seq(Jobs) /\ Len(queue') <= WRITER_QUEUE
    BY <1>5, Longer DEF Send
  <2>2. sent' \in Seq(Jobs)
    BY <1>5, Longer DEF Send
  <2> QED
    BY <1>5, <2>1, <2>2 DEF Send, Goto
<1>6. ASSUME NEW j \in Jobs, SendFails(j) PROVE TypeOK'
  BY <1>6 DEF SendFails, Goto
<1>24. ASSUME NEW j \in Jobs, Withdraw(j) PROVE TypeOK'
  BY <1>24 DEF Withdraw, Goto
<1>7. ASSUME NEW j \in Jobs, Accept(j) PROVE TypeOK'
  BY <1>7 DEF Accept, Goto
<1>8. ASSUME NEW j \in Jobs, Receive(j) PROVE TypeOK'
  BY <1>8 DEF Receive, Goto
<1>9. CASE TakeFirst
  <2>1. \A j \in Jobs : Entry(j) \in WriterStates
    BY DEF Entry
  <2>2. ASSUME NEW j \in Jobs, batch' = <<j>> PROVE batch' \in Seq(Jobs) /\ Len(batch') <= BATCH_OPS
    BY <2>2, Singleton
  <2>3. CASE TakeDeferred
    BY <1>9, <2>1, <2>2, <2>3 DEF TakeFirst, TakeDeferred
  <2>4. CASE TakeQueued
    <3>1. /\ Head(queue) \in Jobs
          /\ queue' \in Seq(Jobs) /\ Len(queue') <= WRITER_QUEUE
      BY <2>4, HeadTail DEF TakeQueued
    <3>2. batch' = <<Head(queue)>> /\ writer' = Entry(Head(queue)) /\ UNCHANGED deferred
      BY <2>4 DEF TakeQueued
    <3>3. batch' \in Seq(Jobs) /\ Len(batch') <= BATCH_OPS /\ writer' \in WriterStates
      BY <2>1, <2>2, <3>1, <3>2
    <3> QED
      BY <1>9, <3>1, <3>2, <3>3 DEF TakeFirst
  <2> QED
    BY <1>9, <2>3, <2>4 DEF TakeFirst
<1>10. CASE Collect
  <2>1. ASSUME queue # <<>>, queue' = Tail(queue)
        PROVE  queue' \in Seq(Jobs) /\ Len(queue') <= WRITER_QUEUE /\ Head(queue) \in Jobs
    <3>1. Tail(queue) \in Seq(Jobs) /\ Len(Tail(queue)) = Len(queue) - 1 /\ Head(queue) \in Jobs
      BY <2>1, HeadTail
    <3>2. Len(queue) \in Nat /\ Len(queue) <= WRITER_QUEUE
      BY ElemsIn
    <3> QED
      BY <2>1, <3>1, <3>2
  <2>2. CASE BatchRoom /\ queue # <<>> /\ Join
    <3>1. queue' \in Seq(Jobs) /\ Len(queue') <= WRITER_QUEUE /\ Head(queue) \in Jobs
      BY <2>1, <2>2 DEF Join
    <3>2. batch' \in Seq(Jobs) /\ Len(batch') = Len(batch) + 1
      BY <2>2, <3>1, Longer DEF Join
    <3>3. Len(batch') <= BATCH_OPS
      BY <2>2, <3>2 DEF BatchRoom
    <3> QED
      BY <1>10, <2>2, <3>1, <3>2, <3>3 DEF Collect, Join
  <2>3. CASE BatchRoom /\ queue # <<>> /\ SetAside
    <3>1. queue' \in Seq(Jobs) /\ Len(queue') <= WRITER_QUEUE /\ Head(queue) \in Jobs
      BY <2>1, <2>3 DEF SetAside
    <3> QED
      BY <1>10, <2>3, <3>1 DEF Collect, SetAside
  <2>4. CASE writer' = "batch" /\ UNCHANGED <<batch, queue, deferred>>
    BY <1>10, <2>4 DEF Collect
  <2> QED
    BY <1>10, <2>2, <2>3, <2>4 DEF Collect
<1>11. CASE BatchRefuse
  <2>1. PICK i \in DOMAIN batch :
          /\ Resolve(batch[i], "refused")
          /\ batch' = Without(batch, i)
          /\ writer' = IF Len(batch) = 1 THEN "idle" ELSE "batch"
    BY <1>11 DEF BatchRefuse, Without
  <2>2. i \in 1..Len(batch) /\ batch[i] \in Jobs
    <3>1. batch \in Seq(Jobs)
      OBVIOUS
    <3> QED
      BY <3>1, ElemAt
  <2>3. Len(Without(batch, i)) = Len(batch) - 1 /\ Without(batch, i) \in Seq(Jobs)
    BY <2>2, RemoveOne
  <2>4. batch' \in Seq(Jobs) /\ Len(batch') <= BATCH_OPS
    BY <2>1, <2>3
  <2>5. writer' \in WriterStates
    BY <2>1
  <2>6. UNCHANGED <<entry, queue, deferred, verdict, database, generation, sent>>
    BY <1>11 DEF BatchRefuse
  <2> QED
    BY <2>1, <2>2, <2>4, <2>5, <2>6, ResolveTypes
<1>12. CASE RunBatch
  <2>1. UNCHANGED <<callers, counters, entry, queue, deferred, batch, generation, sent>>
    BY <1>12 DEF RunBatch
  <2>2. ASSUME Execute(batch) PROVE /\ log' \in Seq(Jobs) /\ home' \in [Jobs -> Nat]
                                   /\ conn' \in BOOLEAN /\ epoch' \in Nat /\ verdict' \in Outcomes
    BY <2>2, ExecuteTypes
  <2>3. writer' \in WriterStates
    BY <1>12 DEF RunBatch
  <2>4. /\ log' \in Seq(Jobs) /\ home' \in [Jobs -> Nat]
        /\ conn' \in BOOLEAN /\ epoch' \in Nat /\ verdict' \in Outcomes
    BY <1>12, <2>2 DEF RunBatch
  <2> QED
    BY <2>1, <2>3, <2>4
<1>13. CASE RunAlone
  <2>1. UNCHANGED <<callers, counters, entry, queue, deferred, batch, generation, sent>>
    BY <1>13 DEF RunAlone
  <2>2. ASSUME Execute(<<Head(batch)>>) PROVE /\ log' \in Seq(Jobs) /\ home' \in [Jobs -> Nat]
                                   /\ conn' \in BOOLEAN /\ epoch' \in Nat /\ verdict' \in Outcomes
    <3>1. <<Head(batch)>> \in Seq(Jobs)
      BY <1>13, HeadTail, Singleton DEF RunAlone, BatchInv
    <3> QED
      BY <2>2, <3>1, ExecuteTypes
  <2>3. writer' \in WriterStates
    BY <1>13 DEF RunAlone
  <2>4. /\ log' \in Seq(Jobs) /\ home' \in [Jobs -> Nat]
        /\ conn' \in BOOLEAN /\ epoch' \in Nat /\ verdict' \in Outcomes
    BY <1>13, <2>2 DEF RunAlone
  <2> QED
    BY <2>1, <2>3, <2>4
<1>14. CASE RunOne
  <2>1. UNCHANGED <<callers, counters, entry, queue, deferred, batch, generation, sent>>
    BY <1>14 DEF RunOne
  <2>2. ASSUME Execute(batch) PROVE /\ log' \in Seq(Jobs) /\ home' \in [Jobs -> Nat]
                                   /\ conn' \in BOOLEAN /\ epoch' \in Nat /\ verdict' \in Outcomes
    BY <2>2, ExecuteTypes
  <2>3. writer' \in WriterStates
    BY <1>14 DEF RunOne
  <2>4. /\ log' \in Seq(Jobs) /\ home' \in [Jobs -> Nat]
        /\ conn' \in BOOLEAN /\ epoch' \in Nat /\ verdict' \in Outcomes
    BY <1>14, <2>2 DEF RunOne
  <2> QED
    BY <2>1, <2>3, <2>4
<1>25. CASE Tally
  <2>1. /\ queued' \in Int /\ completed' \in Nat /\ tally' \in 0..3
        /\ committed' \in Nat /\ refused' \in Nat /\ failed' \in Nat
    BY <1>25, TallyTypes
  <2>2. UNCHANGED <<callers, accepted, submit_failed, entry, thread, database, generation, sent>>
    BY <1>25 DEF Tally
  <2> QED BY <2>1, <2>2
<1>15. CASE Answer
  BY <1>15, HeadTail DEF Answer, Resolve, BatchInv
<1>16. CASE BeginReplace
  BY <1>16 DEF BeginReplace, Stale
<1>17. CASE Drain
  <2>1. CASE queue # <<>> /\ Resolve(Head(queue), "refused") /\ queue' = Tail(queue) /\ UNCHANGED writer
    <3>1. Head(queue) \in Jobs /\ queue' \in Seq(Jobs) /\ Len(queue') <= WRITER_QUEUE
      BY <2>1, HeadTail
    <3> QED
      BY <1>17, <2>1, <3>1, ResolveTypes DEF Drain
  <2>2. CASE queue = <<>> /\ writer' = "swap" /\ UNCHANGED <<callers, counters, queue>>
    BY <1>17, <2>2 DEF Drain
  <2> QED
    BY <1>17, <2>1, <2>2 DEF Drain
<1>18. CASE Replace
  <2>1. Head(batch) \in Jobs
    BY <1>18, HeadTail DEF Replace, BatchInv
  <2>2. /\ writer' \in WriterStates
        /\ UNCHANGED <<callers, counters, entry, queue, deferred, batch, generation, sent>>
    BY <1>18 DEF Replace
  <2>3. CASE /\ epoch' = epoch + 1 /\ conn' = TRUE
             /\ log' = Append(log, Head(batch))
             /\ home' = [home EXCEPT ![Head(batch)] = epoch + 1]
             /\ verdict' = "committed"
    <3>1. log' \in Seq(Jobs)
      BY <2>1, <2>3, Longer
    <3>2. home' \in [Jobs -> Nat]
      BY <2>1, <2>3
    <3>3. epoch' \in Nat /\ conn' \in BOOLEAN /\ verdict' \in Outcomes
      BY <2>3
    <3> QED
      BY <2>2, <3>1, <3>2, <3>3
  <2>4. CASE conn' \in BOOLEAN /\ UNCHANGED <<epoch, log, home>> /\ verdict' = "failed"
    BY <2>4, <2>2
  <2> QED
    BY <1>18, <2>3, <2>4 DEF Replace
<1>19. CASE Bump
  BY <1>19 DEF Bump
<1>20. CASE WriterExit
  BY <1>20 DEF WriterExit
<1>21. CASE CloseBegin
  BY <1>21 DEF CloseBegin
<1>22. CASE CloseTake
  BY <1>22 DEF CloseTake
<1>23. CASE UNCHANGED vars
  BY <1>23 DEF vars
<1> QED
  BY <1>1, <1>2, <1>3, <1>4, <1>5, <1>6, <1>7, <1>8, <1>9, <1>10, <1>11, <1>12, <1>13, <1>14,
     <1>15, <1>16, <1>17, <1>18, <1>19, <1>20, <1>21, <1>22, <1>23, <1>24, <1>25
     DEF Next, Submit, WriterLoop, Close, Finished

(* An execution gives a home, the file in service, to its jobs alone.       *)
LEMMA ExecuteHome ==
  ASSUME TypeOK, NEW jobs \in Seq(Jobs), Execute(jobs)
  PROVE  /\ epoch' = epoch
         /\ \A j \in Jobs : home'[j] = home[j] \/ (home'[j] = epoch /\ j \in Elems(jobs))
<1>1. CASE Commit(jobs)
  <2>1. \A j \in Jobs : home'[j] = IF \E i \in DOMAIN jobs : jobs[i] = j THEN epoch ELSE home[j]
    BY <1>1 DEF Commit
  <2>2. \A i \in DOMAIN jobs : jobs[i] \in Elems(jobs)
    BY ElemsIn DEF Elems
  <2> QED
    BY <1>1, <2>1, <2>2 DEF Commit
<1>2. CASE UNCHANGED database
  BY <1>2 DEF database
<1> QED
  BY <1>1, <1>2 DEF Execute

LEMMA ExecuteHomeOne ==
  ASSUME TypeOK, NEW j \in Jobs, Execute(<<j>>)
  PROVE  epoch' = epoch /\ \A k \in Jobs : home'[k] = home[k] \/ (home'[k] = epoch /\ k = j)
<1>1. <<j>> \in Seq(Jobs) /\ Elems(<<j>>) = {j}
  BY Singleton
<1>2. /\ epoch' = epoch
      /\ \A k \in Jobs : home'[k] = home[k] \/ (home'[k] = epoch /\ k \in Elems(<<j>>))
  BY <1>1, ExecuteHome
<1> QED
  BY <1>1, <1>2

(* Only a job built now carries the current stamp and file.                 *)
LEMMA StampPreserved == Inv /\ [Next]_vars => StampInv'
<1> SUFFICES ASSUME Inv, [Next]_vars PROVE StampInv'
  OBVIOUS
<1>0. /\ queue \in Seq(Jobs) /\ batch \in Seq(Jobs) /\ deferred \in Jobs \cup {NoJob}
      /\ Elems(queue) \subseteq Jobs /\ Elems(batch) \subseteq Jobs
      /\ pc \in [Jobs -> CallerStates] /\ stamp \in [Jobs -> Nat] /\ born \in [Jobs -> Nat]
      /\ home \in [Jobs -> Nat] /\ kind \in [Jobs -> Kinds] /\ generation \in Nat /\ epoch \in Nat
  BY ElemsIn DEF Inv, TypeOK
<1>a. StampInv /\ HeldInv /\ BatchInv
  BY DEF Inv
<1> USE <1>0, <1>a DEF StampInv, Built, callers, counters, entry, thread, database
<1>1. ASSUME NEW j \in Jobs, Build(j) PROVE StampInv'
  BY <1>1 DEF Build, Goto
<1>2. ASSUME NEW j \in Jobs, Count(j) PROVE StampInv'
  BY <1>2 DEF Count, Goto
<1>3. ASSUME NEW j \in Jobs, RefuseClosed(j) PROVE StampInv'
  BY <1>3 DEF RefuseClosed, Goto
<1>4. ASSUME NEW j \in Jobs, LockSender(j) PROVE StampInv'
  BY <1>4 DEF LockSender, Goto
<1>5. ASSUME NEW j \in Jobs, Send(j) PROVE StampInv'
  BY <1>5 DEF Send, Goto
<1>6. ASSUME NEW j \in Jobs, SendFails(j) PROVE StampInv'
  BY <1>6 DEF SendFails, Goto
<1>24. ASSUME NEW j \in Jobs, Withdraw(j) PROVE StampInv'
  BY <1>24 DEF Withdraw, Goto
<1>7. ASSUME NEW j \in Jobs, Accept(j) PROVE StampInv'
  BY <1>7 DEF Accept, Goto
<1>8. ASSUME NEW j \in Jobs, Receive(j) PROVE StampInv'
  BY <1>8 DEF Receive, Goto
<1>9. CASE TakeFirst
  BY <1>9 DEF TakeFirst, TakeDeferred, TakeQueued, Entry
<1>10. CASE Collect
  BY <1>10 DEF Collect, BatchRoom, Join, SetAside
<1>11. CASE BatchRefuse
  BY <1>11 DEF BatchRefuse, Resolve
<1>12. CASE RunBatch
  <2>1. UNCHANGED <<pc, kind, stamp, born, generation>> /\ writer' # "bump" /\ writer # "bump"
    BY <1>12 DEF RunBatch
  <2>2. ASSUME Execute(batch)
        PROVE  /\ epoch' = epoch
               /\ \A j \in Jobs : home'[j] = home[j] \/ (home'[j] = epoch /\ j \in Elems(batch))
    BY <2>2, ExecuteHome DEF Inv
  <2>3. epoch' = epoch /\ \A j \in Jobs : home'[j] = home[j] \/ j \in Elems(batch)
    BY <1>12, <2>2 DEF RunBatch
  <2> QED
    BY <2>1, <2>3 DEF HeldInv
<1>13. CASE RunAlone
  <2>1. UNCHANGED <<pc, kind, stamp, born, generation>> /\ writer' # "bump" /\ writer # "bump"
    BY <1>13 DEF RunAlone
  <2>2. ASSUME Execute(<<Head(batch)>>)
        PROVE  /\ epoch' = epoch
               /\ \A j \in Jobs : home'[j] = home[j] \/ (home'[j] = epoch /\ j \in Elems(batch))
    <3>1. batch # <<>>
      BY <1>13 DEF RunAlone, Inv, BatchInv
    <3>2. Head(batch) \in Jobs /\ Head(batch) \in Elems(batch)
      BY <3>1, HeadTail
    <3>3. /\ epoch' = epoch
          /\ \A j \in Jobs : home'[j] = home[j] \/ (home'[j] = epoch /\ j = Head(batch))
      BY <2>2, <3>2, ExecuteHomeOne DEF Inv
    <3> QED
      BY <3>2, <3>3
  <2>3. epoch' = epoch /\ \A j \in Jobs : home'[j] = home[j] \/ j \in Elems(batch)
    BY <1>13, <2>2 DEF RunAlone
  <2> QED
    BY <2>1, <2>3 DEF HeldInv
<1>14. CASE RunOne
  <2>1. UNCHANGED <<pc, kind, stamp, born, generation>> /\ writer' # "bump" /\ writer # "bump"
    BY <1>14 DEF RunOne
  <2>2. ASSUME Execute(batch)
        PROVE  /\ epoch' = epoch
               /\ \A j \in Jobs : home'[j] = home[j] \/ (home'[j] = epoch /\ j \in Elems(batch))
    BY <2>2, ExecuteHome DEF Inv
  <2>3. epoch' = epoch /\ \A j \in Jobs : home'[j] = home[j] \/ j \in Elems(batch)
    BY <1>14, <2>2 DEF RunOne
  <2> QED
    BY <2>1, <2>3 DEF HeldInv
<1>25. CASE Tally
  BY <1>25 DEF Tally
<1>15. CASE Answer
  BY <1>15 DEF Answer, Resolve
<1>16. CASE BeginReplace
  BY <1>16 DEF BeginReplace, Stale
<1>17. CASE Drain
  BY <1>17 DEF Drain, Resolve
<1>18. CASE Replace
  <2>1. UNCHANGED <<pc, stamp, born, generation>> /\ writer' = "bump"
    BY <1>18 DEF Replace
  <2>2. Head(batch) \in Jobs /\ Built(Head(batch))
    BY <1>18, HeadTail DEF Replace, BatchInv, HeldInv
  <2>3. \A j \in Jobs : home'[j] = home[j] \/ j = Head(batch)
    BY <1>18, <2>2 DEF Replace
  <2> QED
    BY <2>1, <2>2, <2>3
<1>19. CASE Bump
  BY <1>19 DEF Bump
<1>20. CASE WriterExit
  BY <1>20 DEF WriterExit
<1>21. CASE CloseBegin
  BY <1>21 DEF CloseBegin
<1>22. CASE CloseTake
  BY <1>22 DEF CloseTake
<1>23. CASE UNCHANGED vars
  BY <1>23 DEF vars
<1> QED
  BY <1>1, <1>2, <1>3, <1>4, <1>5, <1>6, <1>7, <1>8, <1>9, <1>10, <1>11, <1>12, <1>13, <1>14,
     <1>15, <1>16, <1>17, <1>18, <1>19, <1>20, <1>21, <1>22, <1>23, <1>24, <1>25
     DEF Next, Submit, WriterLoop, Close, Finished

(* Only built calls reach the writer.                                       *)
LEMMA HeldPreserved == Inv /\ [Next]_vars => HeldInv'
<1> SUFFICES ASSUME Inv, [Next]_vars PROVE HeldInv'
  OBVIOUS
<1>0. /\ queue \in Seq(Jobs) /\ batch \in Seq(Jobs) /\ deferred \in Jobs \cup {NoJob}
      /\ Elems(queue) \subseteq Jobs /\ Elems(batch) \subseteq Jobs
      /\ pc \in [Jobs -> CallerStates] /\ stamp \in [Jobs -> Nat] /\ born \in [Jobs -> Nat]
      /\ home \in [Jobs -> Nat] /\ kind \in [Jobs -> Kinds] /\ generation \in Nat /\ epoch \in Nat
  BY ElemsIn DEF Inv, TypeOK
<1>a. HeldInv /\ BatchInv
  BY DEF Inv
<1> USE <1>0, <1>a DEF HeldInv, Built, callers, counters, entry, thread, database
<1>1. ASSUME NEW j \in Jobs, Build(j) PROVE HeldInv'
  BY <1>1 DEF Build, Goto
<1>2. ASSUME NEW j \in Jobs, Count(j) PROVE HeldInv'
  BY <1>2 DEF Count, Goto
<1>3. ASSUME NEW j \in Jobs, RefuseClosed(j) PROVE HeldInv'
  BY <1>3 DEF RefuseClosed, Goto
<1>4. ASSUME NEW j \in Jobs, LockSender(j) PROVE HeldInv'
  BY <1>4 DEF LockSender, Goto
<1>5. ASSUME NEW j \in Jobs, Send(j) PROVE HeldInv'
  <2>1. Elems(queue') = Elems(queue) \cup {j}
    BY <1>5, Longer DEF Send
  <2>2. UNCHANGED <<batch, deferred>> /\ pc' = [pc EXCEPT ![j] = "sent"]
    BY <1>5 DEF Send, Goto
  <2> QED
    BY <2>1, <2>2
<1>6. ASSUME NEW j \in Jobs, SendFails(j) PROVE HeldInv'
  BY <1>6 DEF SendFails, Goto
<1>24. ASSUME NEW j \in Jobs, Withdraw(j) PROVE HeldInv'
  BY <1>24 DEF Withdraw, Goto
<1>7. ASSUME NEW j \in Jobs, Accept(j) PROVE HeldInv'
  BY <1>7 DEF Accept, Goto
<1>8. ASSUME NEW j \in Jobs, Receive(j) PROVE HeldInv'
  BY <1>8 DEF Receive, Goto
<1>9. CASE TakeFirst
  <2>1. CASE TakeDeferred
    <3>1. Elems(batch') = {deferred}
      BY <2>1, Singleton DEF TakeDeferred
    <3> QED
      BY <1>9, <2>1, <3>1 DEF TakeFirst, TakeDeferred
  <2>2. CASE TakeQueued
    <3>1. /\ Elems(queue') \subseteq Elems(queue) /\ Elems(batch') = {Head(queue)}
          /\ Head(queue) \in Elems(queue)
      BY <2>2, HeadTail, Singleton DEF TakeQueued
    <3> QED
      BY <1>9, <2>2, <3>1 DEF TakeFirst, TakeQueued
  <2> QED
    BY <1>9, <2>1, <2>2 DEF TakeFirst
<1>10. CASE Collect
  <2>1. ASSUME queue # <<>>, queue' = Tail(queue)
        PROVE  /\ Elems(queue') \subseteq Elems(queue)
               /\ Head(queue) \in Elems(queue) /\ Head(queue) \in Jobs
    BY <2>1, HeadTail
  <2>2. CASE queue # <<>> /\ Join
    <3>1. Elems(batch') = Elems(batch) \cup {Head(queue)}
      BY <2>1, <2>2, Longer DEF Join
    <3>2. UNCHANGED <<pc, deferred>> /\ queue' = Tail(queue)
      BY <1>10, <2>2 DEF Collect, Join
    <3> QED
      BY <2>1, <2>2, <3>1, <3>2
  <2>3. CASE queue # <<>> /\ SetAside
    <3>1. UNCHANGED <<pc, batch>> /\ queue' = Tail(queue) /\ deferred' = Head(queue)
      BY <1>10, <2>3 DEF Collect, SetAside
    <3> QED
      BY <2>1, <2>3, <3>1
  <2>4. CASE UNCHANGED <<batch, queue, deferred>>
    BY <1>10, <2>4 DEF Collect
  <2> QED
    BY <1>10, <2>2, <2>3, <2>4 DEF Collect
<1>11. CASE BatchRefuse
  <2>1. PICK i \in DOMAIN batch : Resolve(batch[i], "refused") /\ batch' = Without(batch, i)
    BY <1>11 DEF BatchRefuse, Without
  <2>2. Elems(batch') \subseteq Elems(batch)
    BY <2>1, RemoveOne, ElemsIn
  <2>3. UNCHANGED <<pc, queue, deferred>>
    BY <1>11, <2>1 DEF BatchRefuse, Resolve
  <2> QED
    BY <2>2, <2>3
<1>12. CASE RunBatch
  BY <1>12 DEF RunBatch, Execute, Commit, Live, Stale
<1>13. CASE RunAlone
  BY <1>13 DEF RunAlone, Execute, Commit
<1>14. CASE RunOne
  BY <1>14 DEF RunOne, Execute, Commit, Stale
<1>25. CASE Tally
  BY <1>25 DEF Tally
<1>15. CASE Answer
  <2>1. Elems(batch') \subseteq Elems(batch)
    BY <1>15, HeadTail DEF Answer, BatchInv
  <2>2. UNCHANGED <<pc, queue, deferred>>
    BY <1>15 DEF Answer, Resolve
  <2> QED
    BY <2>1, <2>2
<1>16. CASE BeginReplace
  BY <1>16 DEF BeginReplace, Stale
<1>17. CASE Drain
  <2>1. UNCHANGED <<pc, batch, deferred>>
    BY <1>17 DEF Drain, Resolve
  <2>2. Elems(queue') \subseteq Elems(queue)
    BY <1>17, HeadTail DEF Drain
  <2> QED
    BY <2>1, <2>2
<1>18. CASE Replace
  BY <1>18 DEF Replace
<1>19. CASE Bump
  BY <1>19 DEF Bump
<1>20. CASE WriterExit
  BY <1>20 DEF WriterExit
<1>21. CASE CloseBegin
  BY <1>21 DEF CloseBegin
<1>22. CASE CloseTake
  BY <1>22 DEF CloseTake
<1>23. CASE UNCHANGED vars
  BY <1>23 DEF vars
<1> QED
  BY <1>1, <1>2, <1>3, <1>4, <1>5, <1>6, <1>7, <1>8, <1>9, <1>10, <1>11, <1>12, <1>13, <1>14,
     <1>15, <1>16, <1>17, <1>18, <1>19, <1>20, <1>21, <1>22, <1>23, <1>24, <1>25
     DEF Next, Submit, WriterLoop, Close, Finished

(* The writer holds what its step says it holds.                            *)
LEMMA BatchPreserved == Inv /\ [Next]_vars => BatchInv'
<1> SUFFICES ASSUME Inv, [Next]_vars PROVE BatchInv'
  OBVIOUS
<1>0. /\ queue \in Seq(Jobs) /\ batch \in Seq(Jobs) /\ deferred \in Jobs \cup {NoJob}
      /\ Elems(queue) \subseteq Jobs /\ Elems(batch) \subseteq Jobs
      /\ pc \in [Jobs -> CallerStates] /\ stamp \in [Jobs -> Nat] /\ born \in [Jobs -> Nat]
      /\ home \in [Jobs -> Nat] /\ kind \in [Jobs -> Kinds] /\ generation \in Nat /\ epoch \in Nat
  BY ElemsIn DEF Inv, TypeOK
<1>a. BatchInv /\ HeldInv
  BY DEF Inv
<1> USE <1>0, <1>a DEF BatchInv, Built, callers, counters, entry, thread, database
<1>1. ASSUME NEW j \in Jobs, Build(j) PROVE BatchInv'
  <2>1. \A k \in Jobs : Built(k) => stamp'[k] = stamp[k]
    BY <1>1 DEF Build, Goto
  <2>2. UNCHANGED <<batch, writer, kind, generation>>
    BY <1>1 DEF Build
  <2>3. batch # <<>> => Head(batch) \in Elems(batch)
    BY HeadTail
  <2> QED
    BY <2>1, <2>2, <2>3 DEF HeldInv
<1>2. ASSUME NEW j \in Jobs, Count(j) PROVE BatchInv'
  BY <1>2 DEF Count, Goto
<1>3. ASSUME NEW j \in Jobs, RefuseClosed(j) PROVE BatchInv'
  BY <1>3 DEF RefuseClosed, Goto
<1>4. ASSUME NEW j \in Jobs, LockSender(j) PROVE BatchInv'
  BY <1>4 DEF LockSender, Goto
<1>5. ASSUME NEW j \in Jobs, Send(j) PROVE BatchInv'
  BY <1>5 DEF Send, Goto
<1>6. ASSUME NEW j \in Jobs, SendFails(j) PROVE BatchInv'
  BY <1>6 DEF SendFails, Goto
<1>24. ASSUME NEW j \in Jobs, Withdraw(j) PROVE BatchInv'
  BY <1>24 DEF Withdraw, Goto
<1>7. ASSUME NEW j \in Jobs, Accept(j) PROVE BatchInv'
  BY <1>7 DEF Accept, Goto
<1>8. ASSUME NEW j \in Jobs, Receive(j) PROVE BatchInv'
  BY <1>8 DEF Receive, Goto
<1>9. CASE TakeFirst
  <2>1. UNCHANGED <<kind, stamp, generation>>
    BY <1>9 DEF TakeFirst
  <2>2. ASSUME NEW j \in Jobs, batch' = <<j>>, writer' = Entry(j) PROVE BatchInv'
    <3>1. batch' # <<>> /\ Elems(batch') = {j} /\ Head(batch') = j
      BY <2>2, Singleton
    <3>2. \/ kind[j] = "batch" /\ writer' = "collect"
          \/ kind[j] = "solo" /\ writer' = "one"
          \/ kind[j] = "replace" /\ writer' = "replace"
      BY <2>2 DEF Entry, Kinds
    <3> QED
      BY <2>1, <3>1, <3>2
  <2>3. CASE TakeDeferred
    BY <2>2, <2>3 DEF TakeDeferred
  <2>4. CASE TakeQueued
    BY <2>2, <2>4, HeadTail DEF TakeQueued
  <2> QED
    BY <1>9, <2>3, <2>4 DEF TakeFirst
<1>10. CASE Collect
  <2>1. UNCHANGED <<kind, stamp, generation>> /\ writer = "collect"
    BY <1>10 DEF Collect
  <2>2. CASE queue # <<>> /\ Join
    <3>1. Elems(batch') = Elems(batch) \cup {Head(queue)} /\ batch' # <<>>
      <4>1. batch' = Append(batch, Head(queue))
        BY <2>2 DEF Join
      <4> QED
        BY <2>2, <4>1, LongerHead
    <3>2. kind[Head(queue)] = "batch" /\ writer' = "collect"
      BY <2>1, <2>2 DEF Join
    <3> QED
      BY <2>1, <3>1, <3>2
  <2>3. CASE writer' = "batch" /\ UNCHANGED batch
    BY <2>1, <2>3
  <2> QED
    BY <1>10, <2>2, <2>3 DEF Collect, SetAside
<1>11. CASE BatchRefuse
  <2>1. PICK i \in DOMAIN batch :
          /\ Resolve(batch[i], "refused")
          /\ batch' = Without(batch, i)
          /\ writer' = IF Len(batch) = 1 THEN "idle" ELSE "batch"
    BY <1>11 DEF BatchRefuse, Without
  <2>2. Elems(batch') \subseteq Elems(batch) /\ (Len(batch) # 1 => batch' # <<>>)
    BY <2>1, RemoveOne, ElemsIn
  <2>3. UNCHANGED <<kind, stamp, generation>> /\ writer = "batch"
    BY <1>11, <2>1 DEF BatchRefuse, Resolve
  <2> QED
    BY <2>1, <2>2, <2>3
<1>12. CASE RunBatch
  <2>1. UNCHANGED <<kind, stamp, generation, batch>> /\ writer' \in {"answer", "replay"} /\ writer = "batch"
    BY <1>12 DEF RunBatch
  <2>2. \A j \in Elems(batch) : stamp[j] = generation
    BY <1>12, ElemsIn DEF RunBatch, Live, Stale, Elems
  <2> QED
    BY <2>1, <2>2
<1>13. CASE RunAlone
  BY <1>13 DEF RunAlone, Execute, Commit
<1>14. CASE RunOne
  BY <1>14 DEF RunOne, Execute, Commit, Stale
<1>25. CASE Tally
  BY <1>25 DEF Tally
<1>15. CASE Answer
  <2>1. Elems(batch') \subseteq Elems(batch) /\ (Len(batch) # 1 => batch' # <<>>)
    BY <1>15, HeadTail DEF Answer
  <2>2. UNCHANGED <<kind, stamp, generation>>
    BY <1>15 DEF Answer, Resolve
  <2>3. /\ writer \in {"answer", "replied"}
        /\ writer' = IF Len(batch) = 1 THEN "idle"
                     ELSE IF writer = "replied" THEN "replay" ELSE "answer"
    BY <1>15 DEF Answer
  <2> QED
    BY <2>1, <2>2, <2>3
<1>16. CASE BeginReplace
  BY <1>16 DEF BeginReplace, Stale
<1>17. CASE Drain
  BY <1>17 DEF Drain, Resolve
<1>18. CASE Replace
  BY <1>18 DEF Replace
<1>19. CASE Bump
  BY <1>19 DEF Bump
<1>20. CASE WriterExit
  BY <1>20 DEF WriterExit
<1>21. CASE CloseBegin
  BY <1>21 DEF CloseBegin
<1>22. CASE CloseTake
  BY <1>22 DEF CloseTake
<1>23. CASE UNCHANGED vars
  BY <1>23 DEF vars
<1> QED
  BY <1>1, <1>2, <1>3, <1>4, <1>5, <1>6, <1>7, <1>8, <1>9, <1>10, <1>11, <1>12, <1>13, <1>14,
     <1>15, <1>16, <1>17, <1>18, <1>19, <1>20, <1>21, <1>22, <1>23, <1>24, <1>25
     DEF Next, Submit, WriterLoop, Close, Finished

(* No commit lands in another file than its caller's.                       *)
LEMMA StraddlePreserved == Inv /\ [Next]_vars => NoStraddle'
<1> SUFFICES ASSUME Inv, [Next]_vars PROVE NoStraddle'
  OBVIOUS
<1>0. /\ queue \in Seq(Jobs) /\ batch \in Seq(Jobs) /\ deferred \in Jobs \cup {NoJob}
      /\ Elems(queue) \subseteq Jobs /\ Elems(batch) \subseteq Jobs
      /\ pc \in [Jobs -> CallerStates] /\ stamp \in [Jobs -> Nat] /\ born \in [Jobs -> Nat]
      /\ home \in [Jobs -> Nat] /\ kind \in [Jobs -> Kinds] /\ generation \in Nat /\ epoch \in Nat
  BY ElemsIn DEF Inv, TypeOK
<1>a. NoStraddle /\ StampInv /\ HeldInv /\ BatchInv
  BY DEF Inv
<1> USE <1>0, <1>a DEF NoStraddle, Built, callers, counters, entry, thread, database
<1>1. ASSUME NEW j \in Jobs, Build(j) PROVE NoStraddle'
  BY <1>1 DEF Build, Goto, StampInv
<1>2. ASSUME NEW j \in Jobs, Count(j) PROVE NoStraddle'
  BY <1>2 DEF Count, Goto
<1>3. ASSUME NEW j \in Jobs, RefuseClosed(j) PROVE NoStraddle'
  BY <1>3 DEF RefuseClosed, Goto
<1>4. ASSUME NEW j \in Jobs, LockSender(j) PROVE NoStraddle'
  BY <1>4 DEF LockSender, Goto
<1>5. ASSUME NEW j \in Jobs, Send(j) PROVE NoStraddle'
  BY <1>5 DEF Send, Goto
<1>6. ASSUME NEW j \in Jobs, SendFails(j) PROVE NoStraddle'
  BY <1>6 DEF SendFails, Goto
<1>24. ASSUME NEW j \in Jobs, Withdraw(j) PROVE NoStraddle'
  BY <1>24 DEF Withdraw, Goto
<1>7. ASSUME NEW j \in Jobs, Accept(j) PROVE NoStraddle'
  BY <1>7 DEF Accept, Goto
<1>8. ASSUME NEW j \in Jobs, Receive(j) PROVE NoStraddle'
  BY <1>8 DEF Receive, Goto
<1>9. CASE TakeFirst
  BY <1>9 DEF TakeFirst, TakeDeferred, TakeQueued, Entry
<1>10. CASE Collect
  BY <1>10 DEF Collect, BatchRoom, Join, SetAside
<1>11. CASE BatchRefuse
  BY <1>11 DEF BatchRefuse, Resolve
<1>12. CASE RunBatch
  <2>1. UNCHANGED <<pc, kind, stamp, born, generation>> /\ writer' # "bump" /\ writer # "bump"
    BY <1>12 DEF RunBatch
  <2>2. ASSUME Execute(batch)
        PROVE  /\ epoch' = epoch
               /\ \A j \in Jobs : home'[j] = home[j] \/ (home'[j] = epoch /\ j \in Elems(batch))
    BY <2>2, ExecuteHome DEF Inv
  <2>3. ASSUME ~UNCHANGED home
        PROVE  /\ Execute(batch)
               /\ \A j \in Elems(batch) : stamp[j] = generation /\ kind[j] # "replace"
    <3>1. writer = "batch" /\ Live /\ Execute(batch)
      BY <1>12, <2>3 DEF RunBatch
    <3>2. \A j \in Elems(batch) : stamp[j] = generation
      BY <3>1, ElemsIn DEF Live, Stale, Elems
    <3> QED
      BY <3>1, <3>2 DEF BatchInv
  <2>4. CASE UNCHANGED home
    BY <2>1, <2>4
  <2>5. CASE ~UNCHANGED home
    <3>1. \A j \in Elems(batch) : born[j] = epoch /\ kind[j] # "replace"
      BY <2>1, <2>3, <2>5 DEF StampInv, HeldInv
    <3> QED
      BY <2>1, <2>2, <2>3, <2>5, <3>1
  <2> QED
    BY <2>4, <2>5
<1>13. CASE RunAlone
  <2>1. UNCHANGED <<pc, kind, stamp, born, generation>> /\ writer' # "bump" /\ writer # "bump"
    BY <1>13 DEF RunAlone
  <2>2. ASSUME Execute(<<Head(batch)>>)
        PROVE  /\ epoch' = epoch
               /\ \A j \in Jobs : home'[j] = home[j] \/ (home'[j] = epoch /\ j \in Elems(batch))
    <3>1. batch # <<>>
      BY <1>13 DEF RunAlone, Inv, BatchInv
    <3>2. Head(batch) \in Jobs /\ Head(batch) \in Elems(batch)
      BY <3>1, HeadTail
    <3>3. /\ epoch' = epoch
          /\ \A j \in Jobs : home'[j] = home[j] \/ (home'[j] = epoch /\ j = Head(batch))
      BY <2>2, <3>2, ExecuteHomeOne DEF Inv
    <3> QED
      BY <3>2, <3>3
  <2>3. ASSUME ~UNCHANGED home
        PROVE  /\ Execute(<<Head(batch)>>)
               /\ \A j \in Elems(batch) : stamp[j] = generation /\ kind[j] # "replace"
    BY <1>13, <2>3 DEF RunAlone, BatchInv
  <2>4. CASE UNCHANGED home
    BY <2>1, <2>4
  <2>5. CASE ~UNCHANGED home
    <3>1. \A j \in Elems(batch) : born[j] = epoch /\ kind[j] # "replace"
      BY <2>1, <2>3, <2>5 DEF StampInv, HeldInv
    <3> QED
      BY <2>1, <2>2, <2>3, <2>5, <3>1
  <2> QED
    BY <2>4, <2>5
<1>14. CASE RunOne
  <2>1. UNCHANGED <<pc, kind, stamp, born, generation>> /\ writer' # "bump" /\ writer # "bump"
    BY <1>14 DEF RunOne
  <2>2. ASSUME Execute(batch)
        PROVE  /\ epoch' = epoch
               /\ \A j \in Jobs : home'[j] = home[j] \/ (home'[j] = epoch /\ j \in Elems(batch))
    BY <2>2, ExecuteHome DEF Inv
  <2>3. ASSUME ~UNCHANGED home
        PROVE  /\ Execute(batch)
               /\ \A j \in Elems(batch) : stamp[j] = generation /\ kind[j] # "replace"
    BY <1>14, <2>3 DEF RunOne, Stale, BatchInv
  <2>4. CASE UNCHANGED home
    BY <2>1, <2>4
  <2>5. CASE ~UNCHANGED home
    <3>1. \A j \in Elems(batch) : born[j] = epoch /\ kind[j] # "replace"
      BY <2>1, <2>3, <2>5 DEF StampInv, HeldInv
    <3> QED
      BY <2>1, <2>2, <2>3, <2>5, <3>1
  <2> QED
    BY <2>4, <2>5
<1>25. CASE Tally
  BY <1>25 DEF Tally
<1>15. CASE Answer
  BY <1>15 DEF Answer, Resolve
<1>16. CASE BeginReplace
  BY <1>16 DEF BeginReplace, Stale
<1>17. CASE Drain
  BY <1>17 DEF Drain, Resolve
<1>18. CASE Replace
  <2>1. UNCHANGED <<kind, born>>
    BY <1>18 DEF Replace
  <2>2. /\ Head(batch) \in Jobs /\ Built(Head(batch))
        /\ kind[Head(batch)] = "replace" /\ born[Head(batch)] = epoch
    BY <1>18, HeadTail DEF Replace, BatchInv, HeldInv, StampInv
  <2>3. \A j \in Jobs : home'[j] = home[j] \/ (j = Head(batch) /\ home'[j] = epoch + 1)
    BY <1>18, <2>2 DEF Replace
  <2> QED
    BY <2>1, <2>2, <2>3
<1>19. CASE Bump
  BY <1>19 DEF Bump
<1>20. CASE WriterExit
  BY <1>20 DEF WriterExit
<1>21. CASE CloseBegin
  BY <1>21 DEF CloseBegin
<1>22. CASE CloseTake
  BY <1>22 DEF CloseTake
<1>23. CASE UNCHANGED vars
  BY <1>23 DEF vars
<1> QED
  BY <1>1, <1>2, <1>3, <1>4, <1>5, <1>6, <1>7, <1>8, <1>9, <1>10, <1>11, <1>12, <1>13, <1>14,
     <1>15, <1>16, <1>17, <1>18, <1>19, <1>20, <1>21, <1>22, <1>23, <1>24, <1>25
     DEF Next, Submit, WriterLoop, Close, Finished

(* The invariant holds in every reachable state.                            *)
THEOREM Invariance == Spec => []Inv
<1>1. Init => Inv
  <2> SUFFICES ASSUME Init PROVE Inv
    OBVIOUS
  <2>1. TypeOK
    <3>1. queue = <<>> /\ batch = <<>> /\ log = <<>> /\ sent = <<>>
      BY DEF Init
    <3>2. /\ queue \in Seq(Jobs) /\ Len(queue) = 0 /\ batch \in Seq(Jobs) /\ Len(batch) = 0
          /\ log \in Seq(Jobs) /\ sent \in Seq(Jobs)
      BY <3>1, EmptySeq
    <3>3. Len(queue) <= WRITER_QUEUE /\ Len(batch) <= BATCH_OPS
      BY <3>2, QueueAssumption
    <3>4. /\ pc \in [Jobs -> CallerStates] /\ kind \in [Jobs -> Kinds]
          /\ stamp \in [Jobs -> Nat] /\ born \in [Jobs -> Nat] /\ home \in [Jobs -> Nat]
          /\ answer \in [Jobs -> Outcomes \cup {"none"}]
      BY DEF Init, CallerStates
    <3>5. /\ closed \in BOOLEAN /\ sender \in BOOLEAN /\ conn \in BOOLEAN
          /\ sender_lock \in Jobs \cup {NoJob} /\ deferred \in Jobs \cup {NoJob}
          /\ writer \in WriterStates /\ verdict \in Outcomes
      BY DEF Init, WriterStates, Outcomes
    <3>6. /\ generation \in Nat /\ epoch \in Nat
          /\ queued \in Int /\ accepted \in Nat /\ completed \in Nat
          /\ committed \in Nat /\ refused \in Nat /\ failed \in Nat /\ submit_failed \in Nat
          /\ tally \in 0..3
      BY DEF Init
    <3> QED
      BY <3>2, <3>3, <3>4, <3>5, <3>6 DEF TypeOK
  <2>2. StampInv /\ NoStraddle
    BY DEF Init, StampInv, NoStraddle, Built
  <2>3. Elems(queue) = {} /\ Elems(batch) = {}
    <3>1. Len(<<>>) = 0 /\ 1..0 = {}
      BY EmptySeq
    <3> QED
      BY <3>1 DEF Init, Elems
  <2>4. HeldInv /\ BatchInv
    BY <2>3 DEF Init, HeldInv, BatchInv
  <2> QED
    BY <2>1, <2>2, <2>4 DEF Inv
<1>2. Inv /\ [Next]_vars => Inv'
  BY TypePreserved, StampPreserved, HeldPreserved, BatchPreserved, StraddlePreserved DEF Inv
<1> QED
  BY <1>1, <1>2, PTL DEF Spec

(* The queue keeps its types; its channel and its transactions keep within  *)
(* WRITER_QUEUE and BATCH_OPS.                                              *)
THEOREM QueueTypes == Spec => []TypeOK
<1>1. Inv => TypeOK
  BY DEF Inv
<1> QED
  BY <1>1, Invariance, PTL

(* A write that commits does so into the database it was made for, however  *)
(* the calls, the batches, the replays and the replacements interleave (the *)
(* generation check of run_batch, run_one and run_replace).                 *)
THEOREM WritesNeverStraddle == Spec => []NoStraddle
<1>1. Inv => NoStraddle
  BY DEF Inv
<1> QED
  BY <1>1, Invariance, PTL
-----------------------------------------------------------------------------
(* The way of a call to its answer.  Precedes is the order in which the     *)
(* channel took the jobs; the queue, the batch and the log follow it, with  *)
(* the log ahead of whatever the writer has not decided yet.                *)

Precedes ==
  {p \in Jobs \X Jobs : \E x, y \in 1..Len(sent) : x < y /\ sent[x] = p[1] /\ sent[y] = p[2]}

Sorted(s, R) == \A x, y \in 1..Len(s) : x < y => <<s[x], s[y]>> \in R

(* The job set aside, if any.                                               *)
Aside == {deferred} \ {NoJob}

(* The jobs in the writer's hands that may still commit.                    *)
Undecided ==
  IF writer \in {"collect", "batch", "replay", "one", "replace", "drain", "swap"} THEN Elems(batch)
  ELSE IF writer = "replied" THEN Elems(Tail(batch)) ELSE {}

(* A call the channel has not taken.                                        *)
Early == {"idle", "built", "counted", "locked", "unsent", "rejected"}

(* The channel takes a job once, and what it took is on its way or answered.*)
TravelInv ==
  /\ \A x, y \in 1..Len(sent) : sent[x] = sent[y] => x = y
  /\ \A j \in Jobs : pc[j] \in Early => answer[j] = "none" /\ j \notin Elems(sent)
  /\ \A j \in Jobs : pc[j] = "done" => answer[j] # "none"
  /\ \A j \in Elems(queue) \cup Aside \cup Elems(batch) : j \in Elems(sent) /\ answer[j] = "none"
  /\ Elems(log) \subseteq Elems(sent)

OrderInv ==
  /\ writer = "collect" => Aside = {}
  /\ Sorted(queue, Precedes) /\ Sorted(batch, Precedes) /\ Sorted(log, Precedes)
  /\ \A a \in Aside, b \in Elems(queue) : <<a, b>> \in Precedes
  /\ \A a \in Elems(batch), b \in Aside \cup Elems(queue) : <<a, b>> \in Precedes
  /\ \A a \in Elems(log), b \in Undecided \cup Aside \cup Elems(queue) : <<a, b>> \in Precedes

(* What the writer is about to reply is what the log says.                  *)
TruthInv ==
  /\ epoch # 0
  /\ \A j \in Jobs : home[j] # 0 <=> j \in Elems(log)
  /\ writer \in {"bump", "answer"} => \A j \in Elems(batch) : home[j] # 0 <=> verdict = "committed"
  /\ writer = "replied" => (home[Head(batch)] # 0 <=> verdict = "committed")
  /\ writer \in {"replace", "drain", "swap", "bump"} => Elems(batch) = {Head(batch)}
  /\ AnswerIsTruth

Way == TravelInv /\ OrderInv /\ TruthInv

LEMMA SortedTail ==
  ASSUME NEW S, NEW R, NEW s \in Seq(S), s # <<>>, Sorted(s, R)
  PROVE  Sorted(Tail(s), R) /\ \A e \in Elems(Tail(s)) : <<Head(s), e>> \in R
<1>1. /\ Len(Tail(s)) = Len(s) - 1
      /\ \A i \in 1..(Len(s) - 1) : Tail(s)[i] = s[i + 1]
  BY HeadTailProperties
<1>2. Len(s) \in Nat \ {0} /\ Head(s) = s[1]
  BY EmptySeq
<1>3. ASSUME NEW x \in 1..(Len(s) - 1), NEW y \in 1..(Len(s) - 1), x < y
      PROVE  <<Tail(s)[x], Tail(s)[y]>> \in R
  <2>1. x + 1 \in 1..Len(s) /\ y + 1 \in 1..Len(s) /\ x + 1 < y + 1
    BY <1>2, <1>3
  <2>2. <<s[x + 1], s[y + 1]>> \in R
    BY <2>1 DEF Sorted
  <2> QED BY <1>1, <2>2
<1>4. ASSUME NEW x \in 1..(Len(s) - 1) PROVE <<s[1], Tail(s)[x]>> \in R
  <2>1. 1 \in 1..Len(s) /\ x + 1 \in 1..Len(s) /\ 1 < x + 1
    BY <1>2
  <2>2. <<s[1], s[x + 1]>> \in R
    BY <2>1 DEF Sorted
  <2> QED BY <1>1, <2>2
<1> QED BY <1>1, <1>2, <1>3, <1>4 DEF Sorted, Elems

LEMMA SortedConcat ==
  ASSUME NEW S, NEW R, NEW s \in Seq(S), NEW t \in Seq(S), Sorted(s, R), Sorted(t, R),
         \A a \in Elems(s), b \in Elems(t) : <<a, b>> \in R
  PROVE  /\ s \o t \in Seq(S) /\ Sorted(s \o t, R)
         /\ Elems(s \o t) = Elems(s) \cup Elems(t)
<1> DEFINE c == s \o t
<1>1. /\ c \in Seq(S) /\ Len(c) = Len(s) + Len(t)
      /\ \A k \in 1..(Len(s) + Len(t)) : c[k] = IF k <= Len(s) THEN s[k] ELSE t[k - Len(s)]
  BY ConcatProperties
<1>2. Len(s) \in Nat /\ Len(t) \in Nat
  OBVIOUS
<1> HIDE DEF c
<1>3. \A k \in 1..Len(s) : c[k] = s[k] /\ s[k] \in Elems(s)
  BY <1>1, <1>2 DEF Elems
<1>4. ASSUME NEW k \in 1..Len(t)
      PROVE  Len(s) + k \in 1..Len(c) /\ c[Len(s) + k] = t[k] /\ t[k] \in Elems(t)
  <2>1. /\ Len(s) + k \in 1..(Len(s) + Len(t)) /\ ~(Len(s) + k <= Len(s))
        /\ (Len(s) + k) - Len(s) = k
    BY <1>2
  <2> QED BY <1>1, <2>1 DEF Elems
<1>5. \A k \in 1..Len(c) : k \in 1..Len(s) \/ (k - Len(s) \in 1..Len(t) /\ Len(s) + (k - Len(s)) = k)
  BY <1>1, <1>2
<1>6. Elems(c) = Elems(s) \cup Elems(t)
  <2>1. ASSUME NEW e \in Elems(c) PROVE e \in Elems(s) \cup Elems(t)
    <3>1. PICK k \in 1..Len(c) : e = c[k]
      BY DEF Elems
    <3> QED BY <1>3, <1>4, <1>5, <3>1
  <2>2. ASSUME NEW e \in Elems(s) PROVE e \in Elems(c)
    <3>1. PICK k \in 1..Len(s) : e = s[k]
      BY DEF Elems
    <3>2. k \in 1..Len(c) /\ c[k] = e
      BY <1>1, <1>2, <1>3, <3>1
    <3> QED BY <3>2 DEF Elems
  <2>3. ASSUME NEW e \in Elems(t) PROVE e \in Elems(c)
    <3>1. PICK k \in 1..Len(t) : e = t[k]
      BY DEF Elems
    <3>2. Len(s) + k \in 1..Len(c) /\ c[Len(s) + k] = e
      BY <1>4, <3>1
    <3> QED BY <3>2 DEF Elems
  <2> QED BY <2>1, <2>2, <2>3
<1>7. ASSUME NEW x \in 1..Len(c), NEW y \in 1..Len(c), x < y PROVE <<c[x], c[y]>> \in R
  <2>1. CASE x \in 1..Len(s) /\ y \in 1..Len(s)
    BY <1>3, <1>7, <2>1 DEF Sorted
  <2>2. CASE x \in 1..Len(s) /\ y \notin 1..Len(s)
    BY <1>3, <1>4, <1>5, <2>2
  <2>3. CASE x \notin 1..Len(s)
    <3>1. y \notin 1..Len(s) /\ x - Len(s) < y - Len(s)
      BY <1>1, <1>2, <1>7, <2>3
    <3>2. x - Len(s) \in 1..Len(t) /\ y - Len(s) \in 1..Len(t)
      BY <1>5, <2>3, <3>1
    <3>3. c[x] = t[x - Len(s)] /\ c[y] = t[y - Len(s)]
      BY <1>4, <1>5, <2>3, <3>1, <3>2
    <3> QED BY <3>1, <3>2, <3>3 DEF Sorted
  <2> QED BY <2>1, <2>2, <2>3
<1> QED BY <1>1, <1>6, <1>7 DEF Sorted, c

LEMMA SortedOne ==
  ASSUME NEW S, NEW R, NEW e \in S
  PROVE  Sorted(<<e>>, R)
<1>1. Len(<<e>>) = 1
  BY Singleton
<1>2. \A x, y \in 1..1 : ~(x < y)
  OBVIOUS
<1> QED BY <1>1, <1>2 DEF Sorted

LEMMA SortedLonger ==
  ASSUME NEW S, NEW R, NEW s \in Seq(S), NEW e \in S, Sorted(s, R),
         \A a \in Elems(s) : <<a, e>> \in R
  PROVE  Sorted(Append(s, e), R)
<1> DEFINE l == Append(s, e)
<1>1. /\ l \in Seq(S) /\ Len(l) = Len(s) + 1
      /\ \A i \in 1..Len(s) : l[i] = s[i]
      /\ l[Len(s) + 1] = e
  BY AppendProperties
<1>2. Len(s) \in Nat
  OBVIOUS
<1> HIDE DEF l
<1>3. ASSUME NEW x \in 1..Len(l), NEW y \in 1..Len(l), x < y PROVE <<l[x], l[y]>> \in R
  <2>1. x \in 1..Len(s) /\ l[x] = s[x] /\ s[x] \in Elems(s)
    BY <1>1, <1>2, <1>3 DEF Elems
  <2>2. CASE y = Len(s) + 1
    BY <1>1, <2>1, <2>2
  <2>3. CASE y # Len(s) + 1
    <3>1. y \in 1..Len(s) /\ l[y] = s[y]
      BY <1>1, <1>2, <2>3
    <3> QED BY <1>3, <2>1, <3>1 DEF Sorted
  <2> QED BY <2>2, <2>3
<1> QED BY <1>3 DEF Sorted, l

(* Removing one job keeps the order, and what remains is on one side of it. *)
LEMMA SortedWithout ==
  ASSUME NEW S, NEW R, NEW s \in Seq(S), NEW i \in 1..Len(s), Sorted(s, R),
         \A e \in S : <<e, e>> \notin R
  PROVE  Sorted(Without(s, i), R) /\ s[i] \notin Elems(Without(s, i))
<1> DEFINE r == Without(s, i)
           a == SubSeq(s, 1, i - 1)
           b == SubSeq(s, i + 1, Len(s))
           at(k) == IF k < i THEN k ELSE k + 1
<1>1. Len(s) \in Nat /\ \A k \in 1..Len(s) : s[k] \in S
  OBVIOUS
<1>2. a \in Seq(S) /\ Len(a) = i - 1 /\ \A k \in 1..(i - 1) : a[k] = s[k]
  BY <1>1, SubSeqProperties
<1>3. b \in Seq(S) /\ Len(b) = Len(s) - i /\ \A k \in 1..(Len(s) - i) : b[k] = s[i + k]
  <2>1. \A k \in (i + 1)..Len(s) : s[k] \in S
    BY <1>1
  <2>2. /\ b \in Seq(S)
        /\ Len(b) = IF i + 1 <= Len(s) THEN Len(s) - (i + 1) + 1 ELSE 0
        /\ \A k \in 1..(Len(s) - (i + 1) + 1) : b[k] = s[(i + 1) + k - 1]
    BY <1>1, <2>1, SubSeqProperties
  <2> QED BY <1>1, <2>2
<1> HIDE DEF a, b
<1>4. /\ Len(a \o b) = Len(s) - 1
      /\ \A k \in 1..(Len(s) - 1) : (a \o b)[k] = IF k < i THEN a[k] ELSE b[k - (i - 1)]
  <2>1. /\ Len(a \o b) = Len(a) + Len(b)
        /\ \A k \in 1..(Len(a) + Len(b)) :
             (a \o b)[k] = IF k <= Len(a) THEN a[k] ELSE b[k - Len(a)]
    BY <1>2, <1>3, ConcatProperties
  <2> QED BY <1>1, <1>2, <1>3, <2>1
<1>5. r = a \o b
  BY DEF Without, a, b
<1> HIDE DEF r
<1>6. ASSUME NEW k \in 1..(Len(s) - 1)
      PROVE  r[k] = s[at(k)] /\ at(k) \in 1..Len(s) /\ at(k) # i
  <2>1. CASE k < i
    BY <1>1, <1>2, <1>4, <1>5, <2>1
  <2>2. CASE ~(k < i)
    <3>1. k - (i - 1) \in 1..(Len(s) - i) /\ k + 1 \in 1..Len(s) /\ i + (k - (i - 1)) = k + 1
      BY <1>1, <2>2
    <3>2. r[k] = b[k - (i - 1)]
      BY <1>4, <1>5, <2>2
    <3> QED BY <1>3, <2>2, <3>1, <3>2
  <2> QED BY <2>1, <2>2
<1>7. \A x, y \in 1..(Len(s) - 1) : x < y => at(x) < at(y)
  BY <1>1
<1> HIDE DEF at
<1>8. ASSUME NEW x \in 1..(Len(s) - 1), NEW y \in 1..(Len(s) - 1), x < y
      PROVE  <<r[x], r[y]>> \in R
  <2>1. <<s[at(x)], s[at(y)]>> \in R
    BY <1>6, <1>7, <1>8 DEF Sorted
  <2> QED BY <1>6, <2>1
<1>9. ASSUME NEW k \in 1..(Len(s) - 1) PROVE r[k] # s[i]
  <2>1. at(k) < i \/ i < at(k)
    BY <1>1, <1>6
  <2>2. <<s[at(k)], s[i]>> \in R \/ <<s[i], s[at(k)]>> \in R
    BY <1>6, <2>1 DEF Sorted
  <2> QED BY <1>1, <1>6, <2>2
<1>10. Len(r) = Len(s) - 1
  BY <1>4, <1>5
<1>11. Sorted(r, R)
  BY <1>8, <1>10 DEF Sorted
<1>12. s[i] \notin Elems(r)
  BY <1>9, <1>10 DEF Elems
<1> QED BY <1>11, <1>12 DEF r

-----------------------------------------------------------------------------
(* No job precedes itself.                                                  *)
LEMMA PrecedesStrict ==
  ASSUME TravelInv, NEW j
  PROVE  <<j, j>> \notin Precedes
<1> SUFFICES ASSUME <<j, j>> \in Precedes PROVE FALSE
  OBVIOUS
<1>1. PICK x, y \in 1..Len(sent) : x < y /\ sent[x] = j /\ sent[y] = j
  BY DEF Precedes
<1> QED BY <1>1 DEF TravelInv

(* What is on its way waits for its answer, and has not committed unless    *)
(* the writer has decided it.                                               *)
LEMMA OnTheWay ==
  ASSUME Inv, Way
  PROVE  /\ \A j \in Elems(queue) \cup Aside \cup Elems(batch) :
              j \in Jobs /\ pc[j] \in {"sent", "waiting"} /\ answer[j] = "none"
         /\ \A j \in Elems(queue) \cup Aside \cup Undecided : home[j] = 0
         /\ Undecided \subseteq Elems(batch)
<1>1. /\ Elems(queue) \subseteq Jobs /\ Elems(batch) \subseteq Jobs /\ Aside \subseteq Jobs
      /\ Elems(sent) \subseteq Jobs
  BY ElemsIn DEF Inv, TypeOK, Aside
<1>2. \A j \in Elems(queue) \cup Aside \cup Elems(batch) : pc[j] \in {"sent", "waiting"}
  BY <1>1 DEF Inv, TypeOK, Way, TravelInv, CallerStates, Early
<1>3. Undecided \subseteq Elems(batch)
  BY HeadTail DEF Inv, TypeOK, BatchInv, Undecided
<1>4. ASSUME NEW j \in Elems(queue) \cup Aside \cup Undecided PROVE j \notin Elems(log)
  BY PrecedesStrict DEF Way, OrderInv
<1> QED BY <1>1, <1>2, <1>3, <1>4 DEF Way, TravelInv, TruthInv

(* A caller's step, or one of close, but Send.                              *)
LEMMA CallerKeeps ==
  ASSUME Inv, Way, UNCHANGED <<answer, thread, epoch, log, home, sent>>,
         \A j \in Jobs : pc'[j] \in Early => pc[j] \in Early,
         \A j \in Jobs : pc'[j] = "done" => answer[j] # "none"
  PROVE  Way'
<1>1. UNCHANGED <<queue, deferred, writer, batch, verdict, answer, epoch, log, home, sent>>
  BY DEF thread
<1>2. TravelInv'
  BY <1>1 DEF Way, TravelInv, Aside
<1>3. OrderInv'
  BY <1>1 DEF Way, OrderInv, Aside, Undecided, Precedes
<1>4. TruthInv'
  BY <1>1 DEF Way, TruthInv, AnswerIsTruth
<1> QED BY <1>2, <1>3, <1>4 DEF Way

(* The channel takes a job behind all it took before.                       *)
LEMMA SendKeeps ==
  ASSUME Inv, Way, NEW j \in Jobs, Send(j)
  PROVE  Way'
<1>1. /\ sent \in Seq(Jobs) /\ queue \in Seq(Jobs) /\ batch \in Seq(Jobs) /\ log \in Seq(Jobs)
      /\ pc \in [Jobs -> CallerStates] /\ pc[j] = "locked"
      /\ Elems(sent) \subseteq Jobs
  BY ElemsIn DEF Inv, TypeOK, Send, Goto
<1>2. /\ queue' = Append(queue, j) /\ sent' = Append(sent, j) /\ pc' = [pc EXCEPT ![j] = "sent"]
      /\ UNCHANGED <<answer, deferred, writer, batch, verdict, epoch, log, home>>
  BY DEF Send, Goto, database
<1>3. j \notin Elems(sent) /\ answer[j] = "none"
  BY <1>1 DEF Way, TravelInv, Early
<1>4. /\ Len(sent') = Len(sent) + 1 /\ Len(sent) \in Nat
      /\ \A i \in 1..Len(sent) : sent'[i] = sent[i] /\ sent[i] \in Elems(sent)
      /\ sent'[Len(sent) + 1] = j
  BY <1>1, <1>2, AppendProperties DEF Elems
<1>5. Elems(sent') = Elems(sent) \cup {j} /\ Elems(queue') = Elems(queue) \cup {j}
  BY <1>1, <1>2, Longer
<1>6. Precedes \subseteq Precedes'
  <2>1. ASSUME NEW p \in Precedes PROVE p \in Precedes'
    <3>1. PICK x, y \in 1..Len(sent) : x < y /\ sent[x] = p[1] /\ sent[y] = p[2]
      BY DEF Precedes
    <3>2. x \in 1..Len(sent') /\ y \in 1..Len(sent') /\ sent'[x] = p[1] /\ sent'[y] = p[2]
      BY <1>4, <3>1
    <3> QED BY <3>1, <3>2 DEF Precedes
  <2> QED BY <2>1
<1>7. ASSUME NEW a \in Elems(sent) PROVE <<a, j>> \in Precedes'
  <2>1. PICK x \in 1..Len(sent) : sent[x] = a
    BY DEF Elems
  <2>2. /\ x \in 1..Len(sent') /\ Len(sent) + 1 \in 1..Len(sent') /\ x < Len(sent) + 1
        /\ sent'[x] = a /\ sent'[Len(sent) + 1] = j
    BY <1>4, <2>1
  <2>3. a \in Jobs
    BY <1>1
  <2> QED BY <2>2, <2>3 DEF Precedes
<1>8. TravelInv'
  <2>1. ASSUME NEW x \in 1..Len(sent'), NEW y \in 1..Len(sent'), sent'[x] = sent'[y] PROVE x = y
    <3>1. \A z \in 1..Len(sent') : z \in 1..Len(sent) \/ z = Len(sent) + 1
      BY <1>4
    <3> QED BY <1>3, <1>4, <2>1, <3>1 DEF Way, TravelInv
  <2>2. \A k \in Jobs : pc'[k] \in Early => answer'[k] = "none" /\ k \notin Elems(sent')
    BY <1>1, <1>2, <1>5 DEF Way, TravelInv, Early
  <2>3. \A k \in Jobs : pc'[k] = "done" => answer'[k] # "none"
    BY <1>1, <1>2 DEF Way, TravelInv
  <2>4. \A k \in Elems(queue') \cup Aside' \cup Elems(batch') :
          k \in Elems(sent') /\ answer'[k] = "none"
    BY <1>2, <1>3, <1>5 DEF Way, TravelInv, Aside
  <2>5. Elems(log') \subseteq Elems(sent')
    BY <1>2, <1>5 DEF Way, TravelInv
  <2> QED BY <2>1, <2>2, <2>3, <2>4, <2>5 DEF TravelInv
<1>9. Undecided \subseteq Elems(batch) /\ Undecided' = Undecided /\ Aside' = Aside
  BY <1>2, OnTheWay DEF Undecided, Aside
<1>10. Sorted(queue', Precedes') /\ Sorted(batch', Precedes') /\ Sorted(log', Precedes')
  <2>1. Sorted(queue, Precedes') /\ Sorted(batch, Precedes') /\ Sorted(log, Precedes')
    BY <1>6 DEF Way, OrderInv, Sorted
  <2>2. \A a \in Elems(queue) : <<a, j>> \in Precedes'
    BY <1>7 DEF Way, TravelInv
  <2> QED BY <1>1, <1>2, <2>1, <2>2, SortedLonger
<1>11. OrderInv'
  <2>1. \A a \in Elems(log) \cup Elems(batch) \cup Aside : <<a, j>> \in Precedes'
    BY <1>7 DEF Way, TravelInv
  <2>2. /\ \A a \in Aside, b \in Elems(queue') : <<a, b>> \in Precedes'
        /\ \A a \in Elems(batch), b \in Aside \cup Elems(queue') : <<a, b>> \in Precedes'
        /\ \A a \in Elems(log), b \in Undecided \cup Aside \cup Elems(queue') : <<a, b>> \in Precedes'
    BY <1>5, <1>6, <2>1 DEF Way, OrderInv
  <2>3. writer' = "collect" => Aside' = {}
    BY <1>2, <1>9 DEF Way, OrderInv
  <2> QED BY <1>2, <1>9, <1>10, <2>2, <2>3 DEF OrderInv
<1>12. TruthInv'
  BY <1>2 DEF Way, TruthInv, AnswerIsTruth
<1> QED BY <1>8, <1>11, <1>12 DEF Way

(* A step of the writer that commits nothing: jobs move towards it, and an  *)
(* answered one leaves its hands.                                           *)
LEMMA MoveKeeps ==
  ASSUME Inv, Way, UNCHANGED <<pc, epoch, log, home, sent>>,
         \A j \in Jobs : \/ answer'[j] = answer[j]
                         \/ /\ pc[j] \in {"sent", "waiting"}
                            /\ j \notin Elems(queue') \cup Aside' \cup Elems(batch')
                            /\ answer'[j] # "none"
                            /\ answer'[j] = "committed" <=> home[j] # 0,
         writer' = "collect" => Aside' = {},
         Elems(queue') \cup Aside' \cup Elems(batch') \subseteq
           Elems(queue) \cup Aside \cup Elems(batch),
         Sorted(queue', Precedes), Sorted(batch', Precedes),
         \A a \in Aside', b \in Elems(queue') : <<a, b>> \in Precedes,
         \A a \in Elems(batch'), b \in Aside' \cup Elems(queue') : <<a, b>> \in Precedes,
         Undecided' \subseteq Undecided \cup Aside \cup Elems(queue),
         Elems(queue') \cup Aside' \subseteq Elems(queue) \cup Aside,
         writer' \in {"bump", "answer"} => \A j \in Elems(batch') : home[j] # 0 <=> verdict' = "committed",
         writer' # "replied",
         writer' \in {"replace", "drain", "swap", "bump"} => Elems(batch') = {Head(batch')}
  PROVE  Way'
<1>0. \A j \in Elems(queue) \cup Aside \cup Elems(batch) : j \in Jobs
  BY OnTheWay
<1>1. TravelInv'
  <2>1. \A j \in Jobs : pc'[j] \in Early => answer'[j] = "none" /\ j \notin Elems(sent')
    BY DEF Way, TravelInv, Early
  <2>2. \A j \in Jobs : pc'[j] = "done" => answer'[j] # "none"
    BY DEF Way, TravelInv
  <2>3. \A j \in Elems(queue') \cup Aside' \cup Elems(batch') :
          j \in Elems(sent') /\ answer'[j] = "none"
    BY <1>0 DEF Way, TravelInv
  <2> QED BY <2>1, <2>2, <2>3 DEF Way, TravelInv
<1>2. OrderInv'
  <2>1. Precedes' = Precedes
    BY DEF Precedes
  <2> QED BY <2>1 DEF Way, OrderInv
<1>3. TruthInv'
  <2>1. AnswerIsTruth'
    BY DEF Way, TruthInv, AnswerIsTruth
  <2> QED BY <2>1 DEF Way, TruthInv
<1> QED BY <1>1, <1>2, <1>3 DEF Way

LEMMA TakeFirstKeeps ==
  ASSUME Inv, Way, TakeFirst
  PROVE  Way'
<1>1. /\ queue \in Seq(Jobs) /\ deferred \in Jobs \cup {NoJob} /\ kind \in [Jobs -> Kinds]
  BY DEF Inv, TypeOK
<1>2. UNCHANGED <<pc, answer, epoch, log, home, sent, verdict, kind>>
  BY DEF TakeFirst, callers, database
<1>3. ASSUME NEW j \in Aside \cup Elems(queue), j \in Jobs,
             batch' = <<j>>, writer' = Entry(j), Aside' = {},
             Elems(queue') \cup Aside' \subseteq Elems(queue) \cup Aside,
             Sorted(queue', Precedes),
             \A a \in Aside', b \in Elems(queue') : <<a, b>> \in Precedes,
             \A b \in Aside' \cup Elems(queue') : <<j, b>> \in Precedes
      PROVE  Way'
  <2>1. Elems(batch') = {j} /\ Head(batch') = j /\ Sorted(batch', Precedes)
    BY <1>3, Singleton, SortedOne
  <2>2. writer' \in {"collect", "one", "replace"}
    BY <1>1, <1>3 DEF Entry, Kinds
  <2>3. Undecided' = {j}
    BY <2>1, <2>2 DEF Undecided
  <2> QED BY <1>2, <1>3, <2>1, <2>2, <2>3, MoveKeeps
<1>4. CASE TakeDeferred
  <2>1. /\ deferred \in Aside /\ deferred \in Jobs /\ Aside' = {} /\ queue' = queue
        /\ batch' = <<deferred>> /\ writer' = Entry(deferred)
    BY <1>1, <1>4, QueueAssumption DEF TakeDeferred, Aside
  <2> QED BY <1>3, <2>1 DEF Way, OrderInv
<1>5. CASE TakeQueued
  <2>1. /\ queue # <<>> /\ queue' = Tail(queue) /\ Aside = {} /\ Aside' = {}
        /\ batch' = <<Head(queue)>> /\ writer' = Entry(Head(queue))
    BY <1>5 DEF TakeQueued, Aside
  <2>2. /\ Head(queue) \in Jobs /\ Head(queue) \in Elems(queue)
        /\ Elems(Tail(queue)) \subseteq Elems(queue)
    BY <1>1, <2>1, HeadTail
  <2>3. Sorted(Tail(queue), Precedes) /\ \A e \in Elems(Tail(queue)) : <<Head(queue), e>> \in Precedes
    BY <1>1, <2>1, SortedTail DEF Way, OrderInv
  <2> QED BY <1>3, <2>1, <2>2, <2>3
<1> QED BY <1>4, <1>5 DEF TakeFirst

LEMMA CollectKeeps ==
  ASSUME Inv, Way, Collect
  PROVE  Way'
<1>1. /\ queue \in Seq(Jobs) /\ batch \in Seq(Jobs) /\ deferred \in Jobs \cup {NoJob}
  BY DEF Inv, TypeOK
<1>2. UNCHANGED <<pc, answer, epoch, log, home, sent, verdict, kind>> /\ writer = "collect"
  BY DEF Collect, callers, database
<1>3. Undecided = Elems(batch)
  BY <1>2 DEF Undecided
<1>4. ASSUME queue # <<>>
      PROVE  /\ Head(queue) \in Jobs /\ Head(queue) \in Elems(queue)
             /\ Elems(Tail(queue)) \subseteq Elems(queue)
             /\ Sorted(Tail(queue), Precedes)
             /\ \A e \in Elems(Tail(queue)) : <<Head(queue), e>> \in Precedes
  <2>1. Sorted(queue, Precedes)
    BY DEF Way, OrderInv
  <2> QED BY <1>1, <1>4, <2>1, HeadTail, SortedTail
<1>5. Aside = {}
  BY <1>2 DEF Way, OrderInv
<1>6. CASE queue # <<>> /\ Join
  <2>1. /\ batch' = Append(batch, Head(queue)) /\ queue' = Tail(queue)
        /\ Aside' = Aside /\ writer' = "collect"
    BY <1>2, <1>6 DEF Join, Aside
  <2>2. Elems(batch') = Elems(batch) \cup {Head(queue)} /\ Undecided' = Elems(batch')
    BY <1>1, <1>4, <1>6, <2>1, Longer DEF Undecided
  <2>3. Sorted(batch', Precedes)
    BY <1>1, <1>4, <1>6, <2>1, SortedLonger DEF Way, OrderInv
  <2> QED BY <1>2, <1>3, <1>4, <1>5, <1>6, <2>1, <2>2, <2>3, MoveKeeps DEF Way, OrderInv
<1>7. CASE queue # <<>> /\ SetAside
  <2>1. /\ batch' = batch /\ queue' = Tail(queue) /\ Aside' = {Head(queue)} /\ writer' = "batch"
    BY <1>2, <1>4, <1>7, QueueAssumption DEF SetAside, Aside
  <2>2. Undecided' = Elems(batch)
    BY <2>1 DEF Undecided
  <2> QED BY <1>2, <1>3, <1>4, <1>5, <1>7, <2>1, <2>2, MoveKeeps DEF Way, OrderInv
<1>8. CASE writer' = "batch" /\ UNCHANGED <<batch, queue, deferred>>
  <2>1. Undecided' = Elems(batch) /\ Aside' = Aside
    BY <1>8 DEF Undecided, Aside
  <2> QED BY <1>2, <1>3, <1>8, <2>1, MoveKeeps DEF Way, OrderInv
<1> QED BY <1>6, <1>7, <1>8 DEF Collect

LEMMA BatchRefuseKeeps ==
  ASSUME Inv, Way, BatchRefuse
  PROVE  Way'
<1>1. PICK i \in DOMAIN batch :
        /\ Resolve(batch[i], "refused")
        /\ batch' = Without(batch, i)
        /\ writer' = IF Len(batch) = 1 THEN "idle" ELSE "batch"
  BY DEF BatchRefuse, Without
<1>2. /\ batch \in Seq(Jobs) /\ answer \in [Jobs -> Outcomes \cup {"none"}]
  BY DEF Inv, TypeOK
<1>3. i \in 1..Len(batch) /\ batch[i] \in Jobs /\ batch[i] \in Elems(batch)
  BY <1>2 DEF Elems
<1>4. /\ UNCHANGED <<pc, epoch, log, home, sent, verdict, queue, deferred>> /\ writer = "batch"
      /\ answer' = [answer EXCEPT ![batch[i]] = "refused"]
  BY <1>1 DEF BatchRefuse, Resolve, database
<1>5. Sorted(batch, Precedes)
  BY DEF Way, OrderInv
<1>6. \A e \in Jobs : <<e, e>> \notin Precedes
  BY PrecedesStrict DEF Way
<1>7. Sorted(batch', Precedes) /\ batch[i] \notin Elems(batch')
  BY <1>1, <1>2, <1>3, <1>5, <1>6, SortedWithout
<1>8. Elems(batch') \subseteq Elems(batch)
  BY <1>1, <1>2, <1>3, RemoveOne
<1>9. Undecided = Elems(batch) /\ Undecided' \subseteq Elems(batch') /\ Aside' = Aside
  BY <1>1, <1>4 DEF Undecided, Aside
<1>10. batch[i] \notin Elems(queue) \cup Aside
  BY <1>3, <1>6 DEF Way, OrderInv
<1>11. home[batch[i]] = 0 /\ pc[batch[i]] \in {"sent", "waiting"}
  BY <1>3, <1>9, OnTheWay
<1>12. \A j \in Jobs : \/ answer'[j] = answer[j]
                       \/ /\ pc[j] \in {"sent", "waiting"}
                          /\ j \notin Elems(queue') \cup Aside' \cup Elems(batch')
                          /\ answer'[j] # "none"
                          /\ answer'[j] = "committed" <=> home[j] # 0
  BY <1>2, <1>3, <1>4, <1>7, <1>9, <1>10, <1>11
<1> QED BY <1>1, <1>4, <1>7, <1>8, <1>9, <1>12, MoveKeeps DEF Way, OrderInv

LEMMA AnswerKeeps ==
  ASSUME Inv, Way, Answer
  PROVE  Way'
<1> DEFINE j == Head(batch)
<1>1. /\ batch \in Seq(Jobs) /\ answer \in [Jobs -> Outcomes \cup {"none"}] /\ verdict \in Outcomes
      /\ batch # <<>> /\ writer \in {"answer", "replied"}
  BY DEF Inv, TypeOK, BatchInv, Answer
<1>2. /\ UNCHANGED <<pc, epoch, log, home, sent, verdict, queue, deferred>>
      /\ answer' = [answer EXCEPT ![j] = verdict] /\ batch' = Tail(batch)
      /\ writer' = IF Len(batch) = 1 THEN "idle"
                   ELSE IF writer = "replied" THEN "replay" ELSE "answer"
  BY DEF Answer, Resolve, database
<1>3. j \in Jobs /\ j \in Elems(batch) /\ Elems(batch') \subseteq Elems(batch)
  BY <1>1, <1>2, HeadTail
<1>4. Sorted(batch', Precedes) /\ \A e \in Elems(batch') : <<j, e>> \in Precedes
  BY <1>1, <1>2, SortedTail DEF Way, OrderInv
<1>5. \A e \in Jobs : <<e, e>> \notin Precedes
  BY PrecedesStrict DEF Way
<1>6. j \notin Elems(batch') /\ j \notin Elems(queue) \cup Aside
  BY <1>3, <1>4, <1>5 DEF Way, OrderInv
<1>7. Undecided' \subseteq Undecided /\ Aside' = Aside
  BY <1>1, <1>2 DEF Undecided, Aside
<1>8. home[j] # 0 <=> verdict = "committed"
  BY <1>1, <1>3 DEF Way, TruthInv
<1>9. pc[j] \in {"sent", "waiting"}
  BY <1>3, OnTheWay
<1> HIDE DEF j
<1>10. \A k \in Jobs : \/ answer'[k] = answer[k]
                       \/ /\ pc[k] \in {"sent", "waiting"}
                          /\ k \notin Elems(queue') \cup Aside' \cup Elems(batch')
                          /\ answer'[k] # "none"
                          /\ answer'[k] = "committed" <=> home[k] # 0
  BY <1>1, <1>2, <1>3, <1>6, <1>7, <1>8, <1>9 DEF Outcomes
<1>11. writer' \in {"bump", "answer"} => \A k \in Elems(batch') : home[k] # 0 <=> verdict' = "committed"
  BY <1>1, <1>2, <1>3 DEF Way, TruthInv
<1>12. writer' \in {"idle", "replay", "answer"}
  BY <1>2
<1> QED BY <1>2, <1>3, <1>4, <1>7, <1>10, <1>11, <1>12, MoveKeeps DEF Way, OrderInv

LEMMA DrainKeeps ==
  ASSUME Inv, Way, Drain
  PROVE  Way'
<1>1. /\ queue \in Seq(Jobs) /\ answer \in [Jobs -> Outcomes \cup {"none"}]
      /\ UNCHANGED <<pc, epoch, log, home, sent, verdict, batch, deferred>> /\ writer = "drain"
      /\ Aside' = Aside /\ Undecided = Elems(batch) /\ Elems(batch) = {Head(batch)}
  BY DEF Inv, TypeOK, Drain, Resolve, callers, database, Aside, Undecided, Way, TruthInv
<1>2. CASE queue # <<>> /\ Resolve(Head(queue), "refused") /\ queue' = Tail(queue) /\ UNCHANGED writer
  <2> DEFINE j == Head(queue)
  <2>1. /\ j \in Jobs /\ j \in Elems(queue) /\ Elems(queue') \subseteq Elems(queue)
        /\ answer' = [answer EXCEPT ![j] = "refused"]
    BY <1>1, <1>2, HeadTail DEF Resolve
  <2>2. Sorted(queue', Precedes) /\ \A e \in Elems(queue') : <<j, e>> \in Precedes
    BY <1>1, <1>2, SortedTail DEF Way, OrderInv
  <2>3. \A e \in Jobs : <<e, e>> \notin Precedes
    BY PrecedesStrict DEF Way
  <2>4. j \notin Elems(queue') /\ j \notin Elems(batch) \cup Aside
    BY <2>1, <2>2, <2>3 DEF Way, OrderInv
  <2>5. home[j] = 0 /\ pc[j] \in {"sent", "waiting"}
    BY <2>1, OnTheWay
  <2> HIDE DEF j
  <2>6. \A k \in Jobs : \/ answer'[k] = answer[k]
                        \/ /\ pc[k] \in {"sent", "waiting"}
                           /\ k \notin Elems(queue') \cup Aside' \cup Elems(batch')
                           /\ answer'[k] # "none"
                           /\ answer'[k] = "committed" <=> home[k] # 0
    BY <1>1, <2>1, <2>4, <2>5
  <2>7. Undecided' = Elems(batch)
    BY <1>1, <1>2 DEF Undecided
  <2> QED BY <1>1, <1>2, <2>1, <2>2, <2>6, <2>7, MoveKeeps DEF Way, OrderInv
<1>3. CASE queue = <<>> /\ writer' = "swap" /\ UNCHANGED <<callers, counters, queue>>
  <2>1. answer' = answer /\ Undecided' = Elems(batch)
    BY <1>1, <1>3 DEF callers, Undecided
  <2> QED BY <1>1, <1>3, <2>1, MoveKeeps DEF Way, OrderInv
<1> QED BY <1>2, <1>3 DEF Drain

(* The writer's steps that only change its own state.                       *)
LEMMA StepKeeps ==
  ASSUME Inv, Way, BeginReplace \/ Bump \/ WriterExit
  PROVE  Way'
<1>1. UNCHANGED <<pc, answer, epoch, log, home, sent, batch, queue, deferred>> /\ Aside' = Aside
  BY DEF BeginReplace, Bump, WriterExit, callers, database, Aside
<1>2. CASE BeginReplace
  <2>1. /\ writer = "replace" /\ writer' \in {"answer", "drain"}
        /\ writer' = "answer" => verdict' = "refused"
    BY <1>2 DEF BeginReplace, Stale
  <2>2. Undecided = Elems(batch) /\ Undecided' \subseteq Undecided
    BY <1>1, <2>1 DEF Undecided
  <2>3. \A j \in Elems(batch) : home[j] = 0
    BY <2>2, OnTheWay
  <2>4. Elems(batch) = {Head(batch)}
    BY <2>1 DEF Way, TruthInv
  <2> QED BY <1>1, <2>1, <2>2, <2>3, <2>4, MoveKeeps DEF Way, OrderInv
<1>3. CASE Bump
  <2>1. writer = "bump" /\ writer' = "answer" /\ verdict' = verdict /\ Undecided' = {}
    BY <1>3 DEF Bump, Undecided
  <2> QED BY <1>1, <2>1, MoveKeeps DEF Way, OrderInv, TruthInv
<1>4. CASE WriterExit
  <2>1. writer' = "exited" /\ Undecided' = {}
    BY <1>4 DEF WriterExit, Undecided
  <2> QED BY <1>1, <2>1, MoveKeeps DEF Way, OrderInv
<1> QED BY <1>2, <1>3, <1>4

(* Undecided jobs commit, in their order, behind the log.                   *)
LEMMA CommitKeeps ==
  ASSUME Inv, Way, NEW jobs \in Seq(Jobs), Sorted(jobs, Precedes),
         Elems(jobs) \subseteq Undecided, Undecided' \subseteq Undecided,
         \A a \in Elems(jobs), b \in Undecided' : <<a, b>> \in Precedes,
         log' = log \o jobs, epoch' # 0,
         \A j \in Jobs : home'[j] # 0 <=> home[j] # 0 \/ j \in Elems(jobs),
         UNCHANGED <<pc, answer, sent, queue, deferred, batch>>, verdict' = "committed",
         writer' # "collect",
         writer' \in {"bump", "answer"} => Elems(batch) = Elems(jobs),
         writer' = "replied" => Head(batch) \in Elems(jobs),
         writer' \in {"replace", "drain", "swap", "bump"} => Elems(batch) = {Head(batch)}
  PROVE  Way'
<1>1. log \in Seq(Jobs) /\ Precedes' = Precedes /\ Aside' = Aside
  BY DEF Inv, TypeOK, Precedes, Aside
<1>2. /\ Elems(jobs) \subseteq Elems(batch) /\ Elems(jobs) \subseteq Jobs
      /\ \A j \in Elems(jobs) : answer[j] = "none" /\ home[j] = 0 /\ j \in Elems(sent)
  BY OnTheWay DEF Way, TravelInv
<1>3. Sorted(log', Precedes) /\ Elems(log') = Elems(log) \cup Elems(jobs)
  <2>1. Sorted(log, Precedes) /\ \A a \in Elems(log), b \in Elems(jobs) : <<a, b>> \in Precedes
    BY DEF Way, OrderInv
  <2> QED BY <1>1, <2>1, SortedConcat
<1>4. TravelInv'
  BY <1>1, <1>2, <1>3 DEF Way, TravelInv
<1>5. OrderInv'
  <2>1. \A a \in Elems(jobs), b \in Aside \cup Elems(queue) : <<a, b>> \in Precedes
    BY <1>2 DEF Way, OrderInv
  <2> QED BY <1>1, <1>3, <2>1 DEF Way, OrderInv
<1>6. TruthInv'
  <2>1. \A j \in Jobs : home'[j] # 0 <=> j \in Elems(log')
    BY <1>3 DEF Way, TruthInv
  <2>2. AnswerIsTruth'
    BY <1>2 DEF Way, TruthInv, AnswerIsTruth
  <2>3. writer' \in {"bump", "answer"} =>
          \A j \in Elems(batch') : home'[j] # 0 <=> verdict' = "committed"
    BY <1>2
  <2>4. writer' = "replied" => (home'[Head(batch')] # 0 <=> verdict' = "committed")
    BY <1>2
  <2> QED BY <2>1, <2>2, <2>3, <2>4 DEF TruthInv
<1> QED BY <1>4, <1>5, <1>6 DEF Way

(* Undecided jobs do not commit.                                            *)
LEMMA FailKeeps ==
  ASSUME Inv, Way, Undecided = Elems(batch), batch # <<>>, Undecided' \subseteq Undecided,
         UNCHANGED <<pc, answer, sent, queue, deferred, batch, epoch, log, home>>,
         writer' = "replay" \/ verdict' # "committed",
         writer' # "collect",
         writer' \in {"replace", "drain", "swap", "bump"} => Elems(batch) = {Head(batch)}
  PROVE  Way'
<1>1. Precedes' = Precedes /\ Aside' = Aside
  BY DEF Precedes, Aside
<1>2. Head(batch) \in Elems(batch)
  BY HeadTail DEF Inv, TypeOK
<1>3. \A j \in Elems(batch) : home[j] = 0
  BY OnTheWay
<1>4. TravelInv'
  BY <1>1 DEF Way, TravelInv
<1>5. OrderInv'
  BY <1>1 DEF Way, OrderInv
<1>6. TruthInv'
  BY <1>2, <1>3 DEF Way, TruthInv, AnswerIsTruth
<1> QED BY <1>4, <1>5, <1>6 DEF Way

(* A transaction on the whole batch, which the writer then answers.         *)
LEMMA ExecuteKeeps ==
  ASSUME Inv, Way, writer \in {"batch", "one"}, Execute(batch), writer' = "answer",
         UNCHANGED <<pc, answer, sent, queue, deferred, batch>>
  PROVE  Way'
<1>1. batch \in Seq(Jobs) /\ batch # <<>> /\ Undecided = Elems(batch) /\ Undecided' = {}
  BY DEF Inv, TypeOK, BatchInv, Undecided
<1>2. CASE Commit(batch) /\ verdict' = "committed"
  <2>1. log' = log \o batch /\ epoch' # 0 /\ Sorted(batch, Precedes)
    BY <1>2 DEF Commit, Way, TruthInv, OrderInv
  <2>2. \A j \in Jobs : home'[j] # 0 <=> home[j] # 0 \/ j \in Elems(batch)
    <3>1. \A j \in Jobs : home'[j] = IF \E i \in DOMAIN batch : batch[i] = j THEN epoch ELSE home[j]
      BY <1>2 DEF Commit
    <3>2. \A j \in Jobs : j \in Elems(batch) <=> \E i \in DOMAIN batch : batch[i] = j
      BY <1>1, ElemsIn DEF Elems
    <3> QED BY <3>1, <3>2 DEF Way, TruthInv
  <2> QED BY <1>1, <1>2, <2>1, <2>2, CommitKeeps
<1>3. CASE UNCHANGED database /\ verdict' = "failed"
  BY <1>1, <1>3, FailKeeps DEF database
<1> QED BY <1>2, <1>3 DEF Execute

LEMMA RunKeeps ==
  ASSUME Inv, Way, RunBatch \/ RunOne
  PROVE  Way'
<1>1. UNCHANGED <<pc, answer, sent, queue, deferred, batch>> /\ writer \in {"batch", "one"}
  BY DEF RunBatch, RunOne, callers
<1>2. Undecided = Elems(batch) /\ batch # <<>>
  BY <1>1 DEF Undecided, Inv, BatchInv
<1>3. CASE writer' = "answer" /\ Execute(batch)
  BY <1>1, <1>3, ExecuteKeeps
<1>4. CASE writer' = "answer" /\ verdict' = "refused" /\ UNCHANGED database
  <2>1. Undecided' = {}
    BY <1>4 DEF Undecided
  <2> QED BY <1>1, <1>2, <1>4, <2>1, FailKeeps DEF database
<1>5. CASE writer' = "replay" /\ UNCHANGED database
  <2>1. Undecided' = Elems(batch)
    BY <1>1, <1>5 DEF Undecided
  <2> QED BY <1>1, <1>2, <1>5, <2>1, FailKeeps DEF database
<1> QED BY <1>3, <1>4, <1>5 DEF RunBatch, RunOne

LEMMA RunAloneKeeps ==
  ASSUME Inv, Way, RunAlone
  PROVE  Way'
<1> DEFINE j == Head(batch)
<1>1. /\ batch \in Seq(Jobs) /\ batch # <<>> /\ Undecided = Elems(batch)
      /\ writer' = "replied" /\ Undecided' = Elems(Tail(batch))
      /\ UNCHANGED <<pc, answer, sent, queue, deferred, batch>>
  BY DEF Inv, TypeOK, BatchInv, RunAlone, Undecided, callers
<1>2. j \in Jobs /\ j \in Elems(batch) /\ Elems(Tail(batch)) \subseteq Elems(batch)
  BY <1>1, HeadTail
<1>3. \A e \in Elems(Tail(batch)) : <<j, e>> \in Precedes
  BY <1>1, SortedTail DEF Way, OrderInv
<1> HIDE DEF j
<1>4. <<j>> \in Seq(Jobs) /\ Elems(<<j>>) = {j} /\ Sorted(<<j>>, Precedes)
  BY <1>2, Singleton, SortedOne
<1>5. CASE Commit(<<j>>) /\ verdict' = "committed"
  <2>1. log' = log \o <<j>> /\ epoch' # 0
    BY <1>5 DEF Commit, Way, TruthInv
  <2>2. \A k \in Jobs : home'[k] # 0 <=> home[k] # 0 \/ k \in Elems(<<j>>)
    <3>1. \A k \in Jobs : home'[k] = IF \E i \in DOMAIN <<j>> : <<j>>[i] = k THEN epoch ELSE home[k]
      BY <1>5 DEF Commit
    <3>2. \A k \in Jobs : k \in Elems(<<j>>) <=> \E i \in DOMAIN <<j>> : <<j>>[i] = k
      BY <1>4, ElemsIn DEF Elems
    <3> QED BY <3>1, <3>2 DEF Way, TruthInv
  <2> QED BY <1>1, <1>2, <1>3, <1>4, <1>5, <2>1, <2>2, CommitKeeps DEF j
<1>6. CASE UNCHANGED database /\ verdict' = "failed"
  BY <1>1, <1>2, <1>6, FailKeeps DEF database
<1> QED BY <1>5, <1>6 DEF RunAlone, Execute, j

LEMMA ReplaceKeeps ==
  ASSUME Inv, Way, Replace
  PROVE  Way'
<1> DEFINE j == Head(batch)
<1>1. /\ batch \in Seq(Jobs) /\ batch # <<>> /\ Undecided = Elems(batch) /\ Undecided' = {}
      /\ writer' = "bump" /\ Elems(batch) = {j} /\ log \in Seq(Jobs)
      /\ home \in [Jobs -> Nat] /\ epoch \in Nat
      /\ UNCHANGED <<pc, answer, sent, queue, deferred, batch>>
  BY DEF Inv, TypeOK, BatchInv, Replace, Undecided, callers, Way, TruthInv
<1>2. j \in Jobs
  BY <1>1, HeadTail
<1> HIDE DEF j
<1>3. /\ <<j>> \in Seq(Jobs) /\ Elems(<<j>>) = {j} /\ Sorted(<<j>>, Precedes)
      /\ log \o <<j>> = Append(log, j)
  BY <1>1, <1>2, Singleton, SortedOne, AppendIsConcat
<1>4. CASE /\ epoch' = epoch + 1
           /\ log' = Append(log, j)
           /\ home' = [home EXCEPT ![j] = epoch + 1]
           /\ verdict' = "committed"
  <2>1. \A k \in Jobs : home'[k] # 0 <=> home[k] # 0 \/ k \in Elems(<<j>>)
    BY <1>1, <1>2, <1>3, <1>4
  <2>2. epoch' # 0
    BY <1>1, <1>4
  <2> QED BY <1>1, <1>2, <1>3, <1>4, <2>1, <2>2, CommitKeeps DEF j
<1>5. CASE UNCHANGED <<epoch, log, home>> /\ verdict' = "failed"
  BY <1>1, <1>5, FailKeeps DEF j
<1> QED BY <1>4, <1>5 DEF Replace, j

(* Every step keeps a call on its way.                                      *)
LEMMA WayPreserved == Inv /\ Way /\ [Next]_vars => Way'
<1> SUFFICES ASSUME Inv, Way, [Next]_vars PROVE Way'
  OBVIOUS
<1>1. pc \in [Jobs -> CallerStates]
  BY DEF Inv, TypeOK
<1>2. ASSUME NEW j \in Jobs, Submit(j) PROVE Way'
  <2>1. CASE Send(j)
    BY <2>1, SendKeeps
  <2>2. CASE ~Send(j)
    <3>1. UNCHANGED <<answer, thread, epoch, log, home, sent>>
      BY <1>2, <2>2 DEF Submit, Build, Count, RefuseClosed, LockSender, SendFails, Withdraw, Accept,
                        Receive, database
    <3>2. \A k \in Jobs : pc'[k] \in Early => pc[k] \in Early
      BY <1>1, <1>2, <2>2 DEF Submit, Build, Count, RefuseClosed, LockSender, SendFails, Withdraw,
                              Accept, Receive, Goto, Early
    <3>3. \A k \in Jobs : pc'[k] = "done" => answer[k] # "none"
      BY <1>1, <1>2, <2>2 DEF Submit, Build, Count, RefuseClosed, LockSender, SendFails, Withdraw,
                              Accept, Receive, Goto, Way, TravelInv
    <3> QED BY <3>1, <3>2, <3>3, CallerKeeps
  <2> QED BY <2>1, <2>2
<1>3. CASE WriterLoop /\ ~Tally
  BY <1>3, TakeFirstKeeps, CollectKeeps, BatchRefuseKeeps, RunKeeps, RunAloneKeeps, AnswerKeeps,
     DrainKeeps, ReplaceKeeps, StepKeeps DEF WriterLoop
<1>4. CASE Close \/ Tally \/ UNCHANGED vars
  <2>1. UNCHANGED <<pc, answer, thread, epoch, log, home, sent>>
    BY <1>4 DEF Close, CloseBegin, CloseTake, Tally, callers, database, vars
  <2>2. \A j \in Jobs : pc[j] = "done" => answer[j] # "none"
    BY DEF Way, TravelInv
  <2> QED BY <2>1, <2>2, CallerKeeps
<1> QED BY <1>2, <1>3, <1>4 DEF Next, WriterLoop, Finished

LEMMA WayInvariant == Spec => [](Inv /\ Way)
<1>1. Init => Way
  <2> SUFFICES ASSUME Init PROVE Way
    OBVIOUS
  <2>1. Len(<<>>) = 0 /\ 1..0 = {}
    BY EmptySeq
  <2>2. /\ Elems(queue) = {} /\ Elems(batch) = {} /\ Elems(log) = {} /\ Elems(sent) = {}
        /\ Aside = {}
    BY <2>1 DEF Init, Elems, Aside
  <2>3. Sorted(queue, Precedes) /\ Sorted(batch, Precedes) /\ Sorted(log, Precedes)
    BY <2>1 DEF Init, Sorted
  <2>4. TravelInv
    BY <2>1, <2>2 DEF Init, TravelInv
  <2>5. OrderInv
    BY <2>2, <2>3 DEF Init, OrderInv
  <2>6. TruthInv
    BY <2>2 DEF Init, TruthInv, AnswerIsTruth
  <2> QED BY <2>4, <2>5, <2>6 DEF Way
<1>2. Inv /\ Way /\ [Next]_vars => Way'
  BY WayPreserved
<1> QED BY <1>1, <1>2, Invariance, PTL DEF Spec

(* A caller told its write was committed has it in the database, and one    *)
(* told otherwise does not, through failed batches, replays, refusals and   *)
(* replacements (run_batch, run_alone, run_one, run_replace, resolve).      *)
THEOREM RepliesAreTrue == Spec => []AnswerIsTruth
<1>1. Way => AnswerIsTruth
  BY DEF Way, TruthInv
<1> QED BY <1>1, WayInvariant, PTL

(* The log is in the order of the channel and repeats nothing: the job set  *)
(* aside is not overtaken, a replay keeps the order (writer_loop, run_batch).*)
THEOREM CommitsFollowTheChannel == Spec => []CommitOrder
<1>1. Inv /\ Way => CommitOrder
  <2> SUFFICES ASSUME Inv, Way, NEW a \in DOMAIN log, NEW b \in DOMAIN log, a < b
               PROVE  \E x, y \in DOMAIN sent : x < y /\ sent[x] = log[a] /\ sent[y] = log[b]
    BY DEF CommitOrder
  <2>1. DOMAIN log = 1..Len(log) /\ DOMAIN sent = 1..Len(sent)
    BY DEF Inv, TypeOK
  <2>2. <<log[a], log[b]>> \in Precedes
    BY <2>1 DEF Way, OrderInv, Sorted
  <2> QED BY <2>1, <2>2 DEF Precedes
<1> QED BY <1>1, WayInvariant, PTL

-----------------------------------------------------------------------------
(* The counters.                                                            *)

(* The parts of Accounting, and that the writer works on one job at a time. *)
Replied == {j \in Jobs : answer[j] # "none"}
Taken == {j \in Jobs : pc[j] \in {"waiting", "done"}}

TallyInv == tally > 0 => InResolve
QueuedPart == queued = Cardinality(Outstanding) - Ahead(1)
DonePart == completed = Cardinality(Replied) + Ahead(2)
StatusPart ==
  \A status \in Outcomes :
    Total(status) = Cardinality(Answered(status)) + (IF status = ReplyStatus THEN Ahead(3) ELSE 0)
TakenPart == accepted = Cardinality(Taken)

Counts == TallyInv /\ QueuedPart /\ DonePart /\ StatusPart /\ TakenPart

LEMMA OneMore ==
  ASSUME NEW S \in SUBSET Jobs, NEW x \in Jobs, x \notin S
  PROVE  Cardinality(S \cup {x}) = Cardinality(S) + 1
  BY QueueAssumption, FS_Subset, FS_AddElement

LEMMA OneLess ==
  ASSUME NEW S \in SUBSET Jobs, NEW x \in S
  PROVE  Cardinality(S \ {x}) = Cardinality(S) - 1
  BY QueueAssumption, FS_Subset, FS_RemoveElement

LEMMA Sizes ==
  ASSUME NEW S \in SUBSET Jobs
  PROVE  Cardinality(S) \in Nat /\ (S # {} => Cardinality(S) >= 1)
<1>1. IsFiniteSet(S)
  BY QueueAssumption, FS_Subset
<1>2. Cardinality(S) \in Nat /\ (Cardinality(S) = 0 <=> S = {})
  BY <1>1, FS_CardinalityType, FS_EmptySet
<1> QED BY <1>2

(* The job in resolve is outstanding, so the counter has room for it.       *)
LEMMA CountsSuffice ==
  ASSUME Inv, Way, Counts
  PROVE  Accounting
<1>1. ASSUME InResolve PROVE Outstanding # {}
  <2>1. PICK j : j \in Elems(queue) \cup Elems(batch)
    <3>1. CASE queue # <<>>
      BY <3>1, HeadTail DEF Inv, TypeOK
    <3>2. CASE batch # <<>>
      BY <3>2, HeadTail DEF Inv, TypeOK
    <3> QED BY <1>1, <3>1, <3>2 DEF InResolve, Inv, BatchInv
  <2>2. j \in Jobs /\ pc[j] \in {"sent", "waiting"} /\ answer[j] = "none"
    BY <2>1, OnTheWay
  <2> QED BY <2>2 DEF Outstanding
<1>2. Outstanding \in SUBSET Jobs
  BY DEF Outstanding
<1>3. Cardinality(Outstanding) \in Nat /\ (tally > 0 => Cardinality(Outstanding) >= 1)
  BY <1>1, <1>2, Sizes DEF Counts, TallyInv
<1>4. tally \in 0..3
  BY DEF Inv, TypeOK
<1>5. queued >= 0
  BY <1>3, <1>4 DEF Counts, QueuedPart, Ahead
<1> QED BY <1>5 DEF Counts, QueuedPart, DonePart, StatusPart, TakenPart, Replied, Taken, Accounting

(* resolve is not left before its reply, and nothing else runs meanwhile.   *)
LEMMA ResolveGoesOn ==
  ASSUME Inv, InResolve, UNCHANGED <<writer, batch, generation>>, queue' = queue \/ queue' # <<>>,
         \A j \in Jobs : Built(j) => stamp'[j] = stamp[j]
  PROVE  InResolve'
<1>1. \A i \in DOMAIN batch : stamp'[batch[i]] = stamp[batch[i]]
  <2> SUFFICES ASSUME NEW i \in DOMAIN batch PROVE stamp'[batch[i]] = stamp[batch[i]]
    OBVIOUS
  <2>1. batch[i] \in Jobs /\ batch[i] \in Elems(batch)
    BY DEF Inv, TypeOK, Elems
  <2> QED BY <2>1 DEF Inv, HeldInv
<1>2. Live' <=> Live
  BY <1>1 DEF Live, Stale
<1> QED BY <1>2 DEF InResolve

LEMMA OtherWork ==
  ASSUME Inv, TallyInv,
         \/ TakeFirst \/ Collect \/ RunBatch \/ RunAlone \/ RunOne \/ BeginReplace \/ Replace
         \/ Bump \/ WriterExit \/ (Drain /\ queue = <<>>)
  PROVE  tally = 0 /\ tally' = 0 /\ UNCHANGED <<callers, counters>>
<1>1. tally \in 0..3
  BY DEF Inv, TypeOK
<1>2. ~InResolve
  BY DEF InResolve, TakeFirst, Collect, RunBatch, RunAlone, RunOne, BeginReplace, Replace, Bump,
         WriterExit, Drain
<1>3. UNCHANGED <<callers, counters>>
  BY DEF TakeFirst, Collect, RunBatch, RunAlone, RunOne, BeginReplace, Replace, Bump, WriterExit,
         Drain
<1> QED BY <1>1, <1>2, <1>3 DEF TallyInv, counters

(* A step that moves no call in or out of the counted ones.                 *)
LEMMA CountsStay ==
  ASSUME Counts, UNCHANGED <<answer, queued, accepted, completed, committed, refused, failed, tally>>,
         Outstanding' = Outstanding, Taken' = Taken, TallyInv',
         tally # 0 => UNCHANGED <<writer, verdict>>, tally \in 0..3
  PROVE  Counts'
<1>1. QueuedPart' /\ DonePart' /\ TakenPart'
  BY DEF Counts, QueuedPart, DonePart, TakenPart, Replied, Ahead
<1>2. ASSUME NEW status \in Outcomes
      PROVE  /\ Total(status)' = Total(status) /\ Answered(status)' = Answered(status)
             /\ (IF status = ReplyStatus' THEN Ahead(3)' ELSE 0)
                  = (IF status = ReplyStatus THEN Ahead(3) ELSE 0)
  <2>1. Total(status)' = Total(status) /\ Answered(status)' = Answered(status)
    BY DEF Total, Answered
  <2>2. CASE tally # 0
    <3>1. ReplyStatus' = ReplyStatus /\ Ahead(3)' = Ahead(3)
      BY <2>2 DEF ReplyStatus, Ahead
    <3> QED BY <2>1, <3>1
  <2>3. CASE tally = 0
    <3>1. Ahead(3)' = 0 /\ Ahead(3) = 0
      BY <2>3 DEF Ahead
    <3> QED BY <2>1, <3>1
  <2> QED BY <2>1, <2>2, <2>3
<1>3. StatusPart'
  BY <1>2 DEF Counts, StatusPart
<1> QED BY <1>1, <1>3 DEF Counts

(* The reply takes its call from the outstanding ones to the answered ones. *)
LEMMA ResolveCounts ==
  ASSUME Inv, Counts, NEW j \in Jobs, Resolve(j, ReplyStatus),
         pc[j] \in {"sent", "waiting"}, answer[j] = "none"
  PROVE  Counts'
<1>0. PICK given \in Outcomes : given = ReplyStatus
  BY DEF Inv, TypeOK, ReplyStatus, Outcomes
<1>1. /\ answer \in [Jobs -> Outcomes \cup {"none"}]
      /\ committed \in Nat /\ refused \in Nat /\ failed \in Nat /\ queued \in Int /\ completed \in Nat
  BY DEF Inv, TypeOK
<1>2. /\ answer' = [answer EXCEPT ![j] = given] /\ tally = 3 /\ tally' = 0
      /\ UNCHANGED <<pc, accepted, queued, completed, committed, refused, failed>>
  BY <1>0 DEF Resolve
<1>3. Outstanding' = Outstanding \ {j} /\ j \in Outstanding
  BY <1>1, <1>2 DEF Outstanding, Outcomes
<1>4. Replied' = Replied \cup {j} /\ j \notin Replied
  BY <1>1, <1>2 DEF Replied, Outcomes
<1>5. Outstanding \in SUBSET Jobs /\ Replied \in SUBSET Jobs
  BY DEF Outstanding, Replied
<1>6. QueuedPart'
  <2>1. queued = Cardinality(Outstanding) - 1
    BY <1>2 DEF Counts, QueuedPart, Ahead
  <2>2. queued' = Cardinality(Outstanding')
    BY <1>2, <1>3, <1>5, <2>1, OneLess
  <2>3. Ahead(1)' = 0
    BY <1>2 DEF Ahead
  <2> QED BY <1>1, <1>2, <2>2, <2>3 DEF QueuedPart
<1>7. DonePart'
  <2>1. completed = Cardinality(Replied) + 1
    BY <1>2 DEF Counts, DonePart, Ahead
  <2>2. completed' = Cardinality(Replied')
    BY <1>2, <1>4, <1>5, <2>1, OneMore
  <2>3. Ahead(2)' = 0
    BY <1>2 DEF Ahead
  <2> QED BY <1>1, <1>2, <2>2, <2>3 DEF DonePart
<1>8. StatusPart'
  <2> SUFFICES ASSUME NEW o \in Outcomes PROVE Total(o)' = Cardinality(Answered(o)')
    <3>1. Ahead(3)' = 0 /\ \A o \in Outcomes : Cardinality(Answered(o)') \in Nat
      <4>1. \A o \in Outcomes : Answered(o)' \in SUBSET Jobs
        BY DEF Answered
      <4> QED BY <1>2, <4>1, Sizes DEF Ahead
    <3> QED BY <3>1 DEF StatusPart
  <2>1. Total(o)' = Total(o) /\ Answered(o) \in SUBSET Jobs
    BY <1>2 DEF Total, Answered
  <2>2. Total(o) = Cardinality(Answered(o)) + (IF o = given THEN 1 ELSE 0)
    BY <1>0, <1>2 DEF Counts, StatusPart, Ahead
  <2>3. CASE o = given
    <3>1. Answered(o)' = Answered(o) \cup {j} /\ j \notin Answered(o)
      BY <1>1, <1>2, <2>3 DEF Answered, Outcomes
    <3> QED BY <2>1, <2>2, <2>3, <3>1, OneMore
  <2>4. CASE o # given
    <3>1. Answered(o)' = Answered(o)
      BY <1>1, <1>2, <2>4 DEF Answered, Outcomes
    <3>2. Cardinality(Answered(o)) \in Nat
      BY <2>1, Sizes
    <3> QED BY <2>1, <2>2, <2>4, <3>1, <3>2
  <2> QED BY <2>3, <2>4
<1>9. TakenPart' /\ TallyInv'
  BY <1>2 DEF Counts, TakenPart, Taken, TallyInv
<1> QED BY <1>6, <1>7, <1>8, <1>9 DEF Counts

(* A counter of the job in resolve is updated.                              *)
LEMMA TallyCounts ==
  ASSUME Inv, Counts, Tally
  PROVE  Counts'
<1>1. /\ UNCHANGED <<callers, accepted, thread, generation>> /\ tally' = tally + 1 /\ InResolve
      /\ tally \in 0..2
  BY DEF Tally
<1>2. UNCHANGED <<pc, answer, stamp, queue, writer, batch, verdict>>
  BY <1>1 DEF callers, thread
<1>3. /\ Outstanding' = Outstanding /\ Replied' = Replied /\ Taken' = Taken
      /\ ReplyStatus' = ReplyStatus /\ \A o \in Outcomes : Answered(o)' = Answered(o)
  BY <1>2 DEF Outstanding, Replied, Taken, ReplyStatus, Answered
<1>4. /\ Cardinality(Outstanding) \in Nat /\ Cardinality(Replied) \in Nat
      /\ \A o \in Outcomes : Cardinality(Answered(o)) \in Nat
  <2>1. /\ Outstanding \in SUBSET Jobs /\ Replied \in SUBSET Jobs
        /\ \A o \in Outcomes : Answered(o) \in SUBSET Jobs
    BY DEF Outstanding, Replied, Answered
  <2> QED BY <2>1, Sizes
<1>5. TallyInv'
  <2>1. InResolve'
    BY <1>1, <1>2, ResolveGoesOn
  <2> QED BY <2>1 DEF TallyInv
<1>6. TakenPart'
  BY <1>1, <1>3 DEF Counts, TakenPart
<1>7. QueuedPart'
  <2>1. queued' = queued - (IF tally = 0 THEN 1 ELSE 0)
    BY <1>1 DEF Tally, Inv, TypeOK
  <2>2. queued = Cardinality(Outstanding) - Ahead(1)
    BY DEF Counts, QueuedPart
  <2> QED BY <1>1, <1>3, <1>4, <2>1, <2>2 DEF QueuedPart, Ahead
<1>8. DonePart'
  <2>1. completed' = completed + (IF tally = 1 THEN 1 ELSE 0)
    BY <1>1 DEF Tally, Inv, TypeOK
  <2>2. completed = Cardinality(Replied) + Ahead(2)
    BY DEF Counts, DonePart
  <2> QED BY <1>1, <1>3, <1>4, <2>1, <2>2 DEF DonePart, Ahead
<1>9. StatusPart'
  <2> SUFFICES ASSUME NEW o \in Outcomes
               PROVE  Total(o)' = Cardinality(Answered(o)) + (IF o = ReplyStatus THEN Ahead(3)' ELSE 0)
    BY <1>3 DEF StatusPart
  <2>1. Total(o) = Cardinality(Answered(o)) + (IF o = ReplyStatus THEN Ahead(3) ELSE 0)
    BY DEF Counts, StatusPart
  <2>2. Total(o)' = Total(o) + (IF tally = 2 /\ o = ReplyStatus THEN 1 ELSE 0)
    <3>1. committed \in Nat /\ refused \in Nat /\ failed \in Nat
      BY DEF Inv, TypeOK
    <3>2. CASE tally = 2
      BY <3>1, <3>2 DEF Tally, Total, Outcomes
    <3>3. CASE tally # 2
      <4>1. UNCHANGED <<committed, refused, failed>>
        BY <3>3 DEF Tally
      <4>2. Total(o)' = Total(o) /\ Total(o) \in Nat
        BY <3>1, <4>1 DEF Total, Outcomes
      <4> QED BY <3>3, <4>2
    <3> QED BY <3>2, <3>3
  <2>3. Cardinality(Answered(o)) \in Nat
    BY <1>4
  <2> QED BY <1>1, <2>1, <2>2, <2>3 DEF Ahead
<1> QED BY <1>5, <1>6, <1>7, <1>8, <1>9 DEF Counts

LEMMA CountersPreserved == Inv /\ Way /\ Counts /\ [Next]_vars => Counts'
<1> SUFFICES ASSUME Inv, Way, Counts, [Next]_vars PROVE Counts'
  OBVIOUS
<1>1. /\ pc \in [Jobs -> CallerStates] /\ queued \in Int /\ accepted \in Nat /\ tally \in 0..3
      /\ queue \in Seq(Jobs) /\ batch \in Seq(Jobs) /\ verdict \in Outcomes
      /\ stamp \in [Jobs -> Nat]
  BY DEF Inv, TypeOK
<1>2. /\ queued = Cardinality(Outstanding) - Ahead(1) /\ accepted = Cardinality(Taken)
      /\ Outstanding \in SUBSET Jobs /\ Taken \in SUBSET Jobs
      /\ Cardinality(Outstanding) \in Nat /\ Cardinality(Taken) \in Nat /\ Ahead(1) \in {0, 1}
  <2>1. Outstanding \in SUBSET Jobs /\ Taken \in SUBSET Jobs
    BY DEF Outstanding, Taken
  <2> QED BY <2>1, Sizes DEF Counts, QueuedPart, TakenPart, Ahead
<1>3. ASSUME NEW j \in Jobs, Submit(j) PROVE TallyInv' /\ UNCHANGED <<writer, verdict, tally>>
  <2>1. UNCHANGED <<writer, batch, verdict, generation, tally>>
    BY <1>3 DEF Submit, Build, Count, RefuseClosed, LockSender, Send, SendFails, Withdraw, Accept,
                Receive, thread, counters
  <2>2. queue' = queue \/ queue' # <<>>
    <3>1. CASE Send(j)
      BY <1>1, <3>1, Longer, NonEmpty DEF Send
    <3>2. CASE ~Send(j)
      BY <1>3, <3>2 DEF Submit, Build, Count, RefuseClosed, LockSender, SendFails, Withdraw, Accept,
                        Receive, thread
    <3> QED BY <3>1, <3>2
  <2>3. \A k \in Jobs : Built(k) => stamp'[k] = stamp[k]
    BY <1>1, <1>3 DEF Submit, Build, Count, RefuseClosed, LockSender, Send, SendFails, Withdraw,
                      Accept, Receive, Goto, Built
  <2>4. InResolve => InResolve'
    BY <2>1, <2>2, <2>3, ResolveGoesOn
  <2> QED BY <2>1, <2>4 DEF Counts, TallyInv
<1>4. \A j \in Jobs : pc[j] \in Early => answer[j] = "none"
  BY DEF Way, TravelInv
<1>5. ASSUME NEW j \in Jobs,
             \/ Build(j) \/ RefuseClosed(j) \/ LockSender(j) \/ Send(j) \/ Withdraw(j) \/ Receive(j)
      PROVE  Counts'
  <2>1. UNCHANGED <<answer, queued, accepted, completed, committed, refused, failed, tally>>
    BY <1>5 DEF Build, RefuseClosed, LockSender, Send, Withdraw, Receive, counters
  <2>2. /\ \/ pc[j] = "idle" /\ pc' = [pc EXCEPT ![j] = "built"]
           \/ pc[j] \in {"built", "unsent"} /\ pc' = [pc EXCEPT ![j] = "rejected"]
           \/ pc[j] = "counted" /\ pc' = [pc EXCEPT ![j] = "locked"]
           \/ pc[j] = "locked" /\ pc' = [pc EXCEPT ![j] = "sent"]
           \/ pc[j] = "waiting" /\ answer[j] # "none" /\ pc' = [pc EXCEPT ![j] = "done"]
    BY <1>5 DEF Build, RefuseClosed, LockSender, Send, Withdraw, Receive, Goto
  <2>3. Outstanding' = Outstanding
    BY <1>1, <1>4, <2>1, <2>2 DEF Outstanding, Early
  <2>4. Taken' = Taken
    BY <1>1, <2>2 DEF Taken
  <2>5. TallyInv' /\ UNCHANGED <<writer, verdict>>
    BY <1>3, <1>5 DEF Submit
  <2> QED BY <1>1, <2>1, <2>3, <2>4, <2>5, CountsStay
<1>6. ASSUME NEW j \in Jobs, UNCHANGED <<answer, completed, committed, refused, failed, tally>>,
             UNCHANGED <<writer, verdict>>, TallyInv', QueuedPart', TakenPart'
      PROVE  Counts'
  <2>1. DonePart'
    BY <1>6 DEF Counts, DonePart, Replied, Ahead
  <2>2. \A o \in Outcomes : Total(o)' = Total(o) /\ Answered(o)' = Answered(o)
    BY <1>6 DEF Total, Answered
  <2>3. ReplyStatus' = ReplyStatus /\ Ahead(3)' = Ahead(3)
    BY <1>6 DEF ReplyStatus, Ahead
  <2>4. StatusPart'
    BY <2>2, <2>3 DEF Counts, StatusPart
  <2> QED BY <1>6, <2>1, <2>4 DEF Counts
<1>7. ASSUME NEW j \in Jobs, Count(j) \/ SendFails(j) \/ Accept(j) PROVE Counts'
  <2>1. /\ UNCHANGED <<answer, completed, committed, refused, failed, tally>>
        /\ UNCHANGED <<writer, verdict>> /\ TallyInv' /\ Ahead(1)' = Ahead(1)
    <3>1. UNCHANGED <<answer, completed, committed, refused, failed, tally>>
      BY <1>7 DEF Count, SendFails, Accept
    <3> QED BY <1>3, <1>7, <3>1 DEF Submit, Ahead
  <2>2. CASE Count(j)
    <3>1. /\ pc[j] = "built" /\ pc' = [pc EXCEPT ![j] = "counted"] /\ queued' = queued + 1
          /\ accepted' = accepted
      BY <2>2 DEF Count, Goto
    <3>2. Outstanding' = Outstanding \cup {j} /\ j \notin Outstanding /\ Taken' = Taken
      BY <1>1, <2>1, <3>1 DEF Outstanding, Taken
    <3>3. Cardinality(Outstanding') = Cardinality(Outstanding) + 1
      BY <1>2, <3>2, OneMore
    <3> QED BY <1>2, <1>6, <2>1, <3>1, <3>2, <3>3 DEF QueuedPart, TakenPart
  <2>3. CASE SendFails(j)
    <3>1. /\ pc[j] = "locked" /\ pc' = [pc EXCEPT ![j] = "unsent"] /\ queued' = queued - 1
          /\ accepted' = accepted
      BY <2>3 DEF SendFails, Goto
    <3>2. Outstanding' = Outstanding \ {j} /\ j \in Outstanding /\ Taken' = Taken
      BY <1>1, <2>1, <3>1 DEF Outstanding, Taken
    <3>3. Cardinality(Outstanding') = Cardinality(Outstanding) - 1
      BY <1>2, <3>2, OneLess
    <3> QED BY <1>2, <1>6, <2>1, <3>1, <3>2, <3>3 DEF QueuedPart, TakenPart
  <2>4. CASE Accept(j)
    <3>1. /\ pc[j] = "sent" /\ pc' = [pc EXCEPT ![j] = "waiting"] /\ accepted' = accepted + 1
          /\ queued' = queued
      BY <2>4 DEF Accept, Goto
    <3>2. Taken' = Taken \cup {j} /\ j \notin Taken /\ Outstanding' = Outstanding
      BY <1>1, <2>1, <3>1 DEF Outstanding, Taken
    <3>3. Cardinality(Taken') = Cardinality(Taken) + 1
      BY <1>2, <3>2, OneMore
    <3> QED BY <1>2, <1>6, <2>1, <3>1, <3>2, <3>3 DEF QueuedPart, TakenPart
  <2> QED BY <1>7, <2>2, <2>3, <2>4
<1>9. ASSUME NEW j \in Elems(queue) \cup Elems(batch), Resolve(j, ReplyStatus) PROVE Counts'
  <2>1. j \in Jobs /\ pc[j] \in {"sent", "waiting"} /\ answer[j] = "none"
    BY OnTheWay
  <2> QED BY <1>9, <2>1, ResolveCounts
<1>10. CASE BatchRefuse
  <2>1. PICK i \in DOMAIN batch : Resolve(batch[i], "refused")
    BY <1>10 DEF BatchRefuse
  <2>2. batch[i] \in Elems(batch) /\ ReplyStatus = "refused"
    BY <1>1, <1>10 DEF Elems, BatchRefuse, ReplyStatus
  <2> QED BY <1>9, <2>1, <2>2
<1>11. CASE Answer
  <2>1. batch # <<>> /\ Resolve(Head(batch), verdict) /\ ReplyStatus = verdict
    BY <1>11 DEF Answer, Inv, BatchInv, ReplyStatus
  <2>2. Head(batch) \in Elems(batch)
    BY <1>1, <2>1, HeadTail
  <2> QED BY <1>9, <2>1, <2>2
<1>12. CASE Drain /\ queue # <<>>
  <2>1. Resolve(Head(queue), "refused") /\ ReplyStatus = "refused"
    BY <1>12 DEF Drain, ReplyStatus
  <2>2. Head(queue) \in Elems(queue)
    BY <1>1, <1>12, HeadTail
  <2> QED BY <1>9, <2>1, <2>2
<1>13. ASSUME UNCHANGED <<callers, counters>>, tally # 0 => UNCHANGED <<writer, verdict>>, TallyInv'
       PROVE  Counts'
  <2>1. UNCHANGED <<pc, answer, queued, accepted, completed, committed, refused, failed, tally>>
    BY <1>13 DEF callers, counters
  <2>2. Outstanding' = Outstanding /\ Taken' = Taken
    BY <2>1 DEF Outstanding, Taken
  <2> QED BY <1>1, <1>13, <2>1, <2>2, CountsStay
<1>14. CASE WriterLoop
  <2>1. CASE \/ TakeFirst \/ Collect \/ RunBatch \/ RunAlone \/ RunOne \/ BeginReplace \/ Replace
             \/ Bump \/ WriterExit \/ (Drain /\ queue = <<>>)
    <3>1. tally = 0 /\ tally' = 0 /\ UNCHANGED <<callers, counters>>
      BY <2>1, OtherWork DEF Counts
    <3> QED BY <1>13, <3>1 DEF TallyInv
  <2> QED BY <1>10, <1>11, <1>12, <1>14, <2>1, TallyCounts DEF WriterLoop
<1>15. CASE Close \/ UNCHANGED vars
  <2>1. UNCHANGED <<callers, counters, thread, generation>>
    BY <1>15 DEF Close, CloseBegin, CloseTake, vars
  <2>2. UNCHANGED <<stamp, writer, batch, verdict, queue, tally>>
    BY <2>1 DEF callers, counters, thread
  <2>3. InResolve => InResolve'
    BY <2>1, <2>2, ResolveGoesOn
  <2> QED BY <1>13, <2>1, <2>2, <2>3 DEF Counts, TallyInv
<1> QED BY <1>5, <1>7, <1>14, <1>15 DEF Next, Submit, Finished

(* The counters never trail the replies and are ahead of them by at most    *)
(* the job in resolve, between any two updates that submit and resolve      *)
(* make, and the unsigned queued never wraps.                               *)
THEOREM CountersLeadReplies == Spec => []Accounting
<1>1. Init => Counts
  <2> SUFFICES ASSUME Init PROVE Counts
    OBVIOUS
  <2>1. Outstanding = {} /\ Replied = {} /\ Taken = {} /\ \A o \in Outcomes : Answered(o) = {}
    BY DEF Init, Outstanding, Replied, Taken, Answered, Outcomes
  <2>2. Cardinality({}) = 0
    BY FS_EmptySet
  <2>3. /\ queued = 0 /\ completed = 0 /\ committed = 0 /\ refused = 0 /\ failed = 0
        /\ accepted = 0 /\ tally = 0
    BY DEF Init
  <2>4. Ahead(1) = 0 /\ Ahead(2) = 0 /\ Ahead(3) = 0
    BY <2>3 DEF Ahead
  <2>5. \A o \in Outcomes : Total(o) = 0
    BY <2>3 DEF Total, Outcomes
  <2>6. StatusPart
    BY <2>1, <2>2, <2>4, <2>5 DEF StatusPart
  <2> QED BY <2>1, <2>2, <2>3, <2>4, <2>6 DEF Counts, TallyInv, QueuedPart, DonePart, TakenPart
<1>2. Inv /\ Way /\ Counts /\ [Next]_vars => Counts'
  BY CountersPreserved
<1>3. Inv /\ Way /\ Counts => Accounting
  BY CountsSuffice
<1> QED BY <1>1, <1>2, <1>3, WayInvariant, PTL DEF Spec

-----------------------------------------------------------------------------
(* The queue implements atomic writes.                                      *)

(* A call between its build and its return.                                 *)
Midway == {"built", "counted", "locked", "unsent", "sent", "waiting"}

(* A step that moves no call between its phases and tells nobody anything.  *)
LEMMA Stutters ==
  ASSUME UNCHANGED <<born, epoch, home>>,
         \A j \in Jobs : pc'[j] = pc[j] \/ (pc[j] \in Midway /\ pc'[j] \in Midway),
         \A j \in Jobs : pc[j] = "done" => answer'[j] = answer[j]
  PROVE  [Abstract!Next]_(Abstract!vars)
<1>1. ASSUME NEW j \in Jobs PROVE CallState(j)' = CallState(j)
  BY DEF CallState, Midway
<1>2. ASSUME NEW j \in Jobs PROVE Told(j)' = Told(j)
  BY DEF Told, Midway
<1>3. UNCHANGED Abstract!vars
  BY <1>1, <1>2 DEF Abstract!vars
<1> QED BY <1>3

LEMMA BuildIsCall ==
  ASSUME Inv, Way, NEW j \in Jobs, Build(j)
  PROVE  Abstract!Next
<1>1. /\ pc \in [Jobs -> CallerStates] /\ pc[j] = "idle" /\ pc' = [pc EXCEPT ![j] = "built"]
      /\ born' = [born EXCEPT ![j] = epoch] /\ UNCHANGED <<answer, home, epoch>>
  BY DEF Inv, TypeOK, Build, Goto, database
<1>2. home[j] = 0
  BY <1>1 DEF Inv, StampInv, Built
<1>3. CallState(j) = "idle" /\ CallState(j)' = "called"
  BY <1>1, <1>2 DEF CallState
<1>4. \A k \in Jobs \ {j} : CallState(k)' = CallState(k)
  BY <1>1 DEF CallState
<1>5. \A k \in Jobs : Told(k)' = Told(k)
  BY <1>1 DEF Told
<1>6. Abstract!Call(j)
  BY <1>1, <1>3, <1>4, <1>5 DEF Abstract!Call
<1> QED BY <1>6 DEF Abstract!Next

(* A call returns with what is true of it.                                  *)
LEMMA ReturnIsReturn ==
  ASSUME Inv, Way, NEW j \in Jobs, pc[j] \in Midway, UNCHANGED <<answer, home, epoch, born>>,
         \/ pc' = [pc EXCEPT ![j] = "rejected"] /\ pc[j] \in Early
         \/ pc' = [pc EXCEPT ![j] = "done"] /\ answer[j] # "none"
  PROVE  Abstract!Next
<1>1. pc \in [Jobs -> CallerStates]
  BY DEF Inv, TypeOK
<1>2. CallState(j)' = "returned" /\ CallState(j) = IF home[j] # 0 THEN "applied" ELSE "called"
  BY <1>1 DEF CallState, Midway
<1>3. \A k \in Jobs \ {j} : CallState(k)' = CallState(k) /\ Told(k)' = Told(k)
  BY <1>1 DEF CallState, Told
<1>4. Told(j)' = IF home[j] # 0 THEN "yes" ELSE "no"
  <2>1. CASE pc' = [pc EXCEPT ![j] = "rejected"] /\ pc[j] \in Early
    <3>1. j \notin Elems(log)
      BY <2>1 DEF Way, TravelInv
    <3>2. home[j] = 0
      BY <3>1 DEF Way, TruthInv
    <3> QED BY <1>1, <2>1, <3>2 DEF Told
  <2>2. CASE pc' = [pc EXCEPT ![j] = "done"] /\ answer[j] # "none"
    <3>1. answer[j] = "committed" <=> home[j] # 0
      BY <2>2 DEF Way, TruthInv, AnswerIsTruth
    <3> QED BY <1>1, <2>2, <3>1 DEF Told
  <2> QED BY <2>1, <2>2
<1>5. Abstract!Return(j)
  BY <1>2, <1>3, <1>4 DEF Abstract!Return
<1> QED BY <1>5 DEF Abstract!Next

(* A transaction applies the calls it carries, all called on this database. *)
LEMMA CommitIsApply ==
  ASSUME Inv, Way, NEW jobs \in Seq(Jobs), Commit(jobs), jobs # <<>>,
         Elems(jobs) \subseteq Undecided, \A j \in Elems(jobs) : stamp[j] = generation,
         writer # "bump", UNCHANGED <<pc, answer, born>>
  PROVE  Abstract!Next
<1> DEFINE some == Elems(jobs)
<1>1. pc \in [Jobs -> CallerStates] /\ epoch # 0 /\ epoch' = epoch
  BY DEF Inv, TypeOK, Way, TruthInv, Commit
<1>2. \A j \in some : /\ j \in Jobs /\ pc[j] \in {"sent", "waiting"} /\ home[j] = 0
                      /\ born[j] = epoch
  <2>1. \A j \in some : j \in Jobs /\ pc[j] \in {"sent", "waiting"} /\ home[j] = 0
    BY OnTheWay
  <2> QED BY <2>1 DEF Inv, StampInv, Built
<1>3. \A j \in Jobs : home'[j] = IF j \in some THEN epoch ELSE home[j]
  <2>1. \A j \in Jobs : j \in Elems(jobs) <=> \E i \in DOMAIN jobs : jobs[i] = j
    BY ElemsIn DEF Elems
  <2> QED BY <2>1 DEF Commit
<1>4. some # {} /\ some \in SUBSET Jobs
  <2>1. Head(jobs) \in some
    BY HeadTail
  <2> QED BY <1>2, <2>1
<1> HIDE DEF some
<1>5. \A j \in some : CallState(j) = "called" /\ CallState(j)' = "applied"
  BY <1>1, <1>2, <1>3 DEF CallState
<1>6. \A j \in Jobs : j \notin some => CallState(j)' = CallState(j)
  BY <1>1, <1>3 DEF CallState
<1>7. \A j \in Jobs : Told(j)' = Told(j)
  BY DEF Told
<1>8. Abstract!Apply(some)
  BY <1>1, <1>2, <1>4, <1>5, <1>6, <1>7 DEF Abstract!Apply
<1> QED BY <1>4, <1>8 DEF Abstract!Next

LEMMA ReplaceIsSwitch ==
  ASSUME Inv, Way, Replace, home' # home
  PROVE  Abstract!Next
<1>0. PICK j \in Jobs : j = Head(batch)
  BY HeadTail DEF Inv, TypeOK, BatchInv, Replace
<1>1. /\ batch \in Seq(Jobs) /\ batch # <<>> /\ writer = "swap" /\ stamp[j] = generation
      /\ pc \in [Jobs -> CallerStates] /\ home \in [Jobs -> Nat] /\ epoch \in Nat
      /\ epoch' = epoch + 1 /\ home' = [home EXCEPT ![j] = epoch + 1]
      /\ UNCHANGED <<pc, answer, born>>
  BY <1>0 DEF Inv, TypeOK, BatchInv, Replace, callers
<1>2. j \in Jobs /\ j \in Elems(batch) /\ Undecided = Elems(batch)
  BY <1>0, <1>1, HeadTail DEF Undecided
<1>3. pc[j] \in {"sent", "waiting"} /\ home[j] = 0
  BY <1>2, OnTheWay
<1>4. born[j] = epoch
  BY <1>1, <1>2, <1>3 DEF Inv, StampInv, Built
<1>5. CallState(j) = "called" /\ CallState(j)' = "applied"
  <2>1. home'[j] # 0
    BY <1>1, <1>2
  <2> QED BY <1>1, <1>3, <2>1 DEF CallState
<1>6. \A k \in Jobs \ {j} : CallState(k)' = CallState(k)
  BY <1>1, <1>2 DEF CallState
<1>7. \A k \in Jobs : Told(k)' = Told(k)
  BY <1>1 DEF Told
<1>8. epoch' = epoch + 1 /\ born' = born
  BY <1>1
<1>9. Abstract!Switch(j)
  BY <1>2, <1>4, <1>5, <1>6, <1>7, <1>8 DEF Abstract!Switch
<1> QED BY <1>2, <1>9 DEF Abstract!Next

LEMMA StepRefines == Inv /\ Way /\ [Next]_vars => [Abstract!Next]_(Abstract!vars)
<1> SUFFICES ASSUME Inv, Way, [Next]_vars PROVE [Abstract!Next]_(Abstract!vars)
  OBVIOUS
<1>1. /\ pc \in [Jobs -> CallerStates] /\ batch \in Seq(Jobs) /\ queue \in Seq(Jobs)
      /\ answer \in [Jobs -> Outcomes \cup {"none"}]
  BY DEF Inv, TypeOK
<1>2. ASSUME NEW j \in Jobs, Submit(j) PROVE [Abstract!Next]_(Abstract!vars)
  <2>1. CASE Build(j)
    BY <2>1, BuildIsCall
  <2>2. CASE Count(j) \/ LockSender(j) \/ Send(j) \/ SendFails(j) \/ Accept(j)
    <3>1. UNCHANGED <<born, epoch, home, answer>>
      BY <2>2 DEF Count, LockSender, Send, SendFails, Accept, database
    <3>2. \A k \in Jobs : pc'[k] = pc[k] \/ (pc[k] \in Midway /\ pc'[k] \in Midway)
      BY <1>1, <2>2 DEF Count, LockSender, Send, SendFails, Accept, Goto, Midway
    <3> QED BY <3>1, <3>2, Stutters
  <2>3. CASE RefuseClosed(j) \/ Withdraw(j) \/ Receive(j)
    <3>1. UNCHANGED <<born, epoch, home, answer>> /\ pc[j] \in Midway
      BY <2>3 DEF RefuseClosed, Withdraw, Receive, database, Goto, Midway
    <3>2. \/ pc' = [pc EXCEPT ![j] = "rejected"] /\ pc[j] \in Early
          \/ pc' = [pc EXCEPT ![j] = "done"] /\ answer[j] # "none"
      BY <2>3 DEF RefuseClosed, Withdraw, Receive, Goto, Early
    <3> QED BY <3>1, <3>2, ReturnIsReturn
  <2> QED BY <1>2, <2>1, <2>2, <2>3 DEF Submit
<1>3. ASSUME UNCHANGED <<callers, epoch, home>> PROVE [Abstract!Next]_(Abstract!vars)
  <2>1. UNCHANGED <<pc, answer, born, epoch, home>>
    BY <1>3 DEF callers
  <2> QED BY <2>1, Stutters
<1>4. ASSUME NEW j \in Elems(queue) \cup Elems(batch), NEW status, Resolve(j, status),
             UNCHANGED <<epoch, home>>
      PROVE  [Abstract!Next]_(Abstract!vars)
  <2>1. j \in Jobs /\ pc[j] \in {"sent", "waiting"}
    BY OnTheWay
  <2>2. UNCHANGED <<pc, born>> /\ answer' = [answer EXCEPT ![j] = status]
    BY <1>4 DEF Resolve
  <2>3. \A k \in Jobs : pc[k] = "done" => answer'[k] = answer[k]
    BY <1>1, <2>1, <2>2
  <2> QED BY <1>4, <2>2, <2>3, Stutters
<1>5. CASE BatchRefuse
  <2>1. PICK i \in DOMAIN batch : Resolve(batch[i], "refused")
    BY <1>5 DEF BatchRefuse
  <2>2. batch[i] \in Elems(batch) /\ UNCHANGED <<epoch, home>>
    BY <1>1, <1>5 DEF Elems, BatchRefuse, database
  <2> QED BY <1>4, <2>1, <2>2
<1>6. CASE Answer
  <2>1. batch # <<>> /\ Resolve(Head(batch), verdict) /\ UNCHANGED <<epoch, home>>
    BY <1>6 DEF Answer, Inv, BatchInv, database
  <2>2. Head(batch) \in Elems(batch)
    BY <1>1, <2>1, HeadTail
  <2> QED BY <1>4, <2>1, <2>2
<1>7. CASE Drain
  <2>1. CASE queue # <<>> /\ Resolve(Head(queue), "refused")
    <3>1. Head(queue) \in Elems(queue) /\ UNCHANGED <<epoch, home>>
      BY <1>1, <1>7, <2>1, HeadTail DEF Drain, database
    <3> QED BY <1>4, <2>1, <3>1
  <2>2. CASE UNCHANGED callers
    BY <1>3, <1>7, <2>2 DEF Drain, database
  <2> QED BY <1>7, <2>1, <2>2 DEF Drain
<1>8. CASE RunBatch \/ RunOne
  <2>1. UNCHANGED callers /\ writer \in {"batch", "one"}
    BY <1>8 DEF RunBatch, RunOne
  <2>2. CASE UNCHANGED database
    BY <1>3, <2>1, <2>2 DEF database
  <2>3. CASE ~UNCHANGED database
    <3>1. Commit(batch)
      BY <1>8, <2>3 DEF RunBatch, RunOne, Execute
    <3>2. batch # <<>> /\ Undecided = Elems(batch)
      BY <2>1 DEF Inv, BatchInv, Undecided
    <3>3. \A j \in Elems(batch) : stamp[j] = generation
      <4>1. CASE RunBatch
        BY <1>1, <4>1, ElemsIn DEF RunBatch, Live, Stale, Elems
      <4>2. CASE RunOne
        BY <2>3, <4>2 DEF RunOne, Stale, Inv, BatchInv
      <4> QED BY <1>8, <4>1, <4>2
    <3> QED BY <1>1, <2>1, <3>1, <3>2, <3>3, CommitIsApply DEF callers
  <2> QED BY <2>2, <2>3
<1>9. CASE RunAlone
  <2>1. UNCHANGED callers /\ writer = "replay" /\ batch # <<>>
    BY <1>9 DEF RunAlone, Inv, BatchInv
  <2>2. CASE UNCHANGED database
    BY <1>3, <2>1, <2>2 DEF database
  <2>3. CASE ~UNCHANGED database
    <3>1. Commit(<<Head(batch)>>)
      BY <1>9, <2>3 DEF RunAlone, Execute
    <3>2. Head(batch) \in Elems(batch) /\ Head(batch) \in Jobs /\ Undecided = Elems(batch)
      BY <1>1, <2>1, HeadTail DEF Undecided
    <3>3. /\ <<Head(batch)>> \in Seq(Jobs) /\ <<Head(batch)>> # <<>>
          /\ Elems(<<Head(batch)>>) = {Head(batch)}
      BY <3>2, Singleton
    <3>4. stamp[Head(batch)] = generation
      BY <2>1, <3>2 DEF Inv, BatchInv
    <3> QED BY <2>1, <3>1, <3>2, <3>3, <3>4, CommitIsApply DEF callers
  <2> QED BY <2>2, <2>3
<1>10. CASE Replace
  <2>1. CASE home' # home
    BY <1>10, <2>1, ReplaceIsSwitch
  <2>2. CASE home' = home
    <3>1. UNCHANGED callers
      BY <1>10 DEF Replace
    <3>2. epoch' = epoch
      <4>1. Head(batch) \in Jobs /\ Head(batch) \in Undecided
        BY <1>1, <1>10, HeadTail DEF Replace, Inv, BatchInv, Undecided
      <4>2. home[Head(batch)] = 0 /\ home \in [Jobs -> Nat] /\ epoch \in Nat
        BY <4>1, OnTheWay DEF Inv, TypeOK
      <4> QED BY <1>10, <2>2, <4>1, <4>2 DEF Replace
    <3> QED BY <1>3, <2>2, <3>1, <3>2
  <2> QED BY <2>1, <2>2
<1>11. CASE TakeFirst \/ Collect \/ Tally \/ BeginReplace \/ Bump \/ WriterExit \/ Close
            \/ UNCHANGED vars
  BY <1>3, <1>11 DEF TakeFirst, Collect, Tally, BeginReplace, Bump, WriterExit, Close, CloseBegin,
                     CloseTake, vars, database
<1> QED BY <1>2, <1>5, <1>6, <1>7, <1>8, <1>9, <1>10, <1>11 DEF Next, WriterLoop, Finished

(* What the callers see of the queue is a write that takes effect at most   *)
(* once, at one moment between the call and the return, in the database it  *)
(* was called on, and a return that says so: submission, batching, replay,  *)
(* refusal and replacement implement AtomicWrites.                          *)
THEOREM Refinement == Spec => ImplementsAtomicWrites
<1>1. Init => Abstract!Init
  BY DEF Init, Abstract!Init, CallState, Told
<1>2. Inv /\ Way /\ [Next]_vars => [Abstract!Next]_(Abstract!vars)
  BY StepRefines
<1> QED BY <1>1, <1>2, WayInvariant, PTL DEF Spec, ImplementsAtomicWrites, Abstract!Spec
=============================================================================
