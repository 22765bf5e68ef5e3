------------------------ MODULE RestoreUploadProofs -------------------------
(***************************************************************************)
(* A restore reported cancelled changed nothing: for any number of uploads *)
(* and files, any sizes, and any cancels, losses and failures.             *)
(*                                                                         *)
(* CancelHolds speaks of the database in service.  What ties it to the     *)
(* uploads is the last piece of a file: only a last request carries it,    *)
(* only an upload that is past cancelling sends one (Progress), so         *)
(* wherever that piece is found, on the disk or unpacked, some upload of   *)
(* its file is committed (Sound), whatever was spliced around it.          *)
(*                                                                         *)
(* RetryWorks speaks of an upload that met nothing.  While its page waits, *)
(* nobody else has a request under way (Alone), and the disk follows it    *)
(* piece by piece (Kept), so no offset of its own can be refused.          *)
(***************************************************************************)
EXTENDS RestoreUpload, SequenceTheorems, TLAPS

Shape ==
  /\ file \in [Uploads -> Files]
  /\ step \in [Uploads -> {"idle", "waiting", "resumed", "restored", "cancelled", "failed"}]
  /\ offset \in [Uploads -> Nat] /\ received \in [Uploads -> Nat]
  /\ req \in [Uploads -> {"none", "wire", "body", "claimed", "reading", "more", "ok", "bad", "lost"}]
  /\ source \in [Uploads -> Inodes \cup {None}]
  /\ taken \in [Uploads -> Seq(Cells)]
  /\ disk \in [Inodes -> Seq(Cells)]
  /\ named \in Inodes \cup {None}
  /\ committed \subseteq Uploads

(* An upload whose last request was sent, and no other, is committed; one   *)
(* that may still be cancelled, or was, has not sent it.                    *)
Progress(u) ==
  /\ step[u] = "idle" => req[u] = "none" /\ u \notin committed
  /\ step[u] # "idle" => (u \in committed <=> Final(u))
  /\ req[u] = "more" => ~Final(u)
  /\ step[u] \in {"resumed", "cancelled"} => ~Final(u)

(* A restore under way reads a file.                                        *)
Reads(u) == req[u] \in {"claimed", "reading"} => source[u] \in Inodes

(* The last piece of f is some committed upload's.                          *)
Backed(f) == \E u \in committed : file[u] = f
Good(c) == \A f \in Files : c = <<f, Total>> => Backed(f)
Sound(s) == \A k \in 1..Len(s) : Good(s[k])

InService == db \in Files \cup {Original} /\ (db # Original => Backed(db))

IInv ==
  /\ Shape
  /\ \A u \in Uploads : Progress(u) /\ Reads(u) /\ Sound(taken[u])
  /\ \A i \in Inodes : Sound(disk[i])
  /\ InService

(* The invariant gives the property, and the initial states have it.        *)
LEMMA IInvGives == IInv => CancelHolds
<1> SUFFICES ASSUME IInv, db # Original PROVE \E u \in committed : file[u] = db /\ step[u] # "cancelled"
  BY DEF CancelHolds
<1>1. PICK u \in committed : file[u] = db
  BY DEF IInv, InService, Backed
<1>2. u \in Uploads /\ Progress(u)
  BY DEF IInv, Shape
<1>3. step[u] # "cancelled"
  BY <1>2 DEF Progress
<1> QED BY <1>1, <1>3

LEMMA InitIInv == Init => IInv
<1> SUFFICES ASSUME Init PROVE IInv
  OBVIOUS
<1>1. <<>> \in Seq(Cells) /\ Len(<<>>) = 0
  OBVIOUS
<1>2. Shape
  BY <1>1 DEF Init, Shape
<1>3. ASSUME NEW u \in Uploads PROVE Progress(u) /\ Reads(u) /\ Sound(taken[u])
  BY DEF Init, Progress, Reads, Sound
<1>4. ASSUME NEW i \in Inodes PROVE Sound(disk[i])
  BY DEF Init, Sound
<1>5. InService
  BY DEF Init, InService
<1> QED BY <1>2, <1>3, <1>4, <1>5 DEF IInv

-----------------------------------------------------------------------------
(* What was backed stays backed: no action changes the files picked or      *)
(* takes an upload out of the committed ones.                               *)
Onward == file' = file /\ committed \subseteq committed'

LEMMA BackedStays ==
  ASSUME Onward, NEW f, Backed(f)
  PROVE  Backed(f)'
BY DEF Onward, Backed

LEMMA GoodStays ==
  ASSUME Onward, NEW c, Good(c)
  PROVE  Good(c)'
BY BackedStays DEF Good

LEMMA SoundStays ==
  ASSUME Onward, NEW s, Sound(s)
  PROVE  Sound(s)'
BY GoodStays DEF Sound

(* The database in service keeps its upload.                                *)
LEMMA ServiceStays ==
  ASSUME IInv, Onward, db' = db
  PROVE  InService'
<1>1. PICK f : f = db
  OBVIOUS
<1>2. f # Original => Backed(f)'
  BY <1>1, BackedStays DEF IInv, InService
<1> QED BY <1>1, <1>2 DEF IInv, InService

(* A step that writes, unpacks and switches nothing.                        *)
LEMMA Frame ==
  ASSUME IInv, Onward, UNCHANGED <<taken, disk, db>>
  PROVE  /\ \A u \in Uploads : Sound(taken[u])'
         /\ \A i \in Inodes : Sound(disk[i])'
         /\ InService'
<1>1. ASSUME NEW u \in Uploads PROVE Sound(taken[u])'
  <2>1. PICK s : s = taken[u]
    OBVIOUS
  <2>2. Sound(s)'
    BY <2>1, SoundStays DEF IInv
  <2> QED BY <2>1, <2>2
<1>2. ASSUME NEW i \in Inodes PROVE Sound(disk[i])'
  <2>1. PICK s : s = disk[i]
    OBVIOUS
  <2>2. Sound(s)'
    BY <2>1, SoundStays DEF IInv
  <2> QED BY <2>1, <2>2
<1>3. InService'
  BY ServiceStays
<1> QED BY <1>1, <1>2, <1>3
-----------------------------------------------------------------------------
(* One lemma per action.                                                    *)

LEMMA StartKeeps ==
  ASSUME IInv, NEW u \in Uploads, Start(u)
  PROVE  IInv'
<1>1. Onward /\ UNCHANGED <<taken, disk, db>>
  BY DEF Start, Send, browser, request, files, history, Onward
<1>2. Shape'
  BY UploadAssumption DEF Start, Send, browser, request, files, history, IInv, Shape, Inodes
<1>3. ASSUME NEW v \in Uploads PROVE Progress(v)' /\ Reads(v)'
  <2>1. Progress(v) /\ Reads(v)
    BY DEF IInv
  <2>2. CASE v = u
    BY <2>1, <2>2, UploadAssumption DEF Start, Send, browser, request, files, history, IInv, Shape, Progress, Reads, Final
  <2>3. CASE v # u
    BY <2>1, <2>3, UploadAssumption DEF Start, Send, browser, request, files, history, IInv, Shape, Progress, Reads, Final
  <2> QED BY <2>2, <2>3
<1> QED BY <1>1, <1>2, <1>3, Frame DEF IInv, Inodes

LEMMA ResumeKeeps ==
  ASSUME IInv, NEW u \in Uploads, Resume(u)
  PROVE  IInv'
<1>1. Onward /\ UNCHANGED <<taken, disk, db>>
  BY DEF Resume, Send, browser, request, files, history, Onward
<1>2. Shape'
  <2>1. Shape
    BY DEF IInv
  <2>2. CASE u \in aborted
    BY <2>1, <2>2 DEF Resume, Send, files, Shape, Inodes
  <2>3. CASE u \notin aborted
    <3>1. offset[u] + CHUNK \in Nat
      BY <2>1, UploadAssumption DEF Shape
    <3>2. Send(u, offset[u] + CHUNK)
      BY <2>3 DEF Resume
    <3>3. offset' \in [Uploads -> Nat] /\ received' \in [Uploads -> Nat]
      BY <2>1, <3>1, <3>2 DEF Send, Shape
    <3>4. step' = [step EXCEPT ![u] = "waiting"] /\ req' = [req EXCEPT ![u] = "wire"]
          /\ committed' \subseteq Uploads
      BY <2>1, <3>2 DEF Send, Shape
    <3>5. UNCHANGED <<file, source, taken, disk, named>>
      BY DEF Resume, files
    <3> QED BY <2>1, <3>3, <3>4, <3>5 DEF Shape, Inodes
  <2> QED BY <2>2, <2>3
<1>3. ASSUME NEW v \in Uploads PROVE Progress(v)' /\ Reads(v)'
  <2>1. Progress(v) /\ Reads(v)
    BY DEF IInv
  <2>2. CASE v = u
    BY <2>1, <2>2, UploadAssumption DEF Resume, Send, browser, request, files, history, IInv, Shape, Progress, Reads, Final
  <2>3. CASE v # u
    BY <2>1, <2>3, UploadAssumption DEF Resume, Send, browser, request, files, history, IInv, Shape, Progress, Reads, Final
  <2> QED BY <2>2, <2>3
<1> QED BY <1>1, <1>2, <1>3, Frame DEF IInv, Inodes

LEMMA AbortKeeps ==
  ASSUME IInv, NEW u \in Uploads, Abort(u)
  PROVE  IInv'
<1>1. Onward /\ UNCHANGED <<taken, disk, db>>
  BY DEF Abort, browser, request, files, history, Onward
<1>2. Shape'
  BY UploadAssumption DEF Abort, browser, request, files, history, IInv, Shape, Inodes
<1>3. ASSUME NEW v \in Uploads PROVE Progress(v)' /\ Reads(v)'
  <2>1. Progress(v) /\ Reads(v)
    BY DEF IInv
  <2>2. CASE v = u
    BY <2>1, <2>2, UploadAssumption DEF Abort, browser, request, files, history, IInv, Shape, Progress, Reads, Final
  <2>3. CASE v # u
    BY <2>1, <2>3, UploadAssumption DEF Abort, browser, request, files, history, IInv, Shape, Progress, Reads, Final
  <2> QED BY <2>2, <2>3
<1> QED BY <1>1, <1>2, <1>3, Frame DEF IInv, Inodes

LEMMA AnsweredKeeps ==
  ASSUME IInv, NEW u \in Uploads, Answered(u)
  PROVE  IInv'
<1>1. Onward /\ UNCHANGED <<taken, disk, db>>
  BY DEF Answered, browser, request, files, history, Onward
<1>2. Shape'
  BY UploadAssumption DEF Answered, browser, request, files, history, IInv, Shape, Inodes
<1>3. ASSUME NEW v \in Uploads PROVE Progress(v)' /\ Reads(v)'
  <2>1. Progress(v) /\ Reads(v)
    BY DEF IInv
  <2>2. CASE v = u
    BY <2>1, <2>2, UploadAssumption DEF Answered, browser, request, files, history, IInv, Shape, Progress, Reads, Final
  <2>3. CASE v # u
    BY <2>1, <2>3, UploadAssumption DEF Answered, browser, request, files, history, IInv, Shape, Progress, Reads, Final
  <2> QED BY <2>2, <2>3
<1> QED BY <1>1, <1>2, <1>3, Frame DEF IInv, Inodes

LEMMA ConnectionLostKeeps ==
  ASSUME IInv, NEW u \in Uploads, ConnectionLost(u)
  PROVE  IInv'
<1>1. Onward /\ UNCHANGED <<taken, disk, db>>
  BY DEF ConnectionLost, browser, request, files, history, Onward
<1>2. Shape'
  BY UploadAssumption DEF ConnectionLost, browser, request, files, history, IInv, Shape, Inodes
<1>3. ASSUME NEW v \in Uploads PROVE Progress(v)' /\ Reads(v)'
  <2>1. Progress(v) /\ Reads(v)
    BY DEF IInv
  <2>2. CASE v = u
    BY <2>1, <2>2, UploadAssumption DEF ConnectionLost, browser, request, files, history, IInv, Shape, Progress, Reads, Final
  <2>3. CASE v # u
    BY <2>1, <2>3, UploadAssumption DEF ConnectionLost, browser, request, files, history, IInv, Shape, Progress, Reads, Final
  <2> QED BY <2>2, <2>3
<1> QED BY <1>1, <1>2, <1>3, Frame DEF IInv, Inodes

LEMMA RefuseKeeps ==
  ASSUME IInv, NEW u \in Uploads, Refuse(u)
  PROVE  IInv'
<1>1. Onward /\ UNCHANGED <<taken, disk, db>>
  BY DEF Refuse, browser, request, files, history, Onward
<1>2. Shape'
  BY UploadAssumption DEF Refuse, Answer, browser, request, files, history, IInv, Shape, Inodes
<1>3. ASSUME NEW v \in Uploads PROVE Progress(v)' /\ Reads(v)'
  <2>1. Progress(v) /\ Reads(v)
    BY DEF IInv
  <2>2. CASE v = u
    BY <2>1, <2>2, UploadAssumption DEF Refuse, Answer, browser, request, files, history, IInv, Shape, Progress, Reads, Final
  <2>3. CASE v # u
    BY <2>1, <2>3, UploadAssumption DEF Refuse, Answer, browser, request, files, history, IInv, Shape, Progress, Reads, Final
  <2> QED BY <2>2, <2>3
<1> QED BY <1>1, <1>2, <1>3, Frame DEF IInv, Inodes

LEMMA NeverArrivesKeeps ==
  ASSUME IInv, NEW u \in Uploads, NeverArrives(u)
  PROVE  IInv'
<1>1. Onward /\ UNCHANGED <<taken, disk, db>>
  BY DEF NeverArrives, browser, request, files, history, Onward
<1>2. Shape'
  BY UploadAssumption DEF NeverArrives, Answer, browser, request, files, history, IInv, Shape, Inodes
<1>3. ASSUME NEW v \in Uploads PROVE Progress(v)' /\ Reads(v)'
  <2>1. Progress(v) /\ Reads(v)
    BY DEF IInv
  <2>2. CASE v = u
    BY <2>1, <2>2, UploadAssumption DEF NeverArrives, Answer, browser, request, files, history, IInv, Shape, Progress, Reads, Final
  <2>3. CASE v # u
    BY <2>1, <2>3, UploadAssumption DEF NeverArrives, Answer, browser, request, files, history, IInv, Shape, Progress, Reads, Final
  <2> QED BY <2>2, <2>3
<1> QED BY <1>1, <1>2, <1>3, Frame DEF IInv, Inodes

LEMMA DroppedKeeps ==
  ASSUME IInv, NEW u \in Uploads, Dropped(u)
  PROVE  IInv'
<1>1. Onward /\ UNCHANGED <<taken, disk, db>>
  BY DEF Dropped, browser, request, files, history, Onward
<1>2. Shape'
  BY UploadAssumption DEF Dropped, Answer, browser, request, files, history, IInv, Shape, Inodes
<1>3. ASSUME NEW v \in Uploads PROVE Progress(v)' /\ Reads(v)'
  <2>1. Progress(v) /\ Reads(v)
    BY DEF IInv
  <2>2. CASE v = u
    BY <2>1, <2>2, UploadAssumption DEF Dropped, Answer, browser, request, files, history, IInv, Shape, Progress, Reads, Final
  <2>3. CASE v # u
    BY <2>1, <2>3, UploadAssumption DEF Dropped, Answer, browser, request, files, history, IInv, Shape, Progress, Reads, Final
  <2> QED BY <2>2, <2>3
<1> QED BY <1>1, <1>2, <1>3, Frame DEF IInv, Inodes

LEMMA BodyEndsKeeps ==
  ASSUME IInv, NEW u \in Uploads, BodyEnds(u)
  PROVE  IInv'
<1>1. Onward /\ UNCHANGED <<taken, disk, db>>
  BY DEF BodyEnds, browser, request, files, history, Onward
<1>2. Shape'
  <2>1. Shape
    BY DEF IInv
  <2>2. UNCHANGED <<file, step, offset, received, taken, disk, committed>>
    BY DEF BodyEnds, browser
  <2>3. PICK a \in {"more", "claimed", "bad"} : req' = [req EXCEPT ![u] = a]
    BY DEF BodyEnds, Answer
  <2>4. /\ named' = named \/ named' = None
        /\ source' = source \/ source' = [source EXCEPT ![u] = named]
    BY DEF BodyEnds
  <2>5. source' \in [Uploads -> Inodes \cup {None}] /\ named' \in Inodes \cup {None}
    BY <2>1, <2>4 DEF Shape
  <2> QED BY <2>1, <2>2, <2>3, <2>5 DEF Shape, Inodes
<1>3. ASSUME NEW v \in Uploads PROVE Progress(v)' /\ Reads(v)'
  <2>1. Progress(v) /\ Reads(v)
    BY DEF IInv
  <2>2. CASE v = u
    BY <2>1, <2>2, UploadAssumption DEF BodyEnds, Answer, Fault, browser, request, files, history, IInv, Shape, Progress, Reads, Final, More
  <2>3. CASE v # u
    BY <2>1, <2>3, UploadAssumption DEF BodyEnds, Answer, Fault, browser, request, files, history, IInv, Shape, Progress, Reads, Final
  <2> QED BY <2>2, <2>3
<1> QED BY <1>1, <1>2, <1>3, Frame DEF IInv, Inodes

LEMMA RestoreBeginsKeeps ==
  ASSUME IInv, NEW u \in Uploads, RestoreBegins(u)
  PROVE  IInv'
<1>1. Onward /\ UNCHANGED <<taken, disk, db>>
  BY DEF RestoreBegins, browser, request, files, history, Onward
<1>2. Shape'
  BY UploadAssumption DEF RestoreBegins, browser, request, files, history, IInv, Shape, Inodes
<1>3. ASSUME NEW v \in Uploads PROVE Progress(v)' /\ Reads(v)'
  <2>1. Progress(v) /\ Reads(v)
    BY DEF IInv
  <2>2. CASE v = u
    BY <2>1, <2>2, UploadAssumption DEF RestoreBegins, browser, request, files, history, IInv, Shape, Progress, Reads, Final
  <2>3. CASE v # u
    BY <2>1, <2>3, UploadAssumption DEF RestoreBegins, browser, request, files, history, IInv, Shape, Progress, Reads, Final
  <2> QED BY <2>2, <2>3
<1> QED BY <1>1, <1>2, <1>3, Frame DEF IInv, Inodes

-----------------------------------------------------------------------------
(* What the disk operations leave: cells that were there, the one written,  *)
(* and the zeros of a hole.                                                 *)

LEMMA ZeroIsGood == Zero \in Cells /\ Good(Zero)
BY UploadAssumption DEF Zero, Cells, Good

LEMMA SplicedIsSound ==
  ASSUME Onward, NEW s, Sound(s), NEW t,
         \A k \in 1..Len(t) : Good(t[k]) \/ \E j \in 1..Len(s) : t[k] = s[j]
  PROVE  Sound(t)'
<1>1. ASSUME NEW k \in 1..Len(t) PROVE Good(t[k])
  BY DEF Sound
<1>2. Sound(t)
  BY <1>1 DEF Sound
<1> QED BY <1>2, SoundStays

LEMMA WrittenKeeps ==
  ASSUME Onward, NEW s \in Seq(Cells), Sound(s), NEW p \in Nat, NEW c \in Cells, Good(c)
  PROVE  Written(s, p, c) \in Seq(Cells) /\ Sound(Written(s, p, c))'
<1> DEFINE n == IF p < Len(s) THEN Len(s) ELSE p + 1
           t == [i \in 1..n |-> IF i = p + 1 THEN c ELSE IF i <= Len(s) THEN s[i] ELSE Zero]
<1>1. n \in Nat
  OBVIOUS
<1>2. ASSUME NEW i \in 1..n
      PROVE  t[i] \in Cells /\ (Good(t[i]) \/ \E j \in 1..Len(s) : t[i] = s[j])
  BY ZeroIsGood
<1> HIDE DEF n
<1>3. t \in Seq(Cells) /\ Len(t) = n
  BY <1>1, <1>2
<1> HIDE DEF t
<1>4. PICK w : w = t
  OBVIOUS
<1>5. Sound(w)'
  BY <1>2, <1>3, <1>4, SplicedIsSound
<1> QED BY <1>3, <1>4, <1>5 DEF Written, t, n

LEMMA TruncatedKeeps ==
  ASSUME Onward, NEW s \in Seq(Cells), Sound(s), NEW n \in Nat
  PROVE  Truncated(s, n) \in Seq(Cells) /\ Sound(Truncated(s, n))'
<1> DEFINE t == [i \in 1..n |-> IF i <= Len(s) THEN s[i] ELSE Zero]
<1>1. ASSUME NEW i \in 1..n
      PROVE  t[i] \in Cells /\ (Good(t[i]) \/ \E j \in 1..Len(s) : t[i] = s[j])
  BY ZeroIsGood
<1>2. t \in Seq(Cells) /\ Len(t) = n
  BY <1>1
<1> HIDE DEF t
<1>3. Sound(t)'
  BY <1>1, <1>2, SplicedIsSound
<1> QED BY <1>2, <1>3 DEF Truncated, t

(* A step that changes the contents of one file, and switches nothing.      *)
LEMMA OneFile ==
  ASSUME IInv, Onward, UNCHANGED <<taken, db>>, NEW i, NEW t,
         \A j \in Inodes : disk'[j] = IF j = i THEN t ELSE disk[j],
         i \in Inodes => Sound(t)'
  PROVE  /\ \A u \in Uploads : Sound(taken[u])'
         /\ \A j \in Inodes : Sound(disk[j])'
         /\ InService'
<1>1. ASSUME NEW u \in Uploads PROVE Sound(taken[u])'
  <2>1. PICK s : s = taken[u]
    OBVIOUS
  <2>2. Sound(s)'
    BY <2>1, SoundStays DEF IInv
  <2> QED BY <2>1, <2>2
<1>2. ASSUME NEW j \in Inodes, j # i PROVE Sound(disk[j])'
  <2>1. PICK s : s = disk[j]
    OBVIOUS
  <2>2. Sound(s)'
    BY <2>1, SoundStays DEF IInv
  <2> QED BY <1>2, <2>1, <2>2
<1>3. InService'
  BY ServiceStays
<1>4. ASSUME NEW j \in Inodes, j = i PROVE Sound(disk[j])'
  BY <1>4
<1> QED BY <1>1, <1>2, <1>3, <1>4

(* A first piece empties the file; a later one opens the one there.         *)
LEMMA OpenKeeps ==
  ASSUME IInv, NEW u \in Uploads, Open(u)
  PROVE  IInv'
<1>1. Shape /\ Onward
  BY DEF Open, browser, history, IInv, Onward
<1>2. UNCHANGED <<browser, received, source, taken, db, committed>>
  BY DEF Open, files, history
<1>3. PICK a \in {"body", "bad"} : req' = [req EXCEPT ![u] = a]
  BY DEF Open, Answer
<1>4. ASSUME NEW v \in Uploads PROVE Progress(v)' /\ Reads(v)'
  <2>1. Progress(v) /\ Reads(v)
    BY DEF IInv
  <2>2. req'[v] = IF v = u THEN a ELSE req[v]
    BY <1>1, <1>3 DEF Shape
  <2>3. req[u] = "wire"
    BY DEF Open
  <2> QED BY <1>2, <2>1, <2>2, <2>3 DEF browser, Progress, Reads, Final
<1>5. CASE UNCHANGED <<disk, named>>
  <2>1. Shape'
    BY <1>1, <1>2, <1>3, <1>5 DEF Shape, browser, Inodes
  <2> QED BY <1>1, <1>2, <1>4, <1>5, <2>1, Frame DEF IInv, Inodes
<1>6. ASSUME NEW i \in Inodes, disk' = [disk EXCEPT ![i] = <<>>], named' = i
      PROVE  IInv'
  <2>1. PICK t : t = <<>>
    OBVIOUS
  <2>2. t \in Seq(Cells) /\ Len(t) = 0
    BY <2>1
  <2>3. Sound(t)'
    BY <2>2 DEF Sound
  <2>4. disk' \in [Inodes -> Seq(Cells)]
        /\ \A j \in Inodes : disk'[j] = IF j = i THEN t ELSE disk[j]
    BY <1>1, <1>6, <2>1, <2>2 DEF Shape
  <2>5. Shape'
    BY <1>1, <1>2, <1>3, <1>6, <2>4 DEF Shape, browser, Inodes
  <2>6. /\ \A v \in Uploads : Sound(taken[v])'
        /\ \A j \in Inodes : Sound(disk[j])'
        /\ InService'
    BY <1>1, <1>2, <2>3, <2>4, OneFile
  <2> QED BY <1>4, <2>5, <2>6 DEF IInv, Inodes
<1> QED BY <1>5, <1>6 DEF Open, files

(* The last piece is only ever written by a committed upload.               *)
LEMMA PieceKeeps ==
  ASSUME IInv, NEW u \in Uploads, Piece(u)
  PROVE  IInv'
<1> DEFINE c == <<file[u], offset[u] + received[u] + 1>>
           p == IF offset[u] = 0 THEN received[u] ELSE Len(disk[handle[u]])
<1>1. Shape /\ Onward /\ Progress(u)
  BY DEF Piece, browser, history, IInv, Onward
<1>2. UNCHANGED <<browser, req, source, taken, named, db, committed>>
  BY DEF Piece, history
<1>3. received' = [received EXCEPT ![u] = received[u] + 1]
  BY DEF Piece
<1>4. received' \in [Uploads -> Nat]
  BY <1>1, <1>3 DEF Shape
<1>5. ASSUME NEW v \in Uploads PROVE Progress(v)' /\ Reads(v)'
  <2>1. Progress(v) /\ Reads(v)
    BY DEF IInv
  <2> QED BY <1>2, <2>1 DEF browser, Progress, Reads, Final
<1>6. /\ file[u] \in Files /\ offset[u] \in Nat /\ received[u] \in Nat
      /\ received[u] < CHUNK /\ offset[u] + received[u] < Total
      /\ step[u] # "idle"
  BY <1>1 DEF Piece, More, Shape, Progress
<1>7. c \in Cells
  BY <1>6, UploadAssumption DEF Cells
<1>8. Good(c)
  <2> SUFFICES ASSUME NEW f \in Files, c = <<f, Total>> PROVE Backed(f)
    BY DEF Good
  <2>1. file[u] = f /\ offset[u] + received[u] + 1 = Total
    OBVIOUS
  <2>2. Final(u)
    BY <1>6, <2>1, UploadAssumption DEF Final
  <2>3. u \in committed
    BY <1>1, <1>6, <2>2 DEF Progress
  <2> QED BY <2>1, <2>3 DEF Backed
<1>9. PICK i : i = handle[u]
  OBVIOUS
<1>10. PICK d : d = c
  OBVIOUS
<1>11. disk' = [disk EXCEPT ![i] = Written(disk[i], p, c)]
  BY <1>9 DEF Piece
<1>12. CASE i \in Inodes
  <2>1. p \in Nat /\ disk[i] \in Seq(Cells) /\ Sound(disk[i])
    BY <1>1, <1>6, <1>9, <1>12 DEF Shape, IInv
  <2>2. PICK s : s = disk[i]
    OBVIOUS
  <2>3. PICK q : q = p
    OBVIOUS
  <2>4. PICK t : t = Written(s, q, d)
    OBVIOUS
  <2>5. t \in Seq(Cells) /\ Sound(t)'
    <3> HIDE DEF p, c
    <3> QED BY <1>1, <1>7, <1>8, <1>10, <2>1, <2>2, <2>3, <2>4, WrittenKeeps
  <2> HIDE DEF p, c
  <2>6. disk' = [disk EXCEPT ![i] = t]
    BY <1>10, <1>11, <2>2, <2>3, <2>4
  <2>7. disk' \in [Inodes -> Seq(Cells)]
        /\ \A j \in Inodes : disk'[j] = IF j = i THEN t ELSE disk[j]
    BY <1>1, <2>5, <2>6 DEF Shape
  <2>8. Shape'
    BY <1>1, <1>2, <1>4, <2>7 DEF Shape, browser, Inodes
  <2>9. /\ \A v \in Uploads : Sound(taken[v])'
        /\ \A j \in Inodes : Sound(disk[j])'
        /\ InService'
    <3>1. Onward /\ UNCHANGED <<taken, db>>
      BY <1>1, <1>2
    <3>2. \A j \in Inodes : disk'[j] = IF j = i THEN t ELSE disk[j]
      BY <2>7
    <3>3. i \in Inodes => Sound(t)'
      BY <2>5
    <3> QED BY <3>1, <3>2, <3>3, OneFile
  <2> QED BY <1>5, <2>8, <2>9 DEF IInv, Inodes
<1>13. CASE i \notin Inodes
  <2>1. disk' = disk
    BY <1>1, <1>11, <1>13 DEF Shape
  <2>2. Shape'
    BY <1>1, <1>2, <1>4, <2>1 DEF Shape, browser, Inodes
  <2> QED BY <1>1, <1>2, <1>5, <2>1, <2>2, Frame DEF IInv, Inodes
<1> QED BY <1>12, <1>13

(* Cutting a file back, or growing it with zeros, adds no last piece.       *)
LEMMA PieceFailsKeeps ==
  ASSUME IInv, NEW u \in Uploads, PieceFails(u)
  PROVE  IInv'
<1>1. Shape /\ Onward
  BY DEF PieceFails, browser, IInv, Onward
<1>2. UNCHANGED <<browser, received, source, taken, named, db, committed>>
  BY DEF PieceFails
<1>3. req' = [req EXCEPT ![u] = "bad"]
  BY DEF PieceFails, Answer
<1>4. ASSUME NEW v \in Uploads PROVE Progress(v)' /\ Reads(v)'
  <2>1. Progress(v) /\ Reads(v)
    BY DEF IInv
  <2>2. req'[v] = IF v = u THEN "bad" ELSE req[v]
    BY <1>1, <1>3 DEF Shape
  <2>3. req[u] = "body"
    BY DEF PieceFails
  <2> QED BY <1>2, <2>1, <2>2, <2>3 DEF browser, Progress, Reads, Final
<1>5. PICK i : i = handle[u]
  OBVIOUS
<1>6. CASE i \in Inodes /\ disk' = [disk EXCEPT ![i] = Truncated(disk[i], offset[u])]
  <2>1. offset[u] \in Nat /\ disk[i] \in Seq(Cells) /\ Sound(disk[i])
    BY <1>1, <1>6 DEF Shape, IInv
  <2>2. PICK s : s = disk[i]
    OBVIOUS
  <2>3. PICK n : n = offset[u]
    OBVIOUS
  <2>4. PICK t : t = Truncated(s, n)
    OBVIOUS
  <2>5. t \in Seq(Cells) /\ Sound(t)'
    BY <1>1, <2>1, <2>2, <2>3, <2>4, TruncatedKeeps
  <2>6. disk' = [disk EXCEPT ![i] = t]
    BY <1>6, <2>2, <2>3, <2>4
  <2>7. disk' \in [Inodes -> Seq(Cells)]
        /\ \A j \in Inodes : disk'[j] = IF j = i THEN t ELSE disk[j]
    BY <1>1, <2>5, <2>6 DEF Shape
  <2>8. Shape'
    BY <1>1, <1>2, <1>3, <2>7 DEF Shape, browser, Inodes
  <2>9. /\ \A v \in Uploads : Sound(taken[v])'
        /\ \A j \in Inodes : Sound(disk[j])'
        /\ InService'
    <3>1. Onward /\ UNCHANGED <<taken, db>>
      BY <1>1, <1>2
    <3>2. \A j \in Inodes : disk'[j] = IF j = i THEN t ELSE disk[j]
      BY <2>7
    <3>3. i \in Inodes => Sound(t)'
      BY <2>5
    <3> QED BY <3>1, <3>2, <3>3, OneFile
  <2> QED BY <1>4, <2>8, <2>9 DEF IInv, Inodes
<1>7. CASE disk' = disk
  <2>1. Shape'
    BY <1>1, <1>2, <1>3, <1>7 DEF Shape, browser, Inodes
  <2> QED BY <1>1, <1>2, <1>4, <1>7, <2>1, Frame DEF IInv, Inodes
<1>8. disk' = [disk EXCEPT ![i] = Truncated(disk[i], offset[u])] \/ disk' = disk
  BY <1>5 DEF PieceFails
<1>9. i \notin Inodes => disk' = disk
  BY <1>1, <1>8 DEF Shape
<1> QED BY <1>6, <1>7, <1>8, <1>9

(* A step that changes what one restore has unpacked, and no file.          *)
LEMMA OneRestore ==
  ASSUME IInv, Onward, disk' = disk, NEW u, NEW t,
         \A v \in Uploads : taken'[v] = IF v = u THEN t ELSE taken[v],
         Sound(t)'
  PROVE  /\ \A v \in Uploads : Sound(taken[v])'
         /\ \A j \in Inodes : Sound(disk[j])'
<1>1. ASSUME NEW j \in Inodes PROVE Sound(disk[j])'
  <2>1. PICK s : s = disk[j]
    OBVIOUS
  <2>2. Sound(s)'
    BY <2>1, SoundStays DEF IInv
  <2> QED BY <2>1, <2>2
<1>2. ASSUME NEW v \in Uploads, v # u PROVE Sound(taken[v])'
  <2>1. PICK s : s = taken[v]
    OBVIOUS
  <2>2. Sound(s)'
    BY <2>1, SoundStays DEF IInv
  <2> QED BY <1>2, <2>1, <2>2
<1>3. ASSUME NEW v \in Uploads, v = u PROVE Sound(taken[v])'
  BY <1>3
<1> QED BY <1>1, <1>2, <1>3

(* What is unpacked was on the disk.                                        *)
LEMMA UnpackKeeps ==
  ASSUME IInv, NEW u \in Uploads, Unpack(u)
  PROVE  IInv'
<1>1. Shape /\ Onward
  BY DEF Unpack, browser, history, IInv, Onward
<1>2. UNCHANGED <<browser, req, received, source, disk, named, db, committed>>
  BY DEF Unpack, files, history
<1>3. ASSUME NEW v \in Uploads PROVE Progress(v)' /\ Reads(v)'
  <2>1. Progress(v) /\ Reads(v)
    BY DEF IInv
  <2> QED BY <1>2, <2>1 DEF browser, Progress, Reads, Final
<1>4. source[u] \in Inodes
  BY DEF IInv, Reads, Unpack
<1>5. PICK s : s = disk[source[u]]
  OBVIOUS
<1>6. PICK r : r = taken[u]
  OBVIOUS
<1>7. s \in Seq(Cells) /\ r \in Seq(Cells) /\ Sound(s) /\ Sound(r)
  BY <1>1, <1>4, <1>5, <1>6 DEF Shape, IInv
<1>8. Len(r) < Len(s)
  BY <1>5, <1>6 DEF Unpack
<1>9. Len(r) + 1 \in 1..Len(s)
  BY <1>7, <1>8
<1>10. PICK c : c = s[Len(r) + 1]
  OBVIOUS
<1>11. c \in Cells /\ Good(c)
  BY <1>7, <1>9, <1>10 DEF Sound
<1>12. PICK t : t = Append(r, c)
  OBVIOUS
<1>13. /\ t \in Seq(Cells) /\ Len(t) = Len(r) + 1
       /\ \A k \in 1..Len(r) : t[k] = r[k]
       /\ t[Len(r) + 1] = c
  BY <1>7, <1>11, <1>12, AppendProperties
<1>14. ASSUME NEW k \in 1..Len(t)
       PROVE  Good(t[k]) \/ \E j \in 1..Len(r) : t[k] = r[j]
  <2>1. k \in 1..Len(r) \/ k = Len(r) + 1
    BY <1>7, <1>13
  <2> QED BY <1>11, <1>13, <2>1
<1>15. Sound(t)'
  BY <1>1, <1>7, <1>14, SplicedIsSound
<1>16. taken' = [taken EXCEPT ![u] = t]
  BY <1>5, <1>6, <1>10, <1>12 DEF Unpack
<1>17. taken' \in [Uploads -> Seq(Cells)]
       /\ \A v \in Uploads : taken'[v] = IF v = u THEN t ELSE taken[v]
  BY <1>1, <1>13, <1>16 DEF Shape
<1>18. Shape'
  BY <1>1, <1>2, <1>17 DEF Shape, browser, Inodes
<1>19. /\ \A v \in Uploads : Sound(taken[v])'
       /\ \A j \in Inodes : Sound(disk[j])'
  <2>1. disk' = disk
    BY <1>2
  <2>2. \A v \in Uploads : taken'[v] = IF v = u THEN t ELSE taken[v]
    BY <1>17
  <2> QED BY <1>1, <1>15, <2>1, <2>2, OneRestore
<1>20. InService'
  BY <1>1, <1>2, ServiceStays
<1> QED BY <1>3, <1>18, <1>19, <1>20 DEF IInv, Inodes

(* What passes verification holds the last piece of its file.               *)
LEMMA RestoreEndsKeeps ==
  ASSUME IInv, NEW u \in Uploads, RestoreEnds(u)
  PROVE  IInv'
<1>1. Shape /\ Onward
  BY DEF RestoreEnds, browser, IInv, Onward
<1>2. UNCHANGED <<browser, received, disk, named, committed>>
  BY DEF RestoreEnds
<1>3. PICK a \in {"ok", "bad"} : req' = [req EXCEPT ![u] = a]
  BY DEF RestoreEnds, Answer
<1>4. source' = source \/ source' = [source EXCEPT ![u] = None]
  BY DEF RestoreEnds
<1>5. ASSUME NEW v \in Uploads PROVE Progress(v)' /\ Reads(v)'
  <2>1. Progress(v) /\ Reads(v)
    BY DEF IInv
  <2>2. req'[v] = IF v = u THEN a ELSE req[v]
    BY <1>1, <1>3 DEF Shape
  <2>3. v # u => source'[v] = source[v]
    BY <1>1, <1>4 DEF Shape
  <2>4. req[u] = "reading"
    BY DEF RestoreEnds
  <2> QED BY <1>2, <2>1, <2>2, <2>3, <2>4 DEF browser, Progress, Reads, Final
<1>6. PICK t : t = <<>>
  OBVIOUS
<1>7. t \in Seq(Cells) /\ Len(t) = 0
  BY <1>6
<1>8. Sound(t)'
  BY <1>7 DEF Sound
<1>9. taken' \in [Uploads -> Seq(Cells)]
      /\ \A v \in Uploads : taken'[v] = IF v = u THEN t ELSE taken[v]
  <2>1. taken' = [taken EXCEPT ![u] = t]
    BY <1>6 DEF RestoreEnds
  <2> QED BY <1>1, <1>7, <2>1 DEF Shape
<1>10. source' \in [Uploads -> Inodes \cup {None}]
  BY <1>1, <1>4 DEF Shape
<1>11. Shape'
  BY <1>1, <1>2, <1>3, <1>9, <1>10 DEF Shape, browser, Inodes
<1>12. /\ \A v \in Uploads : Sound(taken[v])'
       /\ \A j \in Inodes : Sound(disk[j])'
  <2>1. disk' = disk
    BY <1>2
  <2>2. \A v \in Uploads : taken'[v] = IF v = u THEN t ELSE taken[v]
    BY <1>9
  <2> QED BY <1>1, <1>8, <2>1, <2>2, OneRestore
<1>13. CASE Genuine(taken[u]) /\ db' = taken[u][Total][1]
  <2>1. PICK f \in Files : taken[u] = Whole(f)
    BY <1>13 DEF Genuine
  <2>2. Total \in 1..Total /\ Total \in Nat
    BY UploadAssumption
  <2>3. Len(taken[u]) = Total /\ taken[u][Total] = <<f, Total>>
    <3>1. taken[u][Total] = <<f, Total>>
      BY <2>1, <2>2 DEF Whole
    <3>2. Len(Whole(f)) = Total
      BY <2>2 DEF Whole
    <3> QED BY <2>1, <3>1, <3>2
  <2>4. Backed(f)
    BY <2>2, <2>3 DEF IInv, Sound, Good
  <2>5. Backed(f)'
    BY <1>1, <2>4, BackedStays
  <2>6. db' = f
    BY <1>13, <2>3
  <2> QED BY <1>5, <1>11, <1>12, <2>5, <2>6 DEF IInv, InService, Inodes
<1>14. CASE db' = db
  <2>1. InService'
    BY <1>1, <1>14, ServiceStays
  <2> QED BY <1>5, <1>11, <1>12, <2>1 DEF IInv, Inodes
<1>15. (Genuine(taken[u]) /\ db' = taken[u][Total][1]) \/ db' = db
  BY DEF RestoreEnds
<1> QED BY <1>13, <1>14, <1>15

-----------------------------------------------------------------------------
(* Every step keeps the invariant.                                          *)
LEMMA NextKeepsIInv == IInv /\ [Next]_vars => IInv'
<1> SUFFICES ASSUME IInv, [Next]_vars PROVE IInv'
  OBVIOUS
<1>1. CASE UNCHANGED vars
  <2>1. Onward /\ UNCHANGED <<taken, disk, db>>
    BY <1>1 DEF vars, browser, request, files, history, Onward
  <2>2. Shape'
    BY <1>1 DEF vars, browser, request, files, history, IInv, Shape, Inodes
  <2>3. ASSUME NEW v \in Uploads PROVE Progress(v)' /\ Reads(v)'
    <3>1. Progress(v) /\ Reads(v)
      BY DEF IInv
    <3> QED BY <1>1, <3>1 DEF vars, browser, request, history, Progress, Reads, Final
  <2> QED BY <2>1, <2>2, <2>3, Frame DEF IInv, Inodes
<1>2. CASE Next
  <2>1. PICK u \in Uploads : Browser(u) \/ Hub(u)
    BY <1>2 DEF Next
  <2>2. CASE Browser(u)
    BY <2>2, StartKeeps, AbortKeeps, AnsweredKeeps, ResumeKeeps, ConnectionLostKeeps
       DEF Browser
  <2>3. CASE Hub(u)
    BY <2>3, OpenKeeps, RefuseKeeps, NeverArrivesKeeps, PieceKeeps, PieceFailsKeeps,
       DroppedKeeps, BodyEndsKeeps, RestoreBeginsKeeps, UnpackKeeps, RestoreEndsKeeps
       DEF Hub
  <2> QED BY <2>1, <2>2, <2>3
<1> QED BY <1>1, <1>2

(* "Cancelled, the database was not changed" is true of every restore: the  *)
(* database in service is the one the Hub began with or a file that some    *)
(* upload, not reported cancelled, sent to its end (upload's final chunk in *)
(* api.ts, restore's message in data.tsx, receive and db_restore in         *)
(* api.rs).                                                                 *)
THEOREM CancelledMeansUnchanged == Spec => []CancelHolds
<1>1. Init => IInv
  BY InitIInv
<1>2. IInv /\ [Next]_vars => IInv'
  BY NextKeepsIInv
<1>3. IInv => CancelHolds
  BY IInvGives
<1> QED BY <1>1, <1>2, <1>3, PTL DEF Spec
-----------------------------------------------------------------------------
(* Starting over.                                                           *)

(* The first n pieces of f; the inode i holds exactly those.                *)
Prefix(f, n) == [k \in 1..n |-> <<f, k>>]
Holds(i, f, n) == i \in Inodes /\ n <= Total /\ disk[i] = Prefix(f, n)

(* Where an upload that met nothing stands: the file under the upload name  *)
(* is what it has sent so far, and what it claimed is its own.              *)
Kept(u) ==
  /\ req[u] \in {"wire", "body", "more", "claimed", "reading", "ok"}
  /\ req[u] = "wire" => received[u] = 0 /\ (offset[u] # 0 => Holds(named, file[u], offset[u]))
  /\ req[u] = "body" => /\ received[u] <= CHUNK /\ handle[u] = named
                        /\ Holds(named, file[u], offset[u] + received[u])
  /\ req[u] = "more" => Holds(named, file[u], offset[u] + CHUNK)
  /\ req[u] \in {"claimed", "reading"} => /\ Holds(source[u], file[u], Total)
                                          /\ taken[u] = Prefix(file[u], Len(taken[u]))
  /\ req[u] = "ok" => outcome[u] = file[u]

(* Nobody else's request can reach the disk, and nothing has ended its own. *)
Alone(u) ==
  /\ \A v \in Uploads \ {u} : ~Active(v) /\ ~InFlight(v)
  /\ u \notin cut

(* One that starts from a dropped session gets no further than the door.    *)
Stands(u) == IF u \in kicked THEN req[u] \in {"wire", "bad"} ELSE Kept(u)

Quiet(u) ==
  /\ step[u] = "idle" => u \notin cut
  /\ step[u] = "resumed" => req[u] = "more"
  /\ step[u] = "restored" => req[u] = "ok"
  /\ req[u] # "reading" => taken[u] = <<>>

Works(u) ==
  u \notin disturbed =>
    /\ step[u] = "failed" => u \in kicked
    /\ step[u] = "restored" => outcome[u] = file[u]
    /\ Active(u) => Alone(u) /\ Stands(u)

Functions == handle = [u \in Uploads |-> handle[u]] /\ outcome = [u \in Uploads |-> outcome[u]]

Retry == IInv /\ Functions /\ \A u \in Uploads : Quiet(u) /\ Works(u)

LEMMA InitRetry == Init => Retry
<1> SUFFICES ASSUME Init PROVE Retry
  OBVIOUS
<1>1. Functions
  BY DEF Init, Functions
<1>2. \A u \in Uploads : Quiet(u) /\ Works(u)
  BY DEF Init, Quiet, Works, Active
<1> QED BY <1>1, <1>2, InitIInv DEF Retry

-----------------------------------------------------------------------------
(* Prefixes.                                                                *)

LEMMA PrefixLen ==
  ASSUME NEW f, NEW n \in Nat
  PROVE  Len(Prefix(f, n)) = n /\ \A k \in 1..n : Prefix(f, n)[k] = <<f, k>>
BY DEF Prefix

LEMMA PrefixIsSeq ==
  ASSUME NEW f \in Files, NEW n \in Nat, n <= Total
  PROVE  Prefix(f, n) \in Seq(Cells)
<1>1. \A k \in 1..n : <<f, k>> \in Cells
  BY UploadAssumption DEF Cells
<1> QED BY <1>1 DEF Prefix

LEMMA WrittenExtends ==
  ASSUME NEW f, NEW n \in Nat
  PROVE  Written(Prefix(f, n), n, <<f, n + 1>>) = Prefix(f, n + 1)
<1> DEFINE s == Prefix(f, n)
<1>1. Len(s) = n /\ \A k \in 1..n : s[k] = <<f, k>>
  BY PrefixLen
<1> HIDE DEF s
<1>2. Written(s, n, <<f, n + 1>>) =
        [k \in 1..(n + 1) |-> IF k = n + 1 THEN <<f, n + 1>> ELSE IF k <= n THEN s[k] ELSE Zero]
  BY <1>1 DEF Written
<1>3. \A k \in 1..(n + 1) :
        (IF k = n + 1 THEN <<f, n + 1>> ELSE IF k <= n THEN s[k] ELSE Zero) = <<f, k>>
  BY <1>1
<1>4. Written(s, n, <<f, n + 1>>) = [k \in 1..(n + 1) |-> <<f, k>>]
  BY <1>2, <1>3
<1> QED BY <1>4 DEF s, Prefix

LEMMA AppendExtends ==
  ASSUME NEW f \in Files, NEW n \in Nat, n < Total
  PROVE  Append(Prefix(f, n), <<f, n + 1>>) = Prefix(f, n + 1)
<1> DEFINE s == Prefix(f, n)
           t == Append(s, <<f, n + 1>>)
<1>1. s \in Seq(Cells) /\ <<f, n + 1>> \in Cells
  BY PrefixIsSeq, UploadAssumption DEF Cells
<1>2. Len(s) = n /\ \A k \in 1..n : s[k] = <<f, k>>
  BY PrefixLen
<1> HIDE DEF s
<1>3. t \in Seq(Cells) /\ Len(t) = n + 1 /\ (\A k \in 1..n : t[k] = s[k]) /\ t[n + 1] = <<f, n + 1>>
  BY <1>1, <1>2, AppendProperties
<1> HIDE DEF t
<1>4. t = [k \in 1..(n + 1) |-> t[k]]
  BY <1>3
<1>5. \A k \in 1..(n + 1) : t[k] = <<f, k>>
  BY <1>2, <1>3
<1>6. t = [k \in 1..(n + 1) |-> <<f, k>>]
  BY <1>4, <1>5
<1> QED BY <1>6 DEF s, t, Prefix

-----------------------------------------------------------------------------
(* The steps of another upload.                                             *)

(* They leave an upload's own state alone, and either need a request under  *)
(* way or start one.                                                        *)
LEMMA OtherStep ==
  ASSUME Retry, NEW w \in Uploads, NEW u \in Uploads \ {w}, Browser(w) \/ Hub(w)
  PROVE  /\ UNCHANGED <<file, step[u], req[u], taken[u], outcome[u]>>
         /\ u \in cut' => u \in cut
         /\ kicked \subseteq kicked' /\ (kicked' # kicked => InFlight(w))
         /\ disturbed \subseteq disturbed'
         /\ Active(w) \/ InFlight(w) \/ (Active(u) => u \in disturbed')
<1>1. Shape /\ Functions
  BY DEF Retry, IInv
<1>2. CASE Browser(w)
  BY <1>1, <1>2 DEF Browser, Start, Abort, Answered, Resume, ConnectionLost, Send, Shape, Functions,
                    Active, request, history
<1>3. CASE Hub(w)
  <2>1. CASE Open(w) \/ Refuse(w) \/ NeverArrives(w) \/ Piece(w) \/ Dropped(w) \/ RestoreBegins(w) \/ Unpack(w)
    BY <1>1, <2>1 DEF Open, Refuse, NeverArrives, Piece, Dropped, RestoreBegins, Unpack, Answer,
                      Shape, Functions, InFlight, browser, history
  <2>2. CASE PieceFails(w) \/ BodyEnds(w)
    BY <1>1, <2>2 DEF PieceFails, BodyEnds, Answer, Fault, Shape, Functions, InFlight, browser
  <2>3. CASE RestoreEnds(w)
    BY <1>1, <2>3 DEF RestoreEnds, Answer, Fault, Shape, Functions, InFlight, browser
  <2> QED BY <1>3, <2>1, <2>2, <2>3 DEF Hub
<1> QED BY <1>2, <1>3

LEMMA OthersKeepRetry ==
  ASSUME Retry, NEW w \in Uploads, NEW u \in Uploads \ {w}, Browser(w) \/ Hub(w)
  PROVE  Quiet(u)' /\ Works(u)'
<1>1. /\ file' = file /\ step'[u] = step[u] /\ req'[u] = req[u] /\ taken'[u] = taken[u]
      /\ outcome'[u] = outcome[u]
      /\ u \in cut' => u \in cut
      /\ kicked \subseteq kicked' /\ (kicked' # kicked => InFlight(w))
      /\ disturbed \subseteq disturbed'
      /\ Active(w) \/ InFlight(w) \/ (Active(u) => u \in disturbed')
  BY OtherStep
<1>2. Quiet(u) /\ Works(u) /\ Progress(u)
  BY DEF Retry, IInv
<1>3. Quiet(u)'
  BY <1>1, <1>2 DEF Quiet, Progress, Active, InFlight
<1>4. Active(u) /\ u \notin disturbed => ~Active(w) /\ ~InFlight(w)
  BY <1>2 DEF Works, Alone
<1>5. Active(u)' <=> Active(u)
  BY <1>1 DEF Active
<1>6. ASSUME u \notin disturbed' PROVE ~Active(u)
  BY <1>1, <1>4, <1>6
<1>7. Works(u)'
  BY <1>1, <1>2, <1>5, <1>6 DEF Works
<1> QED BY <1>3, <1>7

(* Nobody else becomes active by a step of u.                               *)
LEMMA AloneStays ==
  ASSUME Retry, NEW u \in Uploads, Browser(u) \/ Hub(u),
         \A v \in Uploads \ {u} : ~Active(v) /\ ~InFlight(v), u \notin cut'
  PROVE  Alone(u)'
<1>1. ASSUME NEW v \in Uploads \ {u} PROVE ~Active(v)' /\ ~InFlight(v)'
  <2>1. step'[v] = step[v] /\ req'[v] = req[v]
    BY OtherStep
  <2> QED BY <2>1 DEF Active, InFlight
<1> QED BY <1>1 DEF Alone

-----------------------------------------------------------------------------
(* The steps of the browser.                                                *)

LEMMA StartRetry ==
  ASSUME Retry, NEW u \in Uploads, Start(u)
  PROVE  Quiet(u)' /\ Works(u)'
<1>1. Shape /\ Quiet(u) /\ Progress(u)
  BY DEF Retry, IInv
<1>2. /\ step[u] = "idle" /\ step'[u] = "waiting" /\ req'[u] = "wire" /\ offset'[u] = 0
      /\ received'[u] = 0 /\ UNCHANGED <<cut, kicked, taken>>
  BY <1>1 DEF Start, Send, Shape
<1>3. Quiet(u)'
  BY <1>1, <1>2 DEF Quiet, Progress
<1>4. ASSUME u \notin disturbed' PROVE Alone(u)' /\ Stands(u)'
  <2>1. \A v \in Uploads : ~Active(v) /\ ~InFlight(v)
    BY <1>4 DEF Start
  <2>2. Alone(u)'
    BY <1>1, <1>2, <2>1, AloneStays DEF Browser, Quiet
  <2>3. Stands(u)'
    BY <1>2 DEF Stands, Kept
  <2> QED BY <2>2, <2>3
<1> QED BY <1>2, <1>3, <1>4 DEF Works

LEMMA AbortRetry ==
  ASSUME Retry, NEW u \in Uploads, Abort(u)
  PROVE  Quiet(u)' /\ Works(u)'
<1>1. Shape /\ Quiet(u) /\ Works(u) /\ Active(u)
  BY DEF Retry, IInv, Abort
<1>2. /\ UNCHANGED <<file, offset, req, received, handle, source, taken, kicked, disk, named,
                     disturbed, outcome>>
      /\ step'[u] = "cancelled" \/ UNCHANGED <<step, cut>>
  BY <1>1 DEF Abort, files, history, Shape
<1>3. Quiet(u)'
  BY <1>1, <1>2 DEF Quiet, Active
<1>4. CASE step'[u] = "cancelled"
  BY <1>3, <1>4 DEF Works, Active
<1>5. CASE UNCHANGED <<step, cut>>
  <2>1. ASSUME u \notin disturbed PROVE Alone(u)' /\ Stands(u)'
    <3>1. Alone(u) /\ Stands(u)
      BY <1>1, <2>1 DEF Works
    <3>2. Alone(u)'
      BY <1>2, <1>5, <3>1 DEF Alone, Active, InFlight
    <3>3. Stands(u)'
      BY <1>2, <1>5, <3>1 DEF Stands, Kept, Holds, Inodes
    <3> QED BY <3>2, <3>3
  <2> QED BY <1>1, <1>2, <1>3, <1>5, <2>1 DEF Works, Active
<1> QED BY <1>2, <1>3, <1>4, <1>5

LEMMA AnsweredRetry ==
  ASSUME Retry, NEW u \in Uploads, Answered(u)
  PROVE  Quiet(u)' /\ Works(u)'
<1>1. Shape /\ Quiet(u) /\ Works(u)
  BY DEF Retry, IInv
<1>2. /\ UNCHANGED <<file, offset, req, received, cut, handle, source, taken, kicked, disk, named,
                     disturbed, outcome>>
      /\ step[u] = "waiting" /\ req[u] \in {"more", "ok", "bad", "lost"}
      /\ step'[u] = CASE req[u] = "more" -> "resumed" [] req[u] = "ok" -> "restored" [] OTHER -> "failed"
  BY <1>1 DEF Answered, files, history, request, Shape
<1>3. Quiet(u)'
  BY <1>1, <1>2 DEF Quiet
<1>4. ASSUME u \notin disturbed
      PROVE  /\ step'[u] \in {"resumed", "restored", "failed"} /\ (step'[u] = "failed" => u \in kicked)
             /\ step'[u] = "restored" => outcome[u] = file[u]
             /\ step'[u] = "resumed" => Alone(u)' /\ Stands(u)'
  <2>1. Alone(u) /\ Stands(u)
    BY <1>1, <1>2, <1>4 DEF Works, Active
  <2>2. \/ u \in kicked /\ req[u] = "bad"
        \/ u \notin kicked /\ req[u] = "more"
        \/ u \notin kicked /\ req[u] = "ok" /\ outcome[u] = file[u]
    BY <1>2, <2>1 DEF Stands, Kept
  <2>3. Alone(u)'
    BY <1>2, <2>1, AloneStays DEF Browser, Alone
  <2>4. step'[u] = "resumed" => Stands(u)'
    BY <1>2, <2>1, <2>2 DEF Stands, Kept, Holds, Inodes
  <2> QED BY <1>2, <2>2, <2>3, <2>4
<1> QED BY <1>2, <1>3, <1>4 DEF Works, Active

LEMMA ResumeRetry ==
  ASSUME Retry, NEW u \in Uploads, Resume(u)
  PROVE  Quiet(u)' /\ Works(u)'
<1>1. Shape /\ Quiet(u) /\ Works(u)
  BY DEF Retry, IInv
<1>2. /\ UNCHANGED <<file, cut, handle, source, taken, kicked, disk, named, disturbed, outcome>>
      /\ step[u] = "resumed"
  BY DEF Resume, files
<1>3. CASE u \in aborted
  <2>1. step'[u] = "cancelled" /\ req' = req
    BY <1>1, <1>3 DEF Resume, Shape
  <2> QED BY <1>1, <1>2, <2>1 DEF Quiet, Works, Active
<1>4. CASE u \notin aborted
  <2>1. /\ step'[u] = "waiting" /\ req'[u] = "wire" /\ received'[u] = 0
        /\ offset'[u] = offset[u] + CHUNK
    BY <1>1, <1>4 DEF Resume, Send, Shape
  <2>2. ASSUME u \notin disturbed PROVE Alone(u)' /\ Stands(u)' /\ req[u] = "more"
    <3>1. Alone(u) /\ Stands(u)
      BY <1>1, <1>2, <2>2 DEF Works, Active
    <3>2. req[u] = "more" /\ u \notin kicked /\ Holds(named, file[u], offset[u] + CHUNK)
      BY <1>1, <1>2, <3>1 DEF Stands, Kept, Quiet
    <3>3. Holds(named, file[u], offset[u])'
      BY <1>2, <2>1, <3>2 DEF Holds, Inodes
    <3>4. Alone(u)'
      BY <1>2, <3>1, AloneStays DEF Browser, Alone
    <3> QED BY <1>2, <2>1, <3>2, <3>3, <3>4 DEF Stands, Kept
  <2>3. taken[u] = <<>>
    BY <1>1, <1>2 DEF Quiet
  <2> QED BY <1>2, <2>1, <2>2, <2>3 DEF Quiet, Works, Active
<1> QED BY <1>3, <1>4

LEMMA ConnectionLostRetry ==
  ASSUME Retry, NEW u \in Uploads, ConnectionLost(u)
  PROVE  Quiet(u)' /\ Works(u)'
<1>1. Shape /\ Quiet(u)
  BY DEF Retry, IInv
<1>2. step'[u] = "failed" /\ u \in disturbed' /\ UNCHANGED <<req, taken>>
  BY <1>1 DEF ConnectionLost, Shape
<1> QED BY <1>1, <1>2 DEF Quiet, Works

-----------------------------------------------------------------------------
(* The steps of the Hub.                                                    *)

(* Ends the proof for a step of the Hub: the browser's side does not move.  *)
LEMMA HubRetry ==
  ASSUME Retry, NEW u \in Uploads, Hub(u), file' = file, step' = step, disturbed \subseteq disturbed',
         cut' = cut, u \in kicked' <=> u \in kicked,
         InFlight(u), req'[u] # "reading" => taken'[u] = <<>>,
         Active(u) /\ u \notin disturbed' /\ Alone(u) /\ Stands(u) => Stands(u)'
  PROVE  Quiet(u)' /\ Works(u)'
<1>1. Quiet(u) /\ Works(u) /\ Progress(u)
  BY DEF Retry, IInv
<1>2. step[u] \notin {"idle", "resumed", "restored"}
  BY <1>1 DEF Quiet, Progress, InFlight
<1>3. Quiet(u)'
  BY <1>2 DEF Quiet
<1>4. ASSUME u \notin disturbed', Active(u) PROVE Alone(u)' /\ Stands(u)'
  <2>1. Alone(u) /\ Stands(u)
    BY <1>1, <1>4 DEF Works
  <2>2. Alone(u)'
    BY <2>1, AloneStays DEF Alone
  <2> QED BY <1>4, <2>1, <2>2
<1>5. Active(u)' <=> Active(u)
  BY DEF Active
<1>6. Works(u)'
  BY <1>1, <1>2, <1>4, <1>5 DEF Works
<1> QED BY <1>3, <1>6

LEMMA OpenRetry ==
  ASSUME Retry, NEW u \in Uploads, Open(u)
  PROVE  Quiet(u)' /\ Works(u)'
<1>1. Shape /\ Functions /\ Quiet(u)
  BY DEF Retry, IInv
<1>2. /\ UNCHANGED <<file, step, offset, received, cut, source, taken, kicked, disturbed, outcome>>
      /\ req[u] = "wire" /\ req'[u] \in {"body", "bad"} /\ u \notin kicked
  BY <1>1 DEF Open, Answer, browser, history, Shape
<1>3. ASSUME Kept(u) PROVE Kept(u)'
  <2>1. received[u] = 0 /\ offset[u] \in Nat /\ file[u] \in Files
    BY <1>1, <1>2, <1>3 DEF Kept, Shape
  <2>2. CASE offset[u] = 0
    <3>1. PICK i \in Inodes : /\ disk' = [disk EXCEPT ![i] = <<>>] /\ named' = i
                              /\ handle' = [handle EXCEPT ![u] = i] /\ req' = [req EXCEPT ![u] = "body"]
      BY <2>2 DEF Open
    <3>2. disk'[i] = <<>> /\ handle'[u] = named' /\ named' = i /\ req'[u] = "body"
      BY <1>1, <3>1 DEF Shape, Functions
    <3>3. Prefix(file[u], 0) = <<>>
      BY DEF Prefix
    <3>4. Holds(named, file[u], offset[u] + received[u])'
      BY <1>2, <2>1, <2>2, <3>2, <3>3, UploadAssumption DEF Holds, Inodes
    <3> QED BY <1>2, <2>1, <3>2, <3>4, UploadAssumption DEF Kept
  <2>3. CASE offset[u] # 0
    <3>1. Holds(named, file[u], offset[u])
      BY <1>2, <1>3, <2>3 DEF Kept
    <3>2. Len(disk[named]) = offset[u]
      BY <2>1, <3>1, PrefixLen DEF Holds
    <3>3. Aligned(u)
      BY <3>1, <3>2, UploadAssumption DEF Aligned, Holds, Inodes
    <3>4. req'[u] = "body" /\ handle'[u] = named /\ UNCHANGED <<disk, named>>
      BY <1>1, <2>3, <3>3 DEF Open, files, Shape, Functions
    <3>5. offset[u] + received[u] = offset[u]
      BY <2>1
    <3>6. Holds(named, file[u], offset[u] + received[u])'
      BY <1>2, <3>1, <3>4, <3>5 DEF Holds, Inodes
    <3> QED BY <1>2, <2>1, <3>4, <3>6, UploadAssumption DEF Kept
  <2> QED BY <2>2, <2>3
<1>4. taken'[u] = <<>>
  BY <1>1, <1>2 DEF Quiet
<1> QED BY <1>2, <1>3, <1>4, HubRetry DEF Hub, InFlight, Stands

(* A request nobody gave up on arrives, and one whose session stands is let *)
(* in.                                                                      *)
LEMMA UnheardRetry ==
  ASSUME Retry, NEW u \in Uploads, Refuse(u) \/ NeverArrives(u) \/ Dropped(u)
  PROVE  Quiet(u)' /\ Works(u)'
<1>1. Shape /\ Quiet(u)
  BY DEF Retry, IInv
<1>2. /\ UNCHANGED <<file, step, cut, taken, kicked, disturbed>>
      /\ req[u] \in {"wire", "body"} /\ (u \in cut \/ (u \in kicked /\ req'[u] = "bad"))
  BY <1>1 DEF Answer, Shape, Refuse, NeverArrives, Dropped, browser, history
<1>3. taken'[u] = <<>>
  BY <1>1, <1>2 DEF Quiet
<1>4. ~Alone(u) \/ Stands(u)'
  BY <1>2 DEF Alone, Stands
<1> QED BY <1>2, <1>3, <1>4, HubRetry DEF Hub, InFlight, Stands

LEMMA PieceRetry ==
  ASSUME Retry, NEW u \in Uploads, Piece(u)
  PROVE  Quiet(u)' /\ Works(u)'
<1>1. Shape /\ Functions /\ Quiet(u)
  BY DEF Retry, IInv
<1>2. /\ UNCHANGED <<file, step, offset, req, cut, handle, source, taken, kicked, named, disturbed, outcome>>
      /\ req[u] = "body" /\ received'[u] = received[u] + 1
      /\ received[u] < CHUNK /\ offset[u] + received[u] < Total
  BY <1>1 DEF Piece, More, browser, history, Shape
<1>3. ASSUME Kept(u) PROVE Kept(u)'
  <2>1. /\ received[u] \in Nat /\ offset[u] \in Nat /\ file[u] \in Files
        /\ CHUNK \in Nat /\ Total \in Nat
    BY <1>1, UploadAssumption DEF Shape
  <2>2. handle[u] = named /\ Holds(named, file[u], offset[u] + received[u])
    BY <1>2, <1>3 DEF Kept
  <2>3. PICK n \in Nat : n = offset[u] + received[u]
    BY <2>1
  <2>4. named \in Inodes /\ disk[named] = Prefix(file[u], n) /\ Len(disk[named]) = n
    BY <2>2, <2>3, PrefixLen DEF Holds
  <2>5. disk'[named] = Written(disk[named], n, <<file[u], n + 1>>)
    <3>1. (IF offset[u] = 0 THEN received[u] ELSE Len(disk[handle[u]])) = n
      BY <2>1, <2>2, <2>3, <2>4
    <3> QED BY <1>1, <2>2, <2>3, <2>4, <3>1 DEF Piece, Shape
  <2>6. disk'[named] = Prefix(file[u], n + 1)
    BY <2>4, <2>5, WrittenExtends
  <2>7. offset[u] + (received[u] + 1) = n + 1 /\ n + 1 <= Total /\ received[u] + 1 <= CHUNK
    BY <1>2, <2>1, <2>3
  <2>8. Holds(named, file[u], offset[u] + received[u])'
    BY <1>2, <2>4, <2>6, <2>7 DEF Holds, Inodes
  <2> QED BY <1>2, <2>2, <2>7, <2>8 DEF Kept
<1>4. taken'[u] = <<>>
  BY <1>1, <1>2 DEF Quiet
<1> QED BY <1>2, <1>3, <1>4, HubRetry DEF Hub, InFlight, Stands

LEMMA PieceFailsRetry ==
  ASSUME Retry, NEW u \in Uploads, PieceFails(u)
  PROVE  Quiet(u)' /\ Works(u)'
<1>1. Shape /\ Quiet(u)
  BY DEF Retry, IInv
<1>2. /\ UNCHANGED <<file, step, cut, taken, kicked>> /\ disturbed \subseteq disturbed'
      /\ req[u] = "body" /\ (u \in cut \/ u \in disturbed')
  BY DEF PieceFails, Fault, browser
<1>3. taken'[u] = <<>>
  BY <1>1, <1>2 DEF Quiet
<1>4. u \in disturbed' \/ ~Alone(u)
  BY <1>2 DEF Alone
<1> QED BY <1>2, <1>3, <1>4, HubRetry DEF Hub, InFlight, Stands

LEMMA BodyEndsRetry ==
  ASSUME Retry, NEW u \in Uploads, BodyEnds(u)
  PROVE  Quiet(u)' /\ Works(u)'
<1>1. Shape /\ Functions /\ Quiet(u)
  BY DEF Retry, IInv
<1>2. /\ UNCHANGED <<file, step, offset, received, cut, taken, kicked, disk, outcome>>
      /\ disturbed \subseteq disturbed' /\ req[u] = "body" /\ req'[u] \in {"more", "claimed", "bad"}
      /\ ~(received[u] < CHUNK /\ offset[u] + received[u] < Total)
  BY <1>1 DEF BodyEnds, Answer, Fault, More, browser, Shape
<1>3. ASSUME Kept(u), u \notin disturbed' PROVE Kept(u)'
  <2>1. /\ received[u] \in Nat /\ offset[u] \in Nat /\ CHUNK \in Nat /\ Total \in Nat
    BY <1>1, UploadAssumption DEF Shape
  <2>2. received[u] <= CHUNK /\ Holds(named, file[u], offset[u] + received[u])
    BY <1>2, <1>3 DEF Kept
  <2>3. named # None /\ offset[u] + received[u] <= Total
    BY <2>2, UploadAssumption DEF Holds, Inodes
  <2>4. CASE offset[u] + received[u] < Total
    <3>1. received[u] = CHUNK
      BY <1>2, <2>1, <2>2, <2>4
    <3>2. req'[u] = "more" /\ named' = named
      BY <1>1, <2>1, <2>4 DEF BodyEnds, Answer, Shape
    <3>3. Holds(named, file[u], offset[u] + CHUNK)'
      BY <1>2, <2>2, <3>1, <3>2 DEF Holds, Inodes
    <3> QED BY <3>2, <3>3 DEF Kept
  <2>5. CASE ~(offset[u] + received[u] < Total)
    <3>1. offset[u] + received[u] = Total
      BY <2>1, <2>3, <2>5
    <3>2. req' = [req EXCEPT ![u] = "claimed"] /\ source' = [source EXCEPT ![u] = named]
      BY <1>3, <2>3, <2>5 DEF BodyEnds, Fault
    <3>3. req'[u] = "claimed" /\ source'[u] = named
      BY <1>1, <3>2 DEF Shape
    <3>4. Holds(source[u], file[u], Total)'
      BY <1>2, <2>2, <3>1, <3>3 DEF Holds, Inodes
    <3>5. taken'[u] = <<>>
      BY <1>1, <1>2 DEF Quiet
    <3>6. Prefix(file[u], 0) = <<>> /\ Len(<<>>) = 0
      BY DEF Prefix
    <3>7. taken'[u] = Prefix(file'[u], Len(taken'[u]))
      BY <1>2, <3>5, <3>6
    <3> QED BY <3>3, <3>4, <3>7 DEF Kept
  <2> QED BY <2>4, <2>5
<1>4. taken'[u] = <<>>
  BY <1>1, <1>2 DEF Quiet
<1> QED BY <1>2, <1>3, <1>4, HubRetry DEF Hub, InFlight, Stands

LEMMA RestoreBeginsRetry ==
  ASSUME Retry, NEW u \in Uploads, RestoreBegins(u)
  PROVE  Quiet(u)' /\ Works(u)'
<1>1. Shape
  BY DEF Retry, IInv
<1>2. /\ UNCHANGED <<file, step, offset, received, cut, handle, source, taken, kicked, disk, named,
                     disturbed, outcome>>
      /\ req[u] = "claimed" /\ req'[u] = "reading"
  BY <1>1 DEF RestoreBegins, browser, files, history, Shape
<1>3. ASSUME Kept(u) PROVE Kept(u)'
  BY <1>2, <1>3 DEF Kept, Holds, Inodes
<1> QED BY <1>2, <1>3, HubRetry DEF Hub, InFlight, Stands

LEMMA UnpackRetry ==
  ASSUME Retry, NEW u \in Uploads, Unpack(u)
  PROVE  Quiet(u)' /\ Works(u)'
<1>1. Shape
  BY DEF Retry, IInv
<1>2. /\ UNCHANGED <<file, step, offset, req, received, cut, handle, source, kicked, disk, named,
                     disturbed, outcome>>
      /\ req[u] = "reading" /\ Len(taken[u]) < Total
      /\ taken'[u] = Append(taken[u], disk[source[u]][Len(taken[u]) + 1])
  BY <1>1 DEF Unpack, browser, files, history, Shape
<1>3. ASSUME Kept(u) PROVE Kept(u)'
  <2>1. Holds(source[u], file[u], Total) /\ taken[u] = Prefix(file[u], Len(taken[u]))
    BY <1>2, <1>3 DEF Kept
  <2>2. file[u] \in Files /\ taken[u] \in Seq(Cells) /\ Total \in Nat
    BY <1>1, UploadAssumption DEF Shape
  <2>3. PICK n \in Nat : n = Len(taken[u])
    BY <2>2
  <2>4. n + 1 \in 1..Total /\ n < Total
    BY <1>2, <2>2, <2>3
  <2>5. disk[source[u]][n + 1] = <<file[u], n + 1>>
    BY <2>1, <2>2, <2>4, PrefixLen DEF Holds
  <2>6. taken'[u] = Prefix(file[u], n + 1)
    BY <1>2, <2>1, <2>2, <2>3, <2>4, <2>5, AppendExtends
  <2>7. Len(taken'[u]) = n + 1
    BY <2>6, PrefixLen
  <2>8. Holds(source[u], file[u], Total)'
    BY <1>2, <2>1 DEF Holds, Inodes
  <2> QED BY <1>2, <2>6, <2>7, <2>8 DEF Kept
<1> QED BY <1>2, <1>3, HubRetry DEF Hub, InFlight, Stands

LEMMA RestoreEndsRetry ==
  ASSUME Retry, NEW u \in Uploads, RestoreEnds(u)
  PROVE  Quiet(u)' /\ Works(u)'
<1>1. Shape /\ Functions
  BY DEF Retry, IInv
<1>2. /\ UNCHANGED <<file, step, cut>> /\ disturbed \subseteq disturbed'
      /\ u \in kicked' <=> u \in kicked
      /\ req[u] = "reading" /\ req'[u] \in {"ok", "bad"} /\ taken'[u] = <<>>
  BY <1>1 DEF RestoreEnds, Answer, Fault, browser, Shape
<1>3. ASSUME Kept(u), u \notin disturbed' PROVE Kept(u)'
  <2>1. Holds(source[u], file[u], Total) /\ taken[u] = Prefix(file[u], Len(taken[u]))
    BY <1>2, <1>3 DEF Kept
  <2>2. Total \in Nat \ {0} /\ file[u] \in Files
    BY <1>1, UploadAssumption DEF Shape
  <2>3. Len(disk[source[u]]) = Total
    BY <2>1, <2>2, PrefixLen DEF Holds
  <2>4. Len(taken[u]) = Total
    BY <2>3 DEF RestoreEnds
  <2>5. taken[u] = Whole(file[u])
    BY <2>1, <2>4 DEF Prefix, Whole
  <2>6. Genuine(taken[u])
    BY <2>2, <2>5 DEF Genuine
  <2>7. taken[u][Total][1] = file[u]
    <3>1. Total \in 1..Total
      BY <2>2
    <3>2. taken[u][Total] = <<file[u], Total>>
      BY <2>5, <3>1 DEF Whole
    <3> QED BY <3>2
  <2>8. outcome' = [outcome EXCEPT ![u] = taken[u][Total][1]] /\ Answer(u, "ok")
    BY <1>3, <2>6 DEF RestoreEnds, Fault
  <2>9. outcome'[u] = file[u] /\ req'[u] = "ok"
    BY <1>1, <2>7, <2>8 DEF Functions, Answer, Shape
  <2> QED BY <1>2, <2>9 DEF Kept
<1> QED BY <1>2, <1>3, HubRetry DEF Hub, InFlight, Stands

-----------------------------------------------------------------------------
LEMMA NextKeepsFunctions ==
  ASSUME Functions, [Next]_vars
  PROVE  Functions'
<1>1. CASE UNCHANGED vars
  BY <1>1 DEF vars, request, history, Functions
<1>2. ASSUME NEW u \in Uploads, Browser(u) PROVE Functions'
  BY <1>2 DEF Browser, Start, Abort, Answered, Resume, ConnectionLost, request, history, Functions
<1>3. ASSUME NEW u \in Uploads, Hub(u) PROVE Functions'
  <2>1. \/ handle' = handle
        \/ \E x : handle' = [handle EXCEPT ![u] = x]
    BY <1>3 DEF Hub, Open, Refuse, NeverArrives, Piece, PieceFails, Dropped, BodyEnds, RestoreBegins,
                Unpack, RestoreEnds, Answer
  <2>2. \/ outcome' = outcome
        \/ \E x : outcome' = [outcome EXCEPT ![u] = x]
    BY <1>3 DEF Hub, Open, Refuse, NeverArrives, Piece, PieceFails, Dropped, BodyEnds, RestoreBegins,
                Unpack, RestoreEnds, history
  <2> QED BY <2>1, <2>2 DEF Functions
<1> QED BY <1>1, <1>2, <1>3 DEF Next

LEMMA NextKeepsRetry == Retry /\ [Next]_vars => Retry'
<1> SUFFICES ASSUME Retry, [Next]_vars PROVE Retry'
  OBVIOUS
<1>1. IInv' /\ Functions'
  BY NextKeepsIInv, NextKeepsFunctions DEF Retry
<1>2. CASE UNCHANGED vars
  <2>1. ASSUME NEW u \in Uploads PROVE Quiet(u)' /\ Works(u)'
    <3>1. Quiet(u) /\ Works(u)
      BY DEF Retry
    <3> QED BY <1>2, <3>1 DEF vars, browser, request, files, history, Quiet, Works, Active, Alone, InFlight,
                              Stands, Kept, Holds, Inodes
  <2> QED BY <1>1, <2>1 DEF Retry
<1>3. ASSUME NEW w \in Uploads, Browser(w) \/ Hub(w) PROVE Retry'
  <2>1. ASSUME NEW u \in Uploads \ {w} PROVE Quiet(u)' /\ Works(u)'
    BY <1>3, OthersKeepRetry
  <2>2. Quiet(w)' /\ Works(w)'
    <3>1. CASE Browser(w)
      BY <3>1, StartRetry, AbortRetry, AnsweredRetry, ResumeRetry, ConnectionLostRetry DEF Browser
    <3>2. CASE Hub(w)
      BY <3>2, OpenRetry, UnheardRetry, PieceRetry, PieceFailsRetry, BodyEndsRetry, RestoreBeginsRetry,
         UnpackRetry, RestoreEndsRetry DEF Hub
    <3> QED BY <1>3, <3>1, <3>2
  <2>3. \A u \in Uploads : Quiet(u)' /\ Works(u)'
    BY <2>1, <2>2
  <2> QED BY <1>1, <2>3 DEF Retry
<1> QED BY <1>2, <1>3 DEF Next

(* Whatever earlier attempts left on the disk and wherever they stopped, an *)
(* upload that meets no request of another and no fault is refused nothing, *)
(* unless an earlier restore dropped the session it starts from; and the    *)
(* database it is told of is its own file (receive, db_restore).            *)
THEOREM StartingOverWorks == Spec => []RetryWorks
<1>1. Retry => RetryWorks
  BY DEF Retry, Works, RetryWorks
<1> QED BY <1>1, InitRetry, NextKeepsRetry, PTL DEF Spec
=============================================================================
