---------------------------- MODULE RestoreUpload ----------------------------
(***************************************************************************)
(* Restoring a backup from the panel: the chunked upload of the browser    *)
(* (admin/src/lib/api.ts, upload; sections/data.tsx, restore) against the  *)
(* Hub's handler of one chunk (server/src/api.rs, db_restore and receive). *)
(*                                                                         *)
(* There is no upload id: the Hub knows an upload by the length of the one *)
(* file it appends to.  Requests of several operators, and requests a      *)
(* browser gave up on and the Hub still serves, meet on that file: a       *)
(* handler keeps its file open while its body arrives, cuts the file back  *)
(* when the body breaks off, and renames whatever carries the upload name  *)
(* once it has counted its own last byte.                                  *)
(*                                                                         *)
(* A file is Total pieces, a request carries up to CHUNK of them, and all  *)
(* files are of one size, the case in which their offsets align.  Bytes on *)
(* disk are cells <<file, piece>>.  The database switch is FileSwap's: here *)
(* it works or fails as a whole.  Opening a file and reading its length is *)
(* one step.                                                               *)
(***************************************************************************)
EXTENDS Naturals, FiniteSets, Sequences

CONSTANTS
  Uploads,       (* attempts: each is one call of restore() in some tab    *)
  Files,         (* the backup files they may pick                         *)
  Original,      (* the database the Hub began with                        *)
  None,
  Total, CHUNK,  (* pieces in a file, and in a request at most             *)
  MaxFaults      (* bound: lost connections and failing disk operations    *)

ASSUME UploadAssumption ==
  /\ IsFiniteSet(Uploads)
  /\ Original \notin Files /\ None \notin Uploads \cup 1..Cardinality(Uploads)
  /\ Total \in Nat \ {0} /\ CHUNK \in Nat \ {0} /\ MaxFaults \in Nat

VARIABLES
  (* The browser. *)
  file,       (* of each upload: the file picked                           *)
  step,       (* where upload() is                                         *)
  aborted,    (* the uploads whose AbortController has fired               *)
  offset,     (* of the request last sent                                  *)
  (* The request last sent, as the Hub serves it. *)
  req,
  received,   (* pieces of its body written                                *)
  cut,        (* the requests whose browser no longer waits                *)
  handle,     (* the inode it has open                                     *)
  source,     (* the inode it renamed to a name of its own                 *)
  taken,      (* what has been unpacked from that                          *)
  kicked,     (* the uploads whose session a restore dropped               *)
  (* The disk. *)
  disk,       (* the contents of each inode                                *)
  named,      (* the inode under the upload name                           *)
  db,         (* the file the database in service was made from            *)
  (* History. *)
  committed,  (* the uploads that sent their last request                  *)
  disturbed,  (* the uploads that met another request or a fault           *)
  outcome,    (* of each upload that was restored: what it put in service  *)
  faults

browser == <<file, step, aborted, offset>>
request == <<req, received, cut, handle, source, taken, kicked>>
files == <<disk, named, db>>
history == <<committed, disturbed, outcome>>
vars == <<browser, request, files, history, faults>>

Inodes == 1..Cardinality(Uploads)
Zero == <<None, 0>>
Cells == (Files \X (1..Total)) \cup {Zero}
Whole(f) == [i \in 1..Total |-> <<f, i>>]

(* A request the Hub has not finished with; an upload the page waits for.   *)
InFlight(u) == req[u] \in {"wire", "body", "claimed", "reading"}
Active(u) == step[u] \in {"waiting", "resumed"}
Final(u) == offset[u] + CHUNK >= Total

TypeOK ==
  /\ file \in [Uploads -> Files]
  /\ step \in [Uploads -> {"idle", "waiting", "resumed", "restored", "cancelled", "failed"}]
  /\ aborted \subseteq Uploads /\ offset \in [Uploads -> 0..Total]
  /\ req \in [Uploads -> {"none", "wire", "body", "claimed", "reading", "more", "ok", "bad", "lost"}]
  /\ received \in [Uploads -> 0..CHUNK]
  /\ cut \subseteq Uploads /\ kicked \subseteq Uploads
  /\ handle \in [Uploads -> Inodes \cup {None}] /\ source \in [Uploads -> Inodes \cup {None}]
  /\ \A u \in Uploads : taken[u] \in Seq(Cells)
  /\ \A i \in Inodes : disk[i] \in Seq(Cells)
  /\ named \in Inodes \cup {None}
  /\ db \in Files \cup {Original}
  /\ committed \subseteq Uploads /\ disturbed \subseteq Uploads
  /\ outcome \in [Uploads -> Files \cup {Original, None}]
  /\ faults \in 0..MaxFaults

Init ==
  /\ file \in [Uploads -> Files]
  /\ step = [u \in Uploads |-> "idle"]
  /\ aborted = {} /\ offset = [u \in Uploads |-> 0]
  /\ req = [u \in Uploads |-> "none"] /\ received = [u \in Uploads |-> 0]
  /\ cut = {} /\ kicked = {}
  /\ handle = [u \in Uploads |-> None] /\ source = [u \in Uploads |-> None]
  /\ taken = [u \in Uploads |-> <<>>]
  /\ disk = [i \in Inodes |-> <<>>] /\ named = None
  /\ db = Original
  /\ committed = {} /\ disturbed = {}
  /\ outcome = [u \in Uploads |-> None]
  /\ faults = 0

-----------------------------------------------------------------------------
(* The browser.                                                             *)

(* Sends the request at offset o.                                           *)
Send(u, o) ==
  /\ step' = [step EXCEPT ![u] = "waiting"]
  /\ offset' = [offset EXCEPT ![u] = o]
  /\ req' = [req EXCEPT ![u] = "wire"]
  /\ received' = [received EXCEPT ![u] = 0]
  /\ committed' = IF o + CHUNK >= Total THEN committed \cup {u} ELSE committed

(* restore(): the operator confirms, and the first chunk goes out.          *)
Start(u) ==
  LET met == {v \in Uploads : Active(v) \/ InFlight(v)}
  IN
  /\ step[u] = "idle"
  /\ Send(u, 0)
  /\ disturbed' = IF met = {} THEN disturbed ELSE disturbed \cup met \cup {u}
  /\ UNCHANGED <<file, aborted, cut, handle, source, taken, kicked, files, outcome, faults>>

(* Mutant: the last chunk carries the signal too.                           *)
AbortAnything(u) ==
  /\ Active(u) /\ u \notin aborted
  /\ aborted' = aborted \cup {u}
  /\ IF step[u] = "waiting"
     THEN step' = [step EXCEPT ![u] = "cancelled"] /\ cut' = cut \cup {u}
     ELSE UNCHANGED <<step, cut>>
  /\ UNCHANGED <<file, offset, req, received, handle, source, taken, kicked, files, history, faults>>

(* The dialog is closed or the section left.  A request under way that is   *)
(* not the last one rejects at once, though the Hub may still get it; the   *)
(* last one is waited for.                                                  *)
Abort(u) ==
  /\ Active(u) /\ u \notin aborted
  /\ aborted' = aborted \cup {u}
  /\ IF step[u] = "waiting" /\ ~Final(u)
     THEN step' = [step EXCEPT ![u] = "cancelled"] /\ cut' = cut \cup {u}
     ELSE UNCHANGED <<step, cut>>
  /\ UNCHANGED <<file, offset, req, received, handle, source, taken, kicked, files, history, faults>>

(* The answer to a request arrives.                                         *)
Answered(u) ==
  /\ step[u] = "waiting" /\ req[u] \in {"more", "ok", "bad", "lost"}
  /\ step' = [step EXCEPT ![u] = CASE req[u] = "more" -> "resumed"
                                   [] req[u] = "ok"   -> "restored"
                                   [] OTHER           -> "failed"]
  /\ UNCHANGED <<file, aborted, offset, request, files, history, faults>>

(* The top of the loop: stop here when aborted, or send the next chunk.     *)
Resume(u) ==
  /\ step[u] = "resumed"
  /\ \/ /\ u \in aborted
        /\ step' = [step EXCEPT ![u] = "cancelled"]
        /\ UNCHANGED <<offset, req, received, committed>>
     \/ /\ u \notin aborted
        /\ Send(u, offset[u] + CHUNK)
  /\ UNCHANGED <<file, aborted, cut, handle, source, taken, kicked, files, disturbed,
                 outcome, faults>>

(* The connection is lost: the page reports the error, and what becomes of  *)
(* the request it cannot tell.                                              *)
ConnectionLost(u) ==
  /\ step[u] = "waiting" /\ faults < MaxFaults
  /\ faults' = faults + 1
  /\ step' = [step EXCEPT ![u] = "failed"]
  /\ cut' = cut \cup {u} /\ disturbed' = disturbed \cup {u}
  /\ UNCHANGED <<file, aborted, offset, req, received, handle, source, taken, kicked, files,
                 committed, outcome>>

-----------------------------------------------------------------------------
(* The Hub: one chunk.                                                      *)

(* A disk operation of u's request fails.                                   *)
Fault(u) ==
  /\ faults < MaxFaults /\ faults' = faults + 1
  /\ disturbed' = disturbed \cup {u}

(* Ends the request; an answer nobody waits for is dropped.                 *)
Answer(u, a) == req' = [req EXCEPT ![u] = a] /\ handle' = [handle EXCEPT ![u] = None]

Truncated(s, n) == [i \in 1..n |-> IF i <= Len(s) THEN s[i] ELSE Zero]

(* A write at position p, past the end or within.                           *)
Written(s, p, c) ==
  [i \in 1..(IF p < Len(s) THEN Len(s) ELSE p + 1) |->
     IF i = p + 1 THEN c ELSE IF i <= Len(s) THEN s[i] ELSE Zero]

(* The inode under the upload name, or the first that nothing refers to.    *)
Used(i) == i = named \/ \E u \in Uploads : i \in {handle[u], source[u]}
Target(i) ==
  IF named # None THEN i = named ELSE ~Used(i) /\ \A j \in Inodes : j < i => Used(j)

(* The upload file is there, and ends where this request begins.            *)
Aligned(u) == named # None /\ Len(disk[named]) = offset[u]

(* Mutant: the first piece keeps what an abandoned upload left.             *)
OpenKeeping(u) ==
  /\ req[u] = "wire" /\ u \notin kicked
  /\ \/ \E i \in Inodes :
          /\ Target(i) /\ Len(disk[i]) = offset[u] /\ (named # None \/ offset[u] = 0)
          /\ req' = [req EXCEPT ![u] = "body"]
          /\ handle' = [handle EXCEPT ![u] = i]
          /\ named' = i /\ UNCHANGED <<disk, db>>
     \/ /\ \A i \in Inodes : Target(i) =>
              Len(disk[i]) # offset[u] \/ (named = None /\ offset[u] # 0)
        /\ Answer(u, "bad") /\ UNCHANGED files
  /\ UNCHANGED <<browser, received, cut, source, taken, kicked, history, faults>>

(* receive: the first piece creates the file or empties the one there, a    *)
(* later one must find it exactly as long as its offset.                    *)
Open(u) ==
  /\ req[u] = "wire" /\ u \notin kicked
  /\ \/ /\ offset[u] = 0
        /\ \E i \in Inodes :
             /\ Target(i)
             /\ disk' = [disk EXCEPT ![i] = <<>>]
             /\ named' = i
             /\ handle' = [handle EXCEPT ![u] = i]
        /\ req' = [req EXCEPT ![u] = "body"] /\ UNCHANGED db
     \/ /\ offset[u] # 0 /\ Aligned(u)
        /\ handle' = [handle EXCEPT ![u] = named]
        /\ req' = [req EXCEPT ![u] = "body"] /\ UNCHANGED files
     \/ /\ offset[u] # 0 /\ ~Aligned(u)
        /\ Answer(u, "bad") /\ UNCHANGED files
  /\ UNCHANGED <<browser, received, cut, source, taken, kicked, history, faults>>

(* The Admin extractor: the session went with the database it was in.       *)
Refuse(u) ==
  /\ req[u] = "wire" /\ u \in kicked
  /\ Answer(u, "bad")
  /\ UNCHANGED <<browser, received, cut, source, taken, kicked, files, history, faults>>

(* A request its browser gave up on need not arrive.                        *)
NeverArrives(u) ==
  /\ req[u] = "wire" /\ u \in cut
  /\ Answer(u, "lost")
  /\ UNCHANGED <<browser, received, cut, source, taken, kicked, files, history, faults>>

More(u) == received[u] < CHUNK /\ offset[u] + received[u] < Total

(* append: the next piece of the body is written, at the end of the file by *)
(* a later request, at its own position by a first one.                     *)
Piece(u) ==
  LET i == handle[u]
      p == IF offset[u] = 0 THEN received[u] ELSE Len(disk[i])
  IN
  /\ req[u] = "body" /\ More(u)
  /\ disk' = [disk EXCEPT ![i] = Written(@, p, <<file[u], offset[u] + received[u] + 1>>)]
  /\ received' = [received EXCEPT ![u] = @ + 1]
  /\ UNCHANGED <<browser, req, cut, handle, source, taken, kicked, named, db, history, faults>>

(* The body breaks off, or the disk refuses a write: the file is set to the *)
(* length this piece began at, whatever happened to it since.  When setting *)
(* it fails too, nobody is told.                                            *)
PieceFails(u) ==
  /\ req[u] = "body" /\ More(u)
  /\ \/ /\ u \in cut /\ UNCHANGED <<faults, disturbed>>
        /\ disk' = [disk EXCEPT ![handle[u]] = Truncated(@, offset[u])]
     \/ /\ u \notin cut /\ Fault(u)
        /\ disk' = [disk EXCEPT ![handle[u]] = Truncated(@, offset[u])]
     \/ Fault(u) /\ UNCHANGED disk
  /\ Answer(u, "bad")
  /\ UNCHANGED <<browser, received, cut, source, taken, kicked, named, db, committed, outcome>>

(* The connection's task is dropped with the handler in it: nothing is      *)
(* undone.  A restore it had started runs on (RestoreEnds).                 *)
Dropped(u) ==
  /\ req[u] = "body" /\ u \in cut
  /\ Answer(u, "lost")
  /\ UNCHANGED <<browser, received, cut, source, taken, kicked, files, history, faults>>

(* The body is complete.  Short of the file's size that is the answer.      *)
(* Otherwise the file under the upload name is renamed for this restore,    *)
(* if there is one; a file that cannot be renamed is removed.               *)
BodyEnds(u) ==
  /\ req[u] = "body" /\ ~More(u)
  /\ \/ /\ offset[u] + received[u] < Total
        /\ Answer(u, "more") /\ UNCHANGED <<source, named, disturbed, faults>>
     \/ /\ offset[u] + received[u] >= Total /\ named # None
        /\ req' = [req EXCEPT ![u] = "claimed"]
        /\ handle' = [handle EXCEPT ![u] = None]
        /\ source' = [source EXCEPT ![u] = named]
        /\ named' = None /\ UNCHANGED <<disturbed, faults>>
     \/ /\ offset[u] + received[u] >= Total /\ named = None
        /\ Answer(u, "bad") /\ UNCHANGED <<source, named, disturbed, faults>>
     \/ /\ offset[u] + received[u] >= Total /\ named # None /\ Fault(u)
        /\ Answer(u, "bad") /\ named' = None /\ UNCHANGED source
  /\ UNCHANGED <<browser, received, cut, taken, kicked, disk, db, committed, outcome>>

-----------------------------------------------------------------------------
(* The Hub: the restore, one at a time.                                     *)

RestoreBegins(u) ==
  /\ req[u] = "claimed" /\ \A v \in Uploads : req[v] # "reading"
  /\ req' = [req EXCEPT ![u] = "reading"]
  /\ UNCHANGED <<browser, received, cut, handle, source, taken, kicked, files, history, faults>>

(* extract_and_validate_with: the archive is unpacked piece by piece; what  *)
(* follows its end is not read.                                             *)
Unpack(u) ==
  LET s == disk[source[u]]
      n == Len(taken[u])
  IN
  /\ req[u] = "reading" /\ n < Total /\ n < Len(s)
  /\ taken' = [taken EXCEPT ![u] = Append(@, s[n + 1])]
  /\ UNCHANGED <<browser, req, received, cut, handle, source, kicked, files, history, faults>>

(* The manifest's digests: nothing but one whole backup passes.             *)
Genuine(s) == \E f \in Files : s = Whole(f)

(* The unpacked members are verified and become the database in service,    *)
(* which drops every session, whatever its page is doing; the caller is     *)
(* issued another.  K are the uploads of those sessions, begun or not: any  *)
(* others are of the caller's browser, which has the new cookie too, or of  *)
(* somebody who signs in again first.  The renamed file is removed unless   *)
(* the handler was dropped meanwhile.  Issuing that session may fail after  *)
(* the switch: the browser is told of an error, and the database is         *)
(* replaced.                                                                *)
RestoreEnds(u) ==
  LET s == taken[u]
      f == s[Total][1]
  IN
  /\ req[u] = "reading"
  /\ Len(s) = Total \/ Len(s) = Len(disk[source[u]])
  /\ \/ /\ Genuine(s)
        /\ db' = f
        /\ outcome' = [outcome EXCEPT ![u] = f]
        /\ \E K \in SUBSET (Uploads \ {u}) : kicked' = kicked \cup K
        /\ \/ Answer(u, "ok") /\ UNCHANGED <<disturbed, faults>>
           \/ Answer(u, "bad") /\ Fault(u)
     \/ /\ ~Genuine(s)
        /\ Answer(u, "bad") /\ UNCHANGED <<db, outcome, kicked, disturbed, faults>>
     \/ Fault(u) /\ Answer(u, "bad") /\ UNCHANGED <<db, outcome, kicked>>
  /\ \/ source' = [source EXCEPT ![u] = None]
     \/ u \in cut /\ UNCHANGED source
  /\ taken' = [taken EXCEPT ![u] = <<>>]
  /\ UNCHANGED <<browser, received, cut, disk, named, committed>>

-----------------------------------------------------------------------------
Browser(u) ==
  Start(u) \/ Abort(u) \/ Answered(u) \/ Resume(u) \/ ConnectionLost(u)

Hub(u) ==
  \/ Open(u) \/ Refuse(u) \/ NeverArrives(u)
  \/ Piece(u) \/ PieceFails(u) \/ Dropped(u) \/ BodyEnds(u)
  \/ RestoreBegins(u) \/ Unpack(u) \/ RestoreEnds(u)

Next == \E u \in Uploads : Browser(u) \/ Hub(u)

Spec == Init /\ [][Next]_vars
-----------------------------------------------------------------------------
(* Properties.                                                              *)

(* "Cancelled, the database was not changed": what is in service came from  *)
(* the original or from a file all of whose requests one upload sent and    *)
(* did not report cancelled (upload's final chunk is not abortable, and     *)
(* data.tsx's message).                                                     *)
CancelHolds ==
  db # Original => \E u \in committed : file[u] = db /\ step[u] # "cancelled"

(* Starting over works: whatever cancelled, failed and dropped attempts     *)
(* left on the disk, an upload that meets no request of another and no      *)
(* fault is refused nothing, unless the session it starts from went with an *)
(* earlier restore and its operator has to sign in first; and a file it is  *)
(* told of as restored is its own (receive: "offset = 0 truncates whatever  *)
(* an interrupted attempt left behind").                                    *)
RetryWorks ==
  \A u \in Uploads \ disturbed :
    /\ step[u] = "failed" => u \in kicked
    /\ step[u] = "restored" => outcome[u] = file[u]
=============================================================================
