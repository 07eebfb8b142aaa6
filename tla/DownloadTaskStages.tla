------------------------- MODULE DownloadTaskStages -------------------------
(***************************************************************************)
(* What always holds of DownloadTask's state: the inductive invariants of  *)
(* its proofs.                                                             *)
(***************************************************************************)
EXTENDS DownloadTask

(***************************************************************************)
(* The invariant that makes TypeOK inductive: a posted or pending chunk is *)
(* one that was received, and as the queue waits for it, the last it sent. *)
(***************************************************************************)
TInv ==
  /\ TypeOK
  /\ waiting # 0 => network[waiting].sent > 0
  /\ \A i \in DataPosts : i = Len(posted)
  /\ writer.io = "write" /\ scheme = "http" => waiting # 0 /\ posted = << >>

(***************************************************************************)
(* The inductive invariant of the proofs, for clients that cancel a        *)
(* session task under way and start again what is settled: a task is       *)
(* always in one of the stages of its current attempt.                     *)
(***************************************************************************)
Ordinary == Liberties \subseteq {"destroy while writing"}

Current == network[attempt]

NothingPending == cookies = << >> /\ posted = << >> /\ waiting = 0

Unused(n) ==
  network[n] = [phase |-> "none", sent |-> 0] /\ reports[n] = 0

\* Only the current attempt has anything under way.
OthersAreOver ==
  \A n \in Attempts :
    /\ n < attempt => network[n].phase \in {"none", "ended"} /\ reports[n] <= 1
    /\ n > attempt => Unused(n)

NotStarted ==
  /\ attempt = 0 /\ state \in {"notStarted", "cancelled"}
  /\ error = "OK" /\ sessionTask = 0
  /\ NothingPending /\ writer.io = "none"

\* The cookies are being read.
ReadsCookies ==
  /\ attempt > 0 /\ scheme = "http"
  /\ state = "inProgress" /\ sessionTask = 0
  /\ cookies = << attempt >> /\ posted = << >> /\ waiting = 0
  /\ writer = NewWriter /\ Unused(attempt)

\* The data of a data: URL are being written.
WritesDataUrl ==
  /\ attempt > 0 /\ scheme = "data"
  /\ state = "inProgress" /\ sessionTask = 0 /\ NothingPending
  /\ writer = [NewWriter EXCEPT !.io = "write"] /\ Unused(attempt)

\* What is posted belongs to the attempt, and is updates up to the last one.
PostsInOrder ==
  /\ \A i \in 1 .. Len(posted) : posted[i].of = attempt
  /\ \A i \in 1 .. Len(posted) - 1 : posted[i].kind = "update"

LastKind == IF posted = << >> THEN "update" ELSE posted[Len(posted)].kind

\* While the queue waits, the last chunk is on its way to the writer.
ChunkOnItsWay ==
  /\ waiting = attempt /\ Current.sent > 0
  /\ writer.data = Prefix(Current.sent - 1)
  /\ \/ LastKind = "data" /\ writer.io = "none"
     \/ LastKind = "update" /\ writer.io = "write"

ChunksWritten ==
  /\ waiting = 0 /\ LastKind # "data"
  /\ writer.data = Prefix(Current.sent) /\ writer.io = "none"

\* The session task runs or is being cancelled.
Downloads ==
  /\ attempt > 0 /\ scheme = "http" /\ cookies = << >>
  /\ \/ /\ Current.phase = "running" /\ state = "inProgress"
        /\ sessionTask = attempt
     \/ /\ Current.phase = "cancelling" /\ state = "cancelled"
        /\ sessionTask = 0
  /\ writer.file = "open" /\ reports[attempt] = 0
  /\ PostsInOrder /\ LastKind # "done"
  /\ ChunkOnItsWay \/ ChunksWritten

\* The session task has ended, the task does not know yet.
SessionEnded ==
  /\ attempt > 0 /\ scheme = "http" /\ cookies = << >>
  /\ Current.phase = "ended" /\ writer.file = "open" /\ reports[attempt] = 0
  /\ PostsInOrder /\ LastKind = "done" /\ ChunksWritten
  /\ LET code == posted[Len(posted)].error
     IN  /\ code = "OK" => Current.sent = Chunks
         /\ \/ state = "inProgress" /\ code # "aborted"
            \/ state = "cancelled" /\ code = "aborted"

Closes ==
  /\ attempt > 0 /\ state = "inProgress" /\ NothingPending
  /\ writer.io = "close" /\ writer.data = Content /\ received = Chunks
  /\ Current.phase \in {"none", "ended"} /\ reports[attempt] = 0
  /\ sessionTask # 0 => Current.phase = "ended"

Complete ==
  /\ attempt > 0 /\ state = "complete" /\ NothingPending
  /\ writer.io = "none" /\ sessionTask = 0
  /\ Current.phase \in {"none", "ended"} /\ reports[attempt] = 1
  /\ error = "OK" => writer.data = Content /\ received = Chunks

Stages ==
  \/ NotStarted \/ ReadsCookies \/ WritesDataUrl \/ Downloads \/ SessionEnded
  \/ Closes \/ Complete

Destroyed ==
  /\ state = "destroyed" /\ writer = NewWriter
  /\ \A n \in Attempts : network[n].phase # "running" /\ reports[n] <= 1

(***************************************************************************)
(* The inductive invariant about session tasks alone, for clients that     *)
(* start again what is settled, whenever they cancel and whatever writers  *)
(* do: while cookies are read, and once a session task has ended or data   *)
(* are closed, none is active, so that the one created next is the only    *)
(* one, and session_task_.  A task that was cancelled before its cookies   *)
(* were read may have one, too.                                            *)
(***************************************************************************)
Active(n) == network[n].phase \in {"running", "cancelling"}

NoneActive == \A n \in Attempts : ~Active(n)

UnderWay ==
  \/ state = "inProgress"
  \/ state = "cancelled" /\ "early cancel" \in Liberties

DonePosted == \E i \in 1 .. Len(posted) : posted[i].kind = "done"

RunsOnlyUnderWay ==
  \A n \in Attempts :
    network[n].phase = "running" => UnderWay /\ sessionTask = n

Attended ==
  /\ RunsOnlyUnderWay
  /\ ~Alive => writer.io = "none"
  /\ Alive =>
       /\ \A m, n \in Attempts : Active(m) /\ Active(n) => m = n
       /\ (scheme = "data" \/ writer.io = "close" \/ cookies # << >> \/ DonePosted)
            => NoneActive
       /\ cookies # << >> =>
            /\ scheme = "http" /\ UnderWay /\ Len(cookies) = 1
            /\ writer.io # "close" /\ ~DonePosted

IInv ==
  /\ TypeOK
  /\ Destroyed \/ (Alive /\ OthersAreOver /\ Stages)
=============================================================================
