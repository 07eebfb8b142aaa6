---------------------------- MODULE DownloadTask ----------------------------
(***************************************************************************)
(* DownloadTaskImpl: one download, which its client starts with a writer,  *)
(* cancels, and may start again with another writer.                       *)
(*                                                                         *)
(* Three threads meet here.  On the UI thread live the task, its client    *)
(* and the writer's callbacks.  The cookies are read on the IO thread.     *)
(* NSURLSession calls its delegate on a serial background queue, which     *)
(* posts to the UI thread and, for each chunk of data, waits on a          *)
(* semaphore until the chunk is written.  One action is one task of the UI *)
(* thread or one call of the delegate.                                     *)
(*                                                                         *)
(* Attempts are numbered: the n-th Start has the n-th writer, and its      *)
(* cookies create the n-th NSURLSessionTask.                               *)
(***************************************************************************)
EXTENDS Naturals, Sequences

CONSTANTS
  Chunks,       \* the number of chunks the server sends
  MaxAttempts,  \* bound on the number of times the download is started
  Liberties     \* what client and disk may do beyond the ordinary

ASSUME ChunksAssumption == Chunks \in Nat
ASSUME AttemptsAssumption == MaxAttempts \in Nat
ASSUME LibertiesAssumption ==
  Liberties \subseteq {"early cancel", "late cancel", "early restart",
                       "destroy while writing", "write error"}

VARIABLES
  scheme,       \* whether original_url_ is a data: URL
  state,        \* state_
  error,        \* error_code_
  received,     \* received_bytes_, counted in chunks
  attempt,      \* the number of times Start was called
  sessionTask,  \* session_task_, 0 for nil
  writer,       \* writer_, a net::URLFetcherResponseWriter
  network,      \* the NSURLSessionTask of each attempt
  cookies,      \* the attempts whose cookies are being read, in order
  waiting,      \* the task whose chunk the delegate's queue waits for, or 0
  posted,       \* what the delegate has posted to the UI thread
  reports       \* how often the client was told that an attempt has finished

vars == << scheme, state, error, received, attempt, sessionTask, writer,
           network, cookies, waiting, posted, reports >>

taskVars == << scheme, state, error, received, attempt, sessionTask >>

Attempts == 1 .. MaxAttempts

Errors == {"OK", "aborted", "failed"}

States == {"notStarted", "inProgress", "cancelled", "complete", "destroyed"}

\* What was written, and the operation whose callback is pending.
Writers ==
  [data : Seq(1 .. Chunks), io : {"none", "write", "close"},
   file : {"open", "closed"}]

NewWriter == [data |-> << >>, io |-> "none", file |-> "open"]

\* "ended" once the delegate was told of the task's completion.
SessionTasks ==
  [phase : {"none", "running", "cancelling", "ended"}, sent : 0 .. Chunks]

Posts == [kind : {"data", "update", "done"}, of : Attempts, error : Errors]

Alive == state # "destroyed"

\* The first k chunks.
Prefix(k) == [i \in 1 .. k |-> i]

Content == Prefix(Chunks)

-----------------------------------------------------------------------------
(* The writer: a file's writes end later, a string's at once.              *)

WriteResults ==
  {"done", "pending"}
    \union IF "write error" \in Liberties THEN {"error"} ELSE {}

\* The result of a write that was pending.
LateResults == WriteResults \ {"pending"}

\* What the callback of Finish is told.
CloseResults ==
  {"OK"} \union IF "write error" \in Liberties THEN {"failed"} ELSE {}

\* The writer once a write of "data" has the result given.
Written(w, data, result) ==
  CASE result = "done" /\ w.file = "open" ->
         [w EXCEPT !.data = @ \o data, !.io = "none"]
    [] result = "pending" -> [w EXCEPT !.io = "write"]
    [] OTHER -> [w EXCEPT !.io = "none"]

-----------------------------------------------------------------------------
(* NSURLSession, and its delegate on the background queue.                 *)

CancelSessionTask(n) ==
  [i \in Attempts |->
     IF i = n /\ network[i].phase = "running"
     THEN [network[i] EXCEPT !.phase = "cancelling"] ELSE network[i]]

Post(kind, n, code) == [kind |-> kind, of |-> n, error |-> code]

\* A session task may go on for a while after it was cancelled.
Delivers(n) ==
  network[n].phase \in {"running", "cancelling"} /\ network[n].sent < Chunks

\* Mutant: the queue does not wait for the chunk to be written.
DidReceiveData_NoWait(n) ==
  /\ waiting = 0 /\ Delivers(n)
  /\ network' = [network EXCEPT ![n].sent = @ + 1]
  /\ posted' = posted \o << Post("data", n, "OK"), Post("update", n, "OK") >>
  /\ UNCHANGED << taskVars, writer, cookies, waiting, reports >>

\* URLSession:dataTask:didReceiveData: up to its wait.
DidReceiveData(n) ==
  /\ waiting = 0 /\ Delivers(n)
  /\ network' = [network EXCEPT ![n].sent = @ + 1]
  /\ posted' = Append(posted, Post("data", n, "OK"))
  /\ waiting' = n
  /\ UNCHANGED << taskVars, writer, cookies, reports >>

\* The completion handler of the data block: the queue goes on and posts the
\* update of the properties.
Signal(posts) ==
  /\ waiting' = 0
  /\ posted' = Append(posts, Post("update", waiting, "OK"))

\* URLSession:task:didCompleteWithError: at the end of the content, when the
\* connection fails or times out, or once cancelled.
DidComplete(n, code) ==
  /\ waiting = 0
  /\ \/ network[n].phase = "running" /\ network[n].sent = Chunks /\ code = "OK"
     \/ network[n].phase = "running" /\ code = "failed"
     \/ network[n].phase = "cancelling" /\ code = "aborted"
  /\ network' = [network EXCEPT ![n].phase = "ended"]
  /\ posted' = Append(posted, Post("done", n, code))
  /\ UNCHANGED << taskVars, writer, cookies, waiting, reports >>

-----------------------------------------------------------------------------
(* The end of a download.                                                  *)

\* The client is told of the end of the n-th attempt (CWVDownloadTask's
\* delegate, by downloadTask:didFinishWithError:).
OnDownloadFinished(n, code) ==
  /\ error' = code
  /\ state' = "complete"
  /\ sessionTask' = 0
  /\ reports' = [reports EXCEPT ![n] = @ + 1]

\* writer_->Finish returns at once ...
Finished(n, w, code) ==
  /\ writer' = [w EXCEPT !.file = "closed"]
  /\ OnDownloadFinished(n, code)

\* ... or the file is being closed; a failed download's file is deleted.
Closing(w) ==
  /\ writer' = [w EXCEPT !.io = "close"]
  /\ UNCHANGED << sessionTask, reports >>

-----------------------------------------------------------------------------
(* The client's calls.                                                     *)

Init ==
  /\ scheme \in {"http", "data"}
  /\ state = "notStarted" /\ error = "OK" /\ received = 0
  /\ attempt = 0 /\ sessionTask = 0
  /\ writer = NewWriter
  /\ network = [n \in Attempts |-> [phase |-> "none", sent |-> 0]]
  /\ cookies = << >>
  /\ waiting = 0
  /\ posted = << >>
  /\ reports = [n \in Attempts |-> 0]

\* Nothing of the attempts so far is under way.
Settled ==
  /\ cookies = << >> /\ posted = << >> /\ waiting = 0 /\ writer.io = "none"
  /\ \A n \in Attempts : network[n].phase \in {"none", "ended"}

MayStart ==
  /\ Alive /\ state # "inProgress" /\ attempt < MaxAttempts
  /\ Settled \/ "early restart" \in Liberties

\* Mutant: the writer of the attempt before goes on.
StartHttp_KeepsWriter ==
  /\ MayStart /\ scheme = "http"
  /\ state' = "inProgress" /\ received' = 0
  /\ attempt' = attempt + 1
  /\ cookies' = Append(cookies, attempt + 1)
  /\ UNCHANGED << scheme, error, sessionTask, writer, network, waiting, posted,
                  reports >>

\* writer_ is replaced, and with it goes the callback of a pending write.
StartHttp ==
  /\ MayStart /\ scheme = "http"
  /\ state' = "inProgress"
  /\ received' = 0
  /\ attempt' = attempt + 1
  /\ writer' = NewWriter
  /\ cookies' = Append(cookies, attempt + 1)
  /\ UNCHANGED << scheme, error, sessionTask, network, waiting, posted, reports >>

\* An error for the number of bytes counts as none.
OnDataUrlWritten(n, w, s) ==
  /\ received' = IF w.data = Content THEN Chunks ELSE 0
  /\ \/ Finished(n, w, "OK")
     \/ Closing(w) /\ state' = s /\ UNCHANGED error

\* The bytes of a data: URL are parsed and written as one chunk of them all.
StartDataUrlParsing ==
  /\ MayStart /\ scheme = "data"
  /\ attempt' = attempt + 1
  /\ \/ /\ OnDownloadFinished(attempt + 1, "failed")
        /\ received' = 0 /\ writer' = NewWriter
     \/ \E result \in LateResults :
          OnDataUrlWritten(attempt + 1, Written(NewWriter, Content, result),
                           "inProgress")
     \/ /\ writer' = Written(NewWriter, Content, "pending")
        /\ received' = 0 /\ state' = "inProgress"
        /\ UNCHANGED << error, sessionTask, reports >>
  /\ UNCHANGED << scheme, network, cookies, waiting, posted >>

\* An ordinary cancellation finds the session task under way; an early one
\* comes before it was created, a late one after it ended.
MayCancel ==
  \/ state = "notStarted"
  \/ /\ state = "inProgress"
     /\ \/ sessionTask # 0 /\ network[sessionTask].phase = "running"
        \/ "early cancel" \in Liberties /\ cookies # << >>
        \/ "late cancel" \in Liberties /\ cookies = << >>

\* Mutant: the session task goes on.
Cancel_KeepsSessionTask ==
  /\ MayCancel
  /\ state' = "cancelled" /\ sessionTask' = 0
  /\ UNCHANGED << scheme, error, received, attempt, writer, network, cookies,
                  waiting, posted, reports >>

\* Mutant: the client is told at once.
Cancel_Finishes ==
  /\ MayCancel /\ attempt > 0
  /\ network' = CancelSessionTask(sessionTask)
  /\ OnDownloadFinished(attempt, "aborted")
  /\ UNCHANGED << scheme, received, attempt, writer, cookies, waiting, posted >>

\* Mutant: the state is not changed.
Cancel_KeepsState ==
  /\ MayCancel
  /\ network' = CancelSessionTask(sessionTask)
  /\ sessionTask' = 0
  /\ UNCHANGED << scheme, state, error, received, attempt, writer, cookies,
                  waiting, posted, reports >>

Cancel ==
  /\ MayCancel
  /\ network' = CancelSessionTask(sessionTask)
  /\ state' = "cancelled" /\ sessionTask' = 0
  /\ UNCHANGED << scheme, error, received, attempt, writer, cookies, waiting,
                  posted, reports >>

\* The destructor, ShutDown included; callbacks hold weak pointers.
Destroy ==
  /\ Alive
  /\ writer.io = "write" => "destroy while writing" \in Liberties
  /\ network' = CancelSessionTask(sessionTask)
  /\ state' = "destroyed" /\ sessionTask' = 0
  /\ writer' = NewWriter
  /\ UNCHANGED << scheme, error, received, attempt, cookies, waiting, posted,
                  reports >>

-----------------------------------------------------------------------------
(* What is posted to the UI thread.                                        *)

\* The cookies of the oldest pending Start.
StartWithCookies ==
  /\ cookies # << >>
  /\ cookies' = Tail(cookies)
  /\ \/ /\ ~Alive
        /\ UNCHANGED << network, sessionTask >>
     \/ /\ Alive
        /\ network' = [network EXCEPT ![Head(cookies)].phase = "running"]
        /\ sessionTask' = Head(cookies)
  /\ UNCHANGED << scheme, state, error, received, attempt, writer, waiting,
                  posted, reports >>

\* The chunk the queue waits for.
Chunk == << network[waiting].sent >>

\* The data block.
WriteData ==
  /\ posted # << >> /\ Head(posted).kind = "data"
  /\ \/ /\ ~Alive /\ Signal(Tail(posted)) /\ UNCHANGED writer
     \/ /\ Alive /\ writer' = Written(writer, Chunk, "pending")
        /\ posted' = Tail(posted) /\ UNCHANGED waiting
     \/ /\ Alive /\ Signal(Tail(posted))
        /\ \E result \in LateResults : writer' = Written(writer, Chunk, result)
  /\ UNCHANGED << taskVars, network, cookies, reports >>

\* Mutant: the callback of the write does not signal the semaphore.
DataWritten_NoSignal ==
  /\ writer.io = "write" /\ scheme = "http"
  /\ \E result \in LateResults : writer' = Written(writer, Chunk, result)
  /\ UNCHANGED << taskVars, network, cookies, waiting, posted, reports >>

\* A pending write of the current writer ends.
DataWritten ==
  /\ writer.io = "write" /\ scheme = "http"
  /\ \E result \in LateResults : writer' = Written(writer, Chunk, result)
  /\ Signal(posted)
  /\ UNCHANGED << taskVars, network, cookies, reports >>

DataUrlWritten ==
  /\ writer.io = "write" /\ scheme = "data"
  /\ \E result \in LateResults :
       OnDataUrlWritten(attempt, Written(writer, Content, result), state)
  /\ UNCHANGED << scheme, attempt, network, cookies, waiting, posted >>

\* The properties block for a session task still in progress: error_code_ and
\* received_bytes_ are the session task's.
UpdateProperties ==
  /\ posted # << >> /\ Head(posted).kind = "update"
  /\ posted' = Tail(posted)
  /\ \/ ~Alive /\ UNCHANGED << error, received >>
     \/ Alive /\ error' = "OK" /\ received' = network[Head(posted).of].sent
  /\ UNCHANGED << scheme, state, attempt, sessionTask, writer, network, cookies,
                  waiting, reports >>

\* The properties block for the last time: writer_->Finish, and the end.
EndWith(code) ==
  \/ Finished(attempt, writer, code)
  \/ code = "OK" /\ Closing(writer) /\ error' = "OK" /\ UNCHANGED state

\* Mutant: a cancelled task ignores the end of its session task.
CompleteDownload_UnlessCancelled ==
  /\ posted # << >> /\ Head(posted).kind = "done"
  /\ posted' = Tail(posted)
  /\ \/ /\ state # "inProgress"
        /\ UNCHANGED << state, error, received, sessionTask, writer, reports >>
     \/ /\ state = "inProgress"
        /\ received' = network[Head(posted).of].sent
        /\ EndWith(Head(posted).error)
  /\ UNCHANGED << scheme, attempt, network, cookies, waiting >>

CompleteDownload ==
  /\ posted # << >> /\ Head(posted).kind = "done"
  /\ posted' = Tail(posted)
  /\ \/ /\ ~Alive
        /\ UNCHANGED << state, error, received, sessionTask, writer, reports >>
     \/ /\ Alive
        /\ received' = network[Head(posted).of].sent
        /\ EndWith(Head(posted).error)
  /\ UNCHANGED << scheme, attempt, network, cookies, waiting >>

\* The file is closed, or could not be.
WriterClosed ==
  /\ writer.io = "close"
  /\ writer' = [writer EXCEPT !.io = "none", !.file = "closed"]
  /\ \E code \in CloseResults : OnDownloadFinished(attempt, code)
  /\ UNCHANGED << scheme, received, attempt, network, cookies, waiting, posted >>

UIThread ==
  \/ StartWithCookies
  \/ WriteData \/ DataWritten \/ DataUrlWritten
  \/ UpdateProperties \/ CompleteDownload \/ WriterClosed

Session(n) ==
  DidReceiveData(n) \/ \E code \in Errors : DidComplete(n, code)

Next ==
  \/ StartHttp \/ StartDataUrlParsing \/ Cancel \/ Destroy
  \/ UIThread
  \/ \E n \in Attempts : Session(n)

\* The UI thread runs what is posted to it, reads of cookies and writes end,
\* and a session task receives data, fails or times out.
Fairness ==
  /\ WF_vars(StartWithCookies)
  /\ WF_vars(WriteData \/ UpdateProperties \/ CompleteDownload)
  /\ WF_vars(DataWritten \/ DataUrlWritten \/ WriterClosed)
  /\ \A n \in Attempts : WF_vars(Session(n))

Spec == Init /\ [][Next]_vars /\ Fairness

-----------------------------------------------------------------------------
(* What must hold.                                                         *)

DataPosts == {i \in 1 .. Len(posted) : posted[i].kind = "data"}

(***************************************************************************)
(* The types, and the back-pressure of didReceiveData: however fast the    *)
(* server sends, at most one chunk waits to be written, because the queue  *)
(* waits for it.                                                           *)
(***************************************************************************)
TypeOK ==
  /\ scheme \in {"http", "data"} /\ state \in States /\ error \in Errors
  /\ received \in 0 .. Chunks /\ attempt \in 0 .. MaxAttempts
  /\ sessionTask \in 0 .. MaxAttempts /\ writer \in Writers
  /\ network \in [Attempts -> SessionTasks]
  /\ cookies \in Seq(Attempts) /\ posted \in Seq(Posts)
  /\ waiting \in 0 .. MaxAttempts /\ reports \in [Attempts -> Nat]
  /\ \A i, j \in DataPosts : i = j
  /\ DataPosts # {} => waiting # 0

(***************************************************************************)
(* A download that completed without error has all the content in its      *)
(* writer, in order and once: no chunk of an earlier attempt got there,    *)
(* none was written after the file was closed (GetErrorCode,               *)
(* download_task.h).  Of disks that take every write: the data block does  *)
(* not look at what a write returned.                                      *)
(***************************************************************************)
CompleteMeansWritten ==
  state = "complete" /\ error = "OK" =>
    writer.data = Content /\ received = Chunks

(***************************************************************************)
(* What is not in progress downloads nothing: the only session task that   *)
(* runs is session_task_, of a task in progress.  Of clients that cancel   *)
(* only once the cookies are read, and start again only what is settled:   *)
(* a cancellation while GetCookies is under way finds no session task, and *)
(* StartWithCookies then creates one for a cancelled task.                 *)
(***************************************************************************)
NothingRunsUnattended ==
  \A n \in Attempts :
    network[n].phase = "running" =>
      state = "inProgress" /\ sessionTask = n

(***************************************************************************)
(* The client is told once that an attempt has finished: observers such as *)
(* CWVDownloadTask's tell their own delegates.                             *)
(***************************************************************************)
FinishesOnce == \A n \in Attempts : reports[n] <= 1

(***************************************************************************)
(* "kCancelled is immediately followed by state kComplete with error code  *)
(* net::ERR_ABORTED" (cwv_download_task.mm): no cancelled download         *)
(* completes as if nothing had happened.                                   *)
(***************************************************************************)
CancelledThenAborted ==
  [][/\ state = "cancelled" /\ state' = "complete"
     /\ attempt' = attempt
     => error' = "aborted"]_vars

(***************************************************************************)
(* A download in progress does not end as aborted: the end of a cancelled  *)
(* attempt's session task is not taken for the end of the next attempt.    *)
(***************************************************************************)
OnlyCancelledIsAborted ==
  [][state = "inProgress" /\ state' = "complete"
     => error' # "aborted"]_vars

(***************************************************************************)
(* Every started download ends, and its client is told so: also the one    *)
(* that is cancelled under way, as cwv_download_task.h promises.           *)
(***************************************************************************)
DownloadEnds == state = "inProgress" ~> state \in {"complete", "destroyed"}

(***************************************************************************)
(* The delegate's queue is not left waiting for a chunk: the data block    *)
(* calls its completion handler when the chunk is written.                 *)
(***************************************************************************)
QueueGoesOn == waiting # 0 ~> waiting = 0
=============================================================================
