--------------------------- MODULE URLDownloader ---------------------------
(***************************************************************************)
(* URLDownloader: downloads and deletes the offline versions of URLs, one  *)
(* task at a time.                                                         *)
(*                                                                         *)
(* Two threads take part.  On the UI thread live the queue and the replies *)
(* of what was posted; the distiller and the URL loader report there.      *)
(* Files are touched by a background sequence, one posted step after the   *)
(* other: a step is posted, runs, and its reply is run by the UI thread    *)
(* later.  One action is one of these.  Deleting a directory succeeds.     *)
(***************************************************************************)
EXTENDS Naturals, Sequences, SequencesExt

CONSTANTS
  Urls,       \* the URLs of pages
  Elsewhere,  \* where a page may redirect to
  LatePdf     \* whether a page may turn into a PDF after its redirection

ASSUME ElsewhereAssumption == Elsewhere \notin Urls
ASSUME LatePdfAssumption == LatePdf \in BOOLEAN

VARIABLES
  tasks,      \* tasks_
  work,       \* working_, and how far the current task has got
  original,   \* original_url_
  distilled,  \* distilled_url_
  mime,       \* mime_type_
  disk        \* the directory of each URL

downloaderVars == << tasks, work, original, distilled, mime, disk >>

pageVars == << original, distilled, mime >>

Addresses == Urls \union {Elsewhere}

Download(url) == [type |-> "download", url |-> url]
Delete(url) == [type |-> "delete", url |-> url]

Tasks == [type : {"download", "delete"}, url : Urls]

\* A step of a task waits for the background sequence ("delete", "check",
\* "create", "write", "clean"), for the reply to it ("deleted", "checked",
\* "saved", "cleaned"), or for the distiller or the loader.
Steps ==
  {"idle", "delete", "deleted", "check", "checked", "distill", "fetch",
   "create", "write", "saved", "clean", "cleaned"}

Works == [step : Steps, url : Addresses, ok : BOOLEAN]

Idle == [step |-> "idle", url |-> Elsewhere, ok |-> FALSE]

Directories == {"none", "partial", "page"}

DownloaderTypeOK ==
  /\ tasks \in Seq(Tasks) /\ work \in Works
  /\ original \in Addresses /\ distilled \in Addresses
  /\ mime \in {"", "html", "pdf"}
  /\ disk \in [Addresses -> Directories]

-----------------------------------------------------------------------------
(* The queue.                                                              *)

In(task, queue) == \E i \in DOMAIN queue : queue[i] = task

Queued(task) == In(task, tasks)

Step(name, url, ok) == [step |-> name, url |-> url, ok |-> ok]

\* The next task of a queue begins, if no task is being handled.
HandleNextTask(queue) ==
  IF queue = << >>
  THEN tasks' = queue /\ work' = Idle
  ELSE /\ tasks' = Tail(queue)
       /\ work' = Step(IF Head(queue).type = "delete" THEN "delete" ELSE "check",
                       Head(queue).url, FALSE)

Handle(queue) ==
  IF work.step = "idle" THEN HandleNextTask(queue)
  ELSE tasks' = queue /\ UNCHANGED work

\* std::remove of all equal tasks; a download is never queued twice.
Without(queue, task) ==
  IF In(task, queue)
  THEN RemoveAt(queue, CHOOSE i \in DOMAIN queue : queue[i] = task)
  ELSE queue

\* Mutant: a deletion leaves the downloads of its URL in the queue.
RemoveOfflineURL_KeepsDownloads(url) ==
  /\ Handle(Append(tasks, Delete(url)))
  /\ UNCHANGED << pageVars, disk >>

\* Mutant: a download that has not begun needs no deletion.
RemoveOfflineURL_OnlyCancels(url) ==
  /\ IF Queued(Download(url))
     THEN tasks' = Without(tasks, Download(url)) /\ UNCHANGED work
     ELSE Handle(Append(tasks, Delete(url)))
  /\ UNCHANGED << pageVars, disk >>

RemoveOfflineURL(url) ==
  /\ Handle(Append(Without(tasks, Download(url)), Delete(url)))
  /\ UNCHANGED << pageVars, disk >>

DownloadOfflineURL(url) ==
  /\ IF Queued(Download(url)) THEN UNCHANGED << tasks, work >>
     ELSE Handle(Append(tasks, Download(url)))
  /\ UNCHANGED << pageVars, disk >>

CancelDownloadOfflineURL(url) ==
  /\ tasks' = Without(tasks, Download(url))
  /\ UNCHANGED << work, pageVars, disk >>

-----------------------------------------------------------------------------
(* The background sequence.                                                *)

BackgroundStep(from, to, directory) ==
  /\ work.step = from
  /\ work' = to
  /\ disk' = directory
  /\ UNCHANGED << tasks, pageVars >>

DeleteDirectory ==
  BackgroundStep("delete", [work EXCEPT !.step = "deleted"],
                 [disk EXCEPT ![work.url] = "none"])

OfflinePathExists ==
  BackgroundStep("check", Step("checked", work.url, disk[work.url] # "none"),
                 disk)

\* SaveDistilledHTML and SavePDFFile: the directory first, ...
CreateOfflineURLDirectory ==
  \/ BackgroundStep("create", [work EXCEPT !.step = "write"],
                    [disk EXCEPT ![original] = IF @ = "page" THEN @ ELSE "partial"])
  \/ BackgroundStep("create", Step("saved", work.url, FALSE), disk)

\* ... then images and page, or the PDF file.
SavePage ==
  \/ BackgroundStep("write", Step("saved", work.url, TRUE),
                    [disk EXCEPT ![original] = "page"])
  \/ BackgroundStep("write", Step("saved", work.url, FALSE), disk)

\* Mutant: the partial download stays.
CleanUpDownload_Keeps ==
  BackgroundStep("clean", [work EXCEPT !.step = "cleaned"], disk)

\* Any partial download is cleaned up.
CleanUpDownload ==
  BackgroundStep("clean", [work EXCEPT !.step = "cleaned"],
                 [disk EXCEPT ![work.url] = "none"])

Background ==
  \/ DeleteDirectory \/ OfflinePathExists
  \/ CreateOfflineURLDirectory \/ SavePage \/ CleanUpDownload

-----------------------------------------------------------------------------
(* The replies on the UI thread.                                           *)

\* delete_completion_ has nothing to do.
DeleteCompletionHandler ==
  /\ work.step = "deleted"
  /\ HandleNextTask(tasks)
  /\ UNCHANGED << pageVars, disk >>

\* The distiller starts, unless there is an offline version.
DownloadURL ==
  /\ work.step = "checked" /\ ~work.ok
  /\ original' = work.url /\ distilled' = work.url
  /\ work' = Step("distill", work.url, FALSE)
  /\ UNCHANGED << tasks, mime, disk >>

\* A page that loads tells its type; one that does not leaves the type of the
\* page before.
DistilledPageHasMimeType(type) ==
  /\ work.step = "distill"
  /\ type = "pdf" => distilled = original \/ LatePdf
  /\ mime' = type
  /\ UNCHANGED << tasks, work, original, distilled, disk >>

\* Once it is rendered, an HTML page tells where it came from.
DistilledPageRedirectedToURL ==
  /\ work.step = "distill" /\ mime = "html"
  /\ distilled' = Elsewhere
  /\ UNCHANGED << tasks, work, original, mime, disk >>

\* The current download fails: what it left of "url" is deleted.
DownloadFails(url) == work' = Step("clean", url, FALSE)

\* With the distilled page, or without: then it may be a PDF file.
DistillerCallback(distills) ==
  /\ work.step = "distill"
  /\ \/ distills /\ work' = Step("create", work.url, FALSE)
     \/ ~distills /\ mime = "pdf" /\ work' = Step("fetch", distilled, FALSE)
     \/ ~distills /\ mime # "pdf" /\ DownloadFails(work.url)
  /\ UNCHANGED << tasks, pageVars, disk >>

\* The file may be missing or be no PDF file, a failure for original_url_.  Of
\* a file that is saved, the outcome is for the URL it was fetched from.
OnURLLoadComplete(isPdf) ==
  /\ work.step = "fetch"
  /\ \/ isPdf /\ work' = Step("create", work.url, FALSE)
     \/ ~isPdf /\ DownloadFails(original)
  /\ UNCHANGED << tasks, pageVars, disk >>

\* The reply of a save that failed.
DownloadCompletionHandler ==
  /\ work.step = "saved" /\ ~work.ok
  /\ DownloadFails(work.url)
  /\ UNCHANGED << tasks, pageVars, disk >>

Distiller ==
  \/ \E type \in {"html", "pdf"} : DistilledPageHasMimeType(type)
  \/ DistilledPageRedirectedToURL

Replies ==
  \/ DeleteCompletionHandler \/ DownloadURL \/ DownloadCompletionHandler
  \/ \E b \in BOOLEAN : DistillerCallback(b) \/ OnURLLoadComplete(b)

\* download_completion_ runs with the outcome for work.url; then the next task.
DownloadEnds(outcome) ==
  /\ \/ outcome = "exists" /\ work.step = "checked" /\ work.ok
     \/ outcome = "success" /\ work.step = "saved" /\ work.ok
     \/ outcome = "error" /\ work.step = "cleaned"
  /\ HandleNextTask(tasks)
  /\ UNCHANGED << pageVars, disk >>

Outcomes == {"exists", "success", "error"}

DownloaderInit ==
  /\ tasks = << >> /\ work = Idle
  /\ original = Elsewhere /\ distilled = Elsewhere /\ mime = ""

-----------------------------------------------------------------------------
(* What a client sees of it.                                               *)

Deleting == {"delete", "deleted"}

\* The URL whose download has begun: original_url_, once the check is over.
Started(url) ==
  \/ work.step \in {"check", "checked"} /\ work.url = url
  \/ work.step \notin Deleting \union {"idle", "check", "checked"} /\ original = url

Doomed(url) ==
  Queued(Delete(url)) \/ (work.step \in Deleting /\ work.url = url)

InProgress(url) == Started(url) \/ (work.step \in Deleting /\ work.url = url)

\* The deletions of a URL come first, then one download at most.
InOrder(queue) ==
  \A i, j \in DOMAIN queue :
    queue[i].type = "download" /\ queue[j].url = queue[i].url /\ i # j =>
      queue[j].type = "delete" /\ j < i

(***************************************************************************)
(* Requests for a URL are in the order in which they count, none waits     *)
(* while nothing is handled, and what is on disk changes at the right URL: *)
(* a task is about the URL it was queued for or, from the fetch of a PDF   *)
(* file on, about where its page has moved to (HandleNextTask,             *)
(* RemoveOfflineURL, FetchPDFFile).                                        *)
(***************************************************************************)
InTurn ==
  /\ InOrder(tasks)
  /\ work.step = "idle" => tasks = << >>
  /\ work.step \in Deleting \union {"check", "checked"} => work.url \in Urls
  /\ work.step \notin Deleting \union {"idle", "check", "checked"} =>
       original \in Urls /\ {work.url, distilled} \subseteq {original, Elsewhere}
  /\ work.step = "deleted" => disk[work.url] = "none"

Pages ==
  INSTANCE OfflinePages WITH
    pages <- {u \in Urls : disk[u] # "none"},
    asked <- {u \in Urls : Queued(Download(u))},
    started <- {u \in Urls : Started(u)},
    doomed <- {u \in Urls : Doomed(u)}
=============================================================================
