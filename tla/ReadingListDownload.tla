------------------------- MODULE ReadingListDownload -------------------------
(***************************************************************************)
(* ReadingListDownloadService: keeps an offline version of every unread    *)
(* entry of the reading list, on top of a URLDownloader.                   *)
(*                                                                         *)
(* The service observes the reading list, which other parts change at any  *)
(* time, posts delayed tasks that start downloads, and hears of the        *)
(* network twice: NetworkChangeNotifier answers at once, the               *)
(* NetworkConnectionTracker tells of each change later.  Whenever the      *)
(* model is loaded, files of entries that are not processed are swept away *)
(* by a task of the thread pool.  The process may end at any time: entries *)
(* and files stay, all else is lost.                                       *)
(***************************************************************************)
EXTENDS URLDownloader, FiniteSets

CONSTANTS
  WifiOnlyAfter,  \* kNumberOfFailsBeforeWifiOnly
  StopAfter,      \* kNumberOfFailsBeforeStop
  LateAnswer,     \* whether the network may have changed by the time the
                  \* tracker learns its type at first
  MaxEvents,      \* bound on what users, network and launches do
  MaxTimers       \* timers and places of an entry in a list beyond this
                  \* number are not told apart

ASSUME FailsAssumption ==
  WifiOnlyAfter \in Nat /\ StopAfter \in Nat \ {0} /\ WifiOnlyAfter <= StopAfter
ASSUME AnswerAssumption == LateAnswer \in BOOLEAN
ASSUME BoundsAssumption == MaxEvents \in Nat /\ MaxTimers \in Nat \ {0}

VARIABLES
  entries,        \* the reading list
  timers,         \* the delayed DownloadEntry tasks of each URL
  cellularList,   \* how often url_to_download_cellular_ lists each URL
  wifiList,       \* the same of url_to_download_wifi_
  hadConnection,  \* had_connection_
  network,        \* the connection, as NetworkChangeNotifier knows it
  tracker,        \* the connection, as NetworkConnectionTracker knows it
  asked,          \* how many GetConnectionType calls are pending
  changes,        \* what NetworkConnectionTracker has not heard of yet
  sync,           \* SyncWithModel: how far it is and what it found
  ordinary,       \* whether nothing schedules an entry twice at a time
  budget          \* what the bound leaves of the events

serviceVars ==
  << entries, timers, cellularList, wifiList, hadConnection, network, tracker,
     asked, changes, sync, ordinary, budget >>

vars == << downloaderVars, serviceVars >>

listVars == << cellularList, wifiList, hadConnection >>
networkVars == << network, tracker, asked, changes >>

Connections == {"none", "cellular", "wifi"}

Unfinished == {"WAITING", "PROCESSING", "WILL_RETRY"}
Errors == {"WILL_RETRY", "DISTILLATION_ERROR"}

Entries ==
  [state : Unfinished \union {"PROCESSED", "DISTILLATION_ERROR"},
   read : BOOLEAN, fails : 0 .. StopAfter]

Absent == [state |-> "absent", read |-> FALSE, fails |-> 0]
NewEntry == [state |-> "WAITING", read |-> FALSE, fails |-> 0]

Present(url) == entries[url].state # "absent"

Syncs ==
  [phase : {"loading", "cleaning", "cleaned", "done"},
   keep : SUBSET Urls, todo : SUBSET Urls]

-----------------------------------------------------------------------------
(* The reading list.                                                       *)

\* Mutant: a download that fails after another has failed counts again.
WithState_CountsAgain(e, state) ==
  [state |-> state, read |-> e.read,
   fails |-> IF state \in Errors THEN e.fails + 1 ELSE e.fails]

\* A failure counts when it ends an attempt that had not failed before.
WithState(e, state) ==
  [state |-> state, read |-> e.read,
   fails |-> IF state \in Errors /\ e.state \notin Errors
             THEN e.fails + 1 ELSE e.fails]

WithInfo(e) == [state |-> "PROCESSED", read |-> e.read, fails |-> 0]

SetEntry(url, e) == entries' = [entries EXCEPT ![url] = e]

-----------------------------------------------------------------------------
(* Scheduling.                                                             *)

\* Mutant: what is processed is downloaded again.
ToDownload_Again(e) == e.state \in Unfinished \union {"PROCESSED"} /\ ~e.read

ToDownload(e) == e.state \in Unfinished /\ ~e.read

AtMost(n) == IF n <= MaxTimers THEN n ELSE MaxTimers

\* ScheduleDownloadEntry, "times" for each URL.
Scheduled(list, times) ==
  [url \in Urls |->
     IF ToDownload(list[url]) THEN AtMost(timers[url] + times[url])
     ELSE timers[url]]

Once(S) == [url \in Urls |-> IF url \in S THEN 1 ELSE 0]

\* Mutant: an entry marked read is still downloaded.
ProcessNewEntry_KeepsQueue(url, list) ==
  /\ timers' = Scheduled(list, Once({url}))
  /\ UNCHANGED downloaderVars

\* A read entry's queued download is called off.
ProcessNewEntry(url, list) ==
  IF list[url].read \/ list[url].state = "absent"
  THEN CancelDownloadOfflineURL(url) /\ UNCHANGED timers
  ELSE timers' = Scheduled(list, Once({url})) /\ UNCHANGED downloaderVars

-----------------------------------------------------------------------------
(* Changes to the reading list.                                            *)

\* In the ordinary case nothing schedules a download while one of the same
\* entry is scheduled or under way.
Quiet(url) ==
  timers[url] = 0 /\ ~Queued(Download(url)) /\ ~InProgress(url)

Settled == changes = << >> /\ sync.phase = "done"

Event == budget > 0 /\ budget' = budget - 1

MayChange(url, schedules) ==
  /\ sync.phase # "loading"
  /\ ordinary => Settled /\ (schedules => Quiet(url))

ListChanges ==
  /\ Event
  /\ UNCHANGED << listVars, networkVars, sync, ordinary >>

\* ReadingListDidAddEntry; an entry that is there is removed first.
AddEntry(url) ==
  /\ MayChange(url, TRUE)
  /\ ListChanges
  /\ LET list == [entries EXCEPT ![url] = NewEntry] IN
       /\ entries' = list
       /\ timers' = Scheduled(list, Once({url}))
  /\ IF Present(url) THEN RemoveOfflineURL(url) ELSE UNCHANGED downloaderVars

\* ReadingListWillRemoveEntry.
RemoveEntry(url) ==
  /\ MayChange(url, FALSE) /\ Present(url)
  /\ ListChanges
  /\ SetEntry(url, Absent)
  /\ RemoveOfflineURL(url)
  /\ UNCHANGED timers

\* ReadingListDidMoveEntry: marked as read, or as unread again.
MoveEntry(url) ==
  /\ MayChange(url, entries[url].read) /\ Present(url)
  /\ ListChanges
  /\ LET list == [entries EXCEPT ![url].read = ~@] IN
       entries' = list /\ ProcessNewEntry(url, list)

-----------------------------------------------------------------------------
(* A launch.                                                               *)

InState(states) == {url \in Urls : entries[url].state \in states}

\* Mutant: the downloads do not wait for the sweep.
ReadingListModelLoaded_DoesNotWait ==
  /\ sync.phase = "loading"
  /\ sync' = [phase |-> "cleaning", keep |-> InState({"PROCESSED"}), todo |-> {}]
  /\ timers' = Scheduled(entries, Once(InState(Unfinished)))
  /\ UNCHANGED << downloaderVars, entries, listVars, networkVars, ordinary,
                  budget >>

\* SyncWithModel, and what is posted by it.
ReadingListModelLoaded ==
  /\ sync.phase = "loading"
  /\ sync' = [phase |-> "cleaning", keep |-> InState({"PROCESSED"}),
              todo |-> InState(Unfinished)]
  /\ UNCHANGED << downloaderVars, entries, timers, listVars, networkVars,
                  ordinary, budget >>

\* The sweep keeps what was processed when the model was loaded.
CleanUpFiles ==
  /\ sync.phase = "cleaning"
  /\ disk' = [a \in Addresses |-> IF a \in sync.keep THEN disk[a] ELSE "none"]
  /\ sync' = [sync EXCEPT !.phase = "cleaned"]
  /\ UNCHANGED << tasks, work, pageVars, entries, timers, listVars, networkVars,
                  ordinary, budget >>

\* The reply to it.
DownloadUnprocessedEntries ==
  /\ sync.phase = "cleaned"
  /\ timers' = Scheduled(entries, Once(sync.todo))
  /\ sync' = [phase |-> "done", keep |-> {}, todo |-> {}]
  /\ UNCHANGED << downloaderVars, entries, listVars, networkVars, ordinary,
                  budget >>

Nowhere == [url \in Urls |-> 0]

Launched(connection) ==
  /\ timers' = [url \in Urls |-> 0]
  /\ cellularList' = Nowhere /\ wifiList' = Nowhere
  /\ hadConnection' = (connection # "none")
  /\ tracker' = "unknown" /\ asked' = 0
  /\ changes' = << connection >>
  /\ sync' = [phase |-> "loading", keep |-> {}, todo |-> {}]

\* The process ends and the application is launched again.
Relaunch ==
  /\ Event
  /\ tasks' = << >> /\ work' = Idle
  /\ original' = Elsewhere /\ distilled' = Elsewhere /\ mime' = ""
  /\ Launched(network)
  /\ UNCHANGED << disk, entries, network, ordinary >>

-----------------------------------------------------------------------------
(* The network.                                                            *)

\* How often each URL is scheduled by "calls" of OnConnectionChanged: those
\* that waited for a connection, and those that waited for wifi.  The lists
\* keep what they list.
Retries(connection, calls) ==
  [url \in Urls |->
     (IF ~hadConnection /\ connection # "none" THEN cellularList[url] ELSE 0)
     + (IF connection = "wifi" THEN calls * wifiList[url] ELSE 0)]

NetworkChanges(connection) ==
  /\ Event /\ connection # network
  /\ ordinary =>
       /\ Settled
       /\ \A url \in Urls :
            Quiet(url) /\ (ToDownload(entries[url]) => Retries(connection, 1)[url] <= 1)
  /\ network' = connection
  /\ changes' = Append(changes, connection)
  /\ UNCHANGED << downloaderVars, entries, timers, listVars, tracker, asked,
                  sync, ordinary >>

\* Mutant: had_connection_ is not reset while there is no connection.
OnConnectionChanged_StaysConnected(connection, calls) ==
  /\ timers' = Scheduled(entries, Retries(connection, calls))
  /\ hadConnection' = (hadConnection \/ connection # "none")

OnConnectionChanged(connection, calls) ==
  /\ timers' = Scheduled(entries, Retries(connection, calls))
  /\ hadConnection' = (connection # "none")

\* The tracker learns the type at first, for those who asked for it only, and
\* its changes after that.
ConnectionChanged ==
  /\ \E n \in DOMAIN changes :
       /\ n = 1 \/ (tracker = "unknown" /\ LateAnswer)
       /\ tracker' = changes[n]
       /\ changes' = SubSeq(changes, n + 1, Len(changes))
       /\ IF tracker # "unknown" THEN OnConnectionChanged(changes[n], 1)
          ELSE IF asked > 0 THEN OnConnectionChanged(changes[n], asked)
          ELSE UNCHANGED << timers, hadConnection >>
  /\ asked' = 0
  /\ UNCHANGED << downloaderVars, entries, cellularList, wifiList, network, sync,
                  ordinary, budget >>

-----------------------------------------------------------------------------
(* Downloads.                                                              *)

StartDownload(url) ==
  /\ SetEntry(url, WithState(entries[url], "PROCESSING"))
  /\ DownloadOfflineURL(url)
  /\ UNCHANGED << cellularList, wifiList, asked >>

Listed(list, url) == [list EXCEPT ![url] = AtMost(@ + 1)]

WaitForConnection(url) ==
  /\ cellularList' = IF entries[url].fails < WifiOnlyAfter
                     THEN Listed(cellularList, url) ELSE cellularList
  /\ wifiList' = IF entries[url].fails < StopAfter
                 THEN Listed(wifiList, url) ELSE wifiList
  /\ UNCHANGED << downloaderVars, entries, asked >>

\* GetConnectionType calls back later if the type is not known yet.
WaitForWifi(url) ==
  /\ wifiList' = Listed(wifiList, url)
  /\ asked' = IF tracker = "unknown" THEN AtMost(asked + 1) ELSE asked
  /\ UNCHANGED << downloaderVars, entries, cellularList >>

\* On any connection at first, then on wifi only.
MayDownload(e) ==
  \/ e.fails < WifiOnlyAfter
  \/ e.fails < StopAfter /\ tracker = "wifi"

\* A delayed task runs, ordinarily when the type of the connection is known.
DownloadEntry(url) ==
  /\ timers[url] > 0
  /\ ordinary => tracker # "unknown"
  /\ timers' = [timers EXCEPT ![url] = @ - 1]
  /\ LET e == entries[url] IN
       IF ~ToDownload(e)
       THEN UNCHANGED << downloaderVars, entries, cellularList, wifiList, asked >>
       ELSE IF network = "none" THEN WaitForConnection(url)
       ELSE IF MayDownload(e) THEN StartDownload(url)
       ELSE IF e.fails < StopAfter THEN WaitForWifi(url)
       ELSE UNCHANGED << downloaderVars, entries, cellularList, wifiList, asked >>
  /\ UNCHANGED << hadConnection, network, tracker, changes, sync, ordinary,
                  budget >>

\* Mutant: the boundary of the number of tries is off by one.
OnDownloadEnd_RetriesOnceMore(url, outcome) ==
  IF url \notin Urls \/ ~Present(url) THEN UNCHANGED << entries, timers >>
  ELSE LET e == entries[url] IN
       \/ /\ outcome = "success"
          /\ SetEntry(url, WithInfo(e)) /\ UNCHANGED timers
       \/ /\ outcome # "success" /\ e.fails < StopAfter
          /\ LET list == [entries EXCEPT ![url] = WithState(e, "WILL_RETRY")] IN
               entries' = list /\ timers' = Scheduled(list, Once({url}))
       \/ /\ outcome # "success" /\ e.fails >= StopAfter
          /\ SetEntry(url, WithState(e, "DISTILLATION_ERROR"))
          /\ UNCHANGED timers

\* A page that exists comes without a path, which counts as an error.  The
\* list ignores what is told of entries that are not there.
OnDownloadEnd(url, outcome) ==
  IF url \notin Urls \/ ~Present(url) THEN UNCHANGED << entries, timers >>
  ELSE LET e == entries[url] IN
       \/ /\ outcome = "success"
          /\ SetEntry(url, WithInfo(e)) /\ UNCHANGED timers
       \/ /\ outcome # "success" /\ e.fails + 1 < StopAfter
          /\ LET list == [entries EXCEPT ![url] = WithState(e, "WILL_RETRY")] IN
               entries' = list /\ timers' = Scheduled(list, Once({url}))
       \/ /\ outcome # "success" /\ e.fails + 1 >= StopAfter
          /\ SetEntry(url, WithState(e, "DISTILLATION_ERROR"))
          /\ UNCHANGED timers

DownloadEnd ==
  /\ \E outcome \in Outcomes :
       DownloadEnds(outcome) /\ OnDownloadEnd(work.url, outcome)
  /\ UNCHANGED << listVars, networkVars, sync, ordinary, budget >>

-----------------------------------------------------------------------------
Init ==
  /\ DownloaderInit
  /\ disk = [a \in Addresses |-> "none"]
  /\ entries = [url \in Urls |-> Absent]
  /\ network \in Connections
  /\ timers = [url \in Urls |-> 0]
  /\ cellularList = Nowhere /\ wifiList = Nowhere
  /\ hadConnection = (network # "none")
  /\ tracker = "unknown" /\ asked = 0 /\ changes = << network >>
  /\ sync = [phase |-> "loading", keep |-> {}, todo |-> {}]
  /\ ordinary \in BOOLEAN
  /\ budget = MaxEvents

DownloaderStep ==
  /\ Background \/ Replies \/ Distiller
  /\ UNCHANGED serviceVars

Next ==
  \/ \E url \in Urls :
       \/ AddEntry(url) \/ RemoveEntry(url) \/ MoveEntry(url)
       \/ DownloadEntry(url)
  \/ ReadingListModelLoaded \/ CleanUpFiles \/ DownloadUnprocessedEntries
  \/ Relaunch
  \/ \E connection \in Connections : NetworkChanges(connection)
  \/ ConnectionChanged
  \/ DownloaderStep \/ DownloadEnd

\* Posted tasks run, delays pass, and the distiller and the loader end.  The
\* downloader is in one step at a time; threads take posted tasks in turn.
Fairness ==
  /\ WF_vars(\/ (Background \/ Replies) /\ UNCHANGED serviceVars
             \/ DownloadEnd)
  /\ WF_vars(\/ ReadingListModelLoaded \/ CleanUpFiles
             \/ DownloadUnprocessedEntries \/ ConnectionChanged)
  /\ \A url \in Urls : WF_vars(DownloadEntry(url))

Spec == Init /\ [][Next]_vars /\ Fairness

-----------------------------------------------------------------------------
(* What must hold.                                                         *)

ServiceTypeOK ==
  /\ entries \in [Urls -> Entries \union {Absent}]
  /\ timers \in [Urls -> 0 .. MaxTimers]
  /\ cellularList \in [Urls -> 0 .. MaxTimers]
  /\ wifiList \in [Urls -> 0 .. MaxTimers]
  /\ hadConnection \in BOOLEAN /\ ordinary \in BOOLEAN
  /\ network \in Connections /\ tracker \in Connections \union {"unknown"}
  /\ asked \in 0 .. MaxTimers /\ changes \in Seq(Connections)
  /\ sync \in Syncs
  /\ budget \in 0 .. MaxEvents

(***************************************************************************)
(* The types of service and downloader.  The number of failures has no cap *)
(* in the code: it stays below kNumberOfFailsBeforeStop.                   *)
(***************************************************************************)
TypeOK == DownloaderTypeOK /\ ServiceTypeOK

(***************************************************************************)
(* What a removed entry leaves on disk is on its way out: its deletion is  *)
(* queued behind the download under way, if any, or it is from an earlier  *)
(* launch and about to be swept away (RemoveDownloadedEntry, CleanUpFiles).*)
(***************************************************************************)
RemovedPagesGo ==
  \A url \in Urls :
    ~Present(url) /\ disk[url] # "none" =>
      \/ Doomed(url)
      \/ sync.phase = "loading"
      \/ sync.phase = "cleaning" /\ url \notin sync.keep

(***************************************************************************)
(* No download is queued of an entry that was removed or marked as read    *)
(* (CancelDownloadOfflineURL): what the list says and what the queue holds *)
(* never come apart.                                                       *)
(***************************************************************************)
QueuedIsUnread ==
  \A url \in Urls :
    Queued(Download(url)) => Present(url) /\ ~entries[url].read

(***************************************************************************)
(* An entry that says it is available offline is: its page is on disk, all *)
(* of it (SetEntryDistilledInfo, OfflinePageTabHelper), after failures,    *)
(* retries and launches, and also when it was added again while the        *)
(* deletion of the entry before waited behind a task of another URL.       *)
(*                                                                         *)
(* "ordinary" leaves out two cases in which the code does take the page    *)
(* away: the entry is removed and added again while its own download is    *)
(* under way, whose end then marks the new entry before the deletion runs  *)
(* (OnDownloadEnd, HandleNextTask); and the list changes during the sweep, *)
(* which keeps only what was processed when it was posted (SyncWithModel). *)
(***************************************************************************)
ProcessedHasPage ==
  ordinary =>
    \A url \in Urls : entries[url].state = "PROCESSED" => disk[url] = "page"

(***************************************************************************)
(* A failed download leaves nothing behind that its retry would take for   *)
(* an offline version ("clean up any partial download").                   *)
(***************************************************************************)
RetryStartsAfresh ==
  ordinary =>
    \A url \in Urls :
      /\ entries[url].state \in Errors /\ sync.phase = "done"
      /\ ~Queued(Download(url)) /\ ~InProgress(url)
      => disk[url] = "none"

(***************************************************************************)
(* An entry is given up after StopAfter failures and not before, whatever  *)
(* network they happened on and however often the application was          *)
(* launched (kNumberOfFailsBeforeStop).                                    *)
(***************************************************************************)
GivesUpAfterAllTries ==
  ordinary =>
    \A url \in Urls :
      entries[url].state = "DISTILLATION_ERROR" <=> entries[url].fails = StopAfter

(***************************************************************************)
(* "The URL was already available offline. No action was done."            *)
(* (url_downloader.h): an entry that is available offline stays so until   *)
(* it is removed.                                                          *)
(***************************************************************************)
AvailableStays(url) ==
  entries[url].state = "PROCESSED" =>
    entries'[url].state \notin {"PROCESSING", "WILL_RETRY", "DISTILLATION_ERROR"}

AvailableStaysAvailable == [][\A url \in Urls : AvailableStays(url)]_vars

(***************************************************************************)
(* The same as long as nothing schedules a download of an entry while one  *)
(* is scheduled or under way: no launch, change of the network or mark as  *)
(* read and unread downloads again what is there (ScheduleDownloadEntry).  *)
(***************************************************************************)
OrdinarilyStaysAvailable ==
  [][ordinary => \A url \in Urls : AvailableStays(url)]_vars

(***************************************************************************)
(* The downloader does what OfflinePages promises, with the launches of    *)
(* the application around it.                                              *)
(***************************************************************************)
KeepsPagesPromise == Pages!Spec

(***************************************************************************)
(* Once users and network are at rest, every unread entry gets available   *)
(* offline or is given up in the end, unless there is no connection, or    *)
(* none but cellular after WifiOnlyAfter failures.  None waits for a       *)
(* connection that is there already, for a reply that never comes, or for  *)
(* a place in a queue.  As they do MaxEvents things at most, they rest.    *)
(* It takes a tracker whose first answer is the type at launch (LateAnswer *)
(* = FALSE): a change that it does not tell of starts nothing.             *)
(***************************************************************************)
EntrySettled(url) ==
  \/ ~ToDownload(entries[url])
  \/ network = "none"
  \/ network = "cellular" /\ entries[url].fails >= WifiOnlyAfter

EntryIsSettled == []<>(\A url \in Urls : EntrySettled(url))
=============================================================================
