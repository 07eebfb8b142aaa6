# Formal models of Chromium for iOS (`src/`)

This directory holds TLA+ models of parts of `src/` (the iOS port of Chromium), the TLC
configurations that check them on small instances, and theorems about them that TLAPS proves.
Lines named below are lines of the repository at the modelled commit.

    tlc -workers 2 -config MCWebStateList.cfg MCWebStateList     # one run; the others alike
    tlapm WebStateListProofs.tla                                 # the proofs

Almost all code of the repository runs on the UI thread. Its difficulty is not data races but
order: observers called in the middle of an operation, animations, navigations, posted tasks and
platform callbacks that finish after what started them is gone. One action of a model is one
uninterrupted run of UI-thread code: a public method or a callback with everything it calls,
observers included.

## 1. Inventory

| Component | State | Operations | Interacts with | Hard part | What makes it correct |
|---|---|---|---|---|---|
| **WebStateList** `chrome/browser/web_state_list/web_state_list.mm`, order controller, opener | wrappers (WebState, opener), active index | insert, move, replace, detach, close, activate, batch close | calls delegate, observers; asked by order controller | index arithmetic, raw opener pointers, what is notified and with which "old" WebState | no dangling opener, openers acyclic, selection never lost, family selection, observers agree with the list |
| **List observers** `*_web_state_observation_forwarder.mm`, `ui/tab_grid/tab_grid_mediator.mm`, `grid_view_controller.mm` | observed WebStates, items, selected item, closed session | insert, move, replace, remove, select; close all, undo, discard | driven by the list's notifications | they keep copies, see intermediate states | copies equal the list |
| **List serialization** `web_state_list_serialization.mm` | SessionWindowIOS | serialize, deserialize | list, tab grid, session service | relative indices, data from disk | undo is exact; bad data gives no bad openers |
| **Overlays** `chrome/browser/overlays/overlay_presenter_impl.mm`, `overlay_request_queue_impl.mm`, `ui/overlays/overlay_presentation_context_impl.mm` | queue per tab, active tab, presented request, UI states, container | insert, cancel, present, hide, dismiss, shut down | list observer, queue observer, context delegate, UIKit animations | callbacks within callbacks, dismissal animations | one dialog, of the active tab; each request in turn, once; no assertion |
| **Download task** `web/download/download_task_impl.mm` | state, writer, session task, counters | start, cancel, NSURLSession callbacks, cookies reply, write completions, shutdown | UI and IO threads, URLFetcher writer, mediator | cancel and restart against replies on their way | a cancelled download stays so; a file is complete only with its bytes |
| **Download manager** `chrome/browser/download/download_manager_tab_helper.mm`, `ui/download/download_manager_coordinator.mm`, `download_manager_mediator.mm` | download per tab, download of the panel, of the mediator, confirmation on screen | create, replace, drop, start, close, cancel, confirm; tab shown, hidden, closed | download tasks, tabs, background threads, alerts | two background replies before a start, answers to old questions, tabs that change meanwhile | the panel is of the visible tab and true; one start at a time; an answer does what was asked |
| **Find in page** `web/find_in_page/find_in_page_manager_impl.mm`, `find_in_page_request.mm` | request (id, query, frames, counts, selection), buffers | find, next/previous, stop, frame added/removed, JS replies | WebFrames, delegate | late replies of an earlier request, frames that vanish | counts shown are those of the current query; every find reports once |
| **Error page navigation** `web/navigation/error_retry_state_machine.mm` | state, URL | placeholder and error page loads, reload, back/forward | WKWebView callbacks | order of callbacks | each sequence ends in the URL or its error page |
| **Navigation manager** `wk_based_navigation_manager_impl.mm`, `crw_wk_navigation_states.mm` | pending, transient, committed items; WKBackForwardList | load, go, commit, discard, restore | WKWebView | two histories kept in step | one pending item; indices agree |
| **Web controller** `web/web_state/ui/crw_web_controller.mm`, `crw_wk_navigation_handler.mm` | web view, load phase | navigation delegate | WebKit | callbacks for a removed web view | none reach a closed WebState |
| **JS messaging** `web/js_messaging/web_frame_impl.mm`, `web_frames_manager_impl.mm` | frames, pending requests | call, reply, timeout | WKWebView scripts | timeout against late reply | each callback runs once |
| **Cookie store** `net/cookies/cookie_store_ios.mm` | cookie monster, system store, creation times | set, get, delete, flush | NSHTTPCookieStorage, notifications | two stores, delayed flush | stores agree once flushed |
| **HTTP protocol handler** `net/crn_http_protocol_handler.mm` | URLRequest, buffers, client proxy | start, redirect, read, cancel | network and client threads | cancel against callbacks in flight | nothing after stop |
| **Session service** `chrome/browser/sessions/session_service_ios.mm` | pending saves | save (delayed or now), load, delete | file thread | replacing pending saves | last save wins |
| **Snapshots** `chrome/browser/snapshots/snapshot_cache.mm` | LRU, marked ids, grey copies | set, get, remove, background | file thread | removal against a pending write | no image of a closed tab |
| **Browsing data remover** `browsing_data_remover_impl.mm` | task queue, pending callbacks | remove | many services | callbacks of several services | each task ends once |
| **Prerender** `preload_controller.mm`, `prerender_service.mm` | scheduled URL, prerendered WebState | prerender, cancel, load | list, timers | cancel against load | the released WebState is the one shown |
| **Application state** `app/application_delegate/app_state.mm` | launch stage | foreground, background, safe mode | scene, services | order of notifications | every start is stopped |
| **Reading list download** `chrome/browser/reading_list/reading_list_download_service.cc`, `url_downloader.cc` | queue of tasks, current task, timers, entries waiting for a network, directories on disk | entry added, removed, read; download, delete, clean up; network changes; launch | reading list, distiller, URL loader, two sources of network state, file sequence | deletion against download, retries against connections, a process that ends between two writes | what says it is available is; no file without entry; every entry available or given up |
| **Infobars, tab restore, app launcher, JS dialogs** | | | clients of overlays and list | | |
| **Fullscreen** `ui/fullscreen` | progress, disabled counter | scroll, disable, animate | animators | mostly geometry | |
| **UI, autofill, passwords, translate, sign-in, preferences, security, WebUI, web_view** | | | | adapters, view controllers | not modelled |

`PROJECT.json` lists all of them with status and reason, and under `hazards` what is hard to test.

## 2. Modules

The modules compose along `EXTENDS`: `WebStateList` the observers' operators, `ReadingListDownload` the
downloader. `Overlays` and `DownloadManager` take from `WebStateList` how a list reports its changes
(another tab becomes active before the closed one is destroyed), and `DownloadManager` takes from
`DownloadTask` that a download in progress ends (`DownloadEnds`).

| Module | Role |
|---|---|
| `WebStateListObservers` | operators: what the list's observers do with each notification (the two forwarders, the tab grid) |
| `WebStateList` | the list, order controller, serialization, close-all/undo/discard; composes the observers' operators |
| `MCWebStateList` | values of the constants and stored sessions for TLC |
| `ListLemmas` | lemmas about inserting into, removing from and replacing in sequences |
| `WebStateListProofs` | theorems about `WebStateList` |
| `ObserversProofs` | theorems about the list's observers and its selection |
| `Overlays` | presenter, queues, presentation context, UI states, coordinators, tabs |
| `MCOverlays` | constants for TLC |
| `OverlaysProofs` | theorems about `Overlays` |
| `DownloadTask` | one download: the task, its client, writers, session tasks, their delegate's queue |
| `DownloadTaskStages` | the inductive invariants of `DownloadTask`: the stages of an attempt |
| `DownloadTaskProofs`, `DownloadTaskSafety` | theorems about `DownloadTask`: types; safety by stages |
| `DownloadManager` | the tab helpers, the coordinator with its mediator, panel, confirmations and starts of a browser |
| `DownloadManagerProofs` | theorems about `DownloadManager` |
| `OfflinePages` | abstract: what a URL downloader promises |
| `URLDownloader` | the downloader: its queue, the steps of a task on two threads, the disk |
| `ReadingListDownload` | the service on top of `URLDownloader`: entries, timers, network, launches; implements `OfflinePages` |
| `ReadingListProofs` | theorems about `ReadingListDownload`, the refinement among them |

### 2.1 `WebStateList`

*State.* `list` and `opener` are `web_state_wrappers_`; `activeIndex` is `active_index_` (0 for
`kInvalidIndex`; index *i* of the code is *i*+1). `navIndex` is what
`NavigationManager::GetLastCommittedItemIndex` answers for each WebState: an opener remembers it, so
that "opened by w from its current page" can be told. `observers` holds the WebStates each forwarder
observes and the grid's items and selection, all changed by notifications only. `batch` is the batch
operation in progress, `session` the `SessionWindowIOS` saved for undo or read at launch.

*Actions.* `Insert` (any index or placed by the order controller, with each set of flags
`TabInsertionBrowserAgent` uses), `Move`, `Replace`, `Detach` (closing), `Activate`, `Navigate` (the
environment changes the opener's page), and the tab grid's batches: `CloseAllWebStates`
saves and then `CloseLast` closes one tab per step; `Deserialize` then `RestoreTab`, `RestoreOpeners`,
`RestoreSelection`, `RestoreEnded`. A batch operation takes several steps so that invariants are
checked at each point where observers run. Replacing an inactive tab is behind the constant
`ReplaceAnyIndex`: the application only replaces the active tab (`prerender_service.mm:80`).

*Runs* (WebStates are interchangeable):

| Run | Question | Bound |
|---|---|---|
| `tabs` | do openers, selection, insertion order and observers stay right under any sequence of operations? | 4 WebStates, 2 navigation indices |
| `tabs_undo` | does undo, or a launch, restore exactly what was saved, also after other tabs were opened, and also when the stored openers are cyclic, out of range or the tab itself? | 3 WebStates, saved sessions of up to 2 tabs, the three stored sessions `CorruptSessions` of `MCWebStateList` |

Three tabs make every case of the order controller (child, sibling, opener, neighbour); the fourth
leaves a group of two on each side of a moved tab. WebStates are reused once closed, so histories are
unbounded. `SpeculativeFixIsDead` says that the index the order controller picks after a close always
exists: the clamp in `DetachWebStateAt` (crbug.com/877792) cannot be what repairs that bug. It needs
`OpenersAreAcyclic`: with a stored session whose tab is its own opener the order controller's index can
be out of the list, the clamp is reached, and with it the selection survives (`tabs_undo`).

*Found.* `ReplaceWebStateAt` announces that the replaced WebState was active even if it was not
(web_state_list.mm:270); the forwarder would then observe the active WebState twice. With
`ReplaceAnyIndex = TRUE`, which no caller in the application does, `ForwarderFollowsActive` fails.

### 2.2 `Overlays`

*State.* One record `overlays`: `queue` per WebState (`OverlayRequestQueueImpl`), the presenter's
`active` WebState, `presenting`, `presented`, and whether it has a `context`; the context's `request`,
UI states `ui` (a coordinator that is started, leaving or stopped, the dismissal callback, the dismissal
reason) and whether its `container` is there. It is one record because callbacks nest: hiding a dialog
dismisses it, which tells the presenter, which may show another; the operators `HideOverlayUI`,
`DismissPresentedUI`, `OverlayUIWasDismissed`, `OverlayWasDismissed`, `PresentOverlayForActiveRequest`
map record to record and compose as the calls do. `failed` records a DCHECK that fails; the behaviour
then ends (the model is of a build with DCHECKs). `tabs`, `asked` and `answered` are the tabs of the
browser, the requests queued so far, and those the user has answered. A loop over a queue or over the tabs
(`CancelAllRequests`, the shutdown) is a recursive function: it cancels one request, with all that this calls, before the
next. The tabs that are left when the browser is destroyed go in any order.

*Actions.* Tabs are inserted, activated, closed, replaced (as the list of 2.1 reports it); requests are
inserted at any index, cancelled one by one or together (a navigation, the default cancel handler);
the user answers (`StopOverlayForMediator`) and the dismissal animation ends
(`ContainedPresenterDidDismiss`); the container coordinator comes and goes; the browser is destroyed.

*Interference.* Actions may overlap with the code's own only while a dismissal animates. `interference`, chosen
initially from the constant `Interferences`, says which ones may: `switch` (the active tab changes),
`container`, and, at any time, `insert` (ahead of the front) and `cancel` (of one request).

| Property | none | insert | cancel | container | switch |
|---|---|---|---|---|---|
| `NoAssertionFails` | holds | holds | holds | fails | fails |
| `AnsweredStaysAnswered` | holds | fails | holds | fails | fails (`overlays_switch`) |
| `NoRequestIsForgotten` | holds | holds | fails | fails | fails |
| `DialogIsOfActiveTab`, `NothingShownAfterShutdown` | holds | holds | holds | holds | holds |

The run `overlays` checks the last line under every interference at once and the first under `insert` and
`cancel` together; `overlays_ordinary` checks the second and third, and `EveryRequestGetsItsTurn`, under none. The
cells that fail are seen when `Interferences` in the two configurations names the interference. `overlays` has three
tabs and three requests, so that two requests queue in one tab while another tab has one, and a tab can be
opened after another was closed; `overlays_ordinary`, which cannot use symmetry, has two tabs.

*Fairness.* Weak fairness of the end of a dismissal animation only: UIKit runs a transition's completion.
Users, pages, tabs need do nothing; `EveryRequestGetsItsTurn` allows for a request being overtaken,
cancelled, or left without container.

*Left out.* All coordinators are alert coordinators (child view controllers, the only kind registered
in this modality); the presentation animation, whose completion changes no scheduling state; observers
that do not support a request; the browser's other modalities, which are independent instances.

*Found.* The run `overlays_switch`, quoted in `PROJECT.json` under `findings`. A request that is cancelled by itself
is still at the front of its queue when its dialog's callback runs, so that the next one is not presented
(overlay_presenter_impl.mm:278): the failing cell of `NoRequestIsForgotten`. Changing tabs while an
answered dialog animates out can fail the DCHECK of overlay_presenter_impl.mm:153; and, by reading, the UI
state of a hidden dialog stays in the context when its tab is closed while nothing is presented
(overlay_presenter_impl.mm:144).

### 2.3 `DownloadTask`

*State.* `scheme`, `state`, `error`, `received` (in chunks), `sessionTask` and `writer` are the task's
members. `writer` holds what was written, the operation whose callback is pending and whether the file
is closed. Starts are numbered by `attempt`: `network[n]` is the NSURLSessionTask the *n*-th one created.
`cookies` are the starts whose cookies are still being read on the IO thread, `posted` what the delegate
posted to the UI thread and has not run, `waiting` the session task whose `didReceiveData:` waits on its
semaphore. `reports[n]` counts how often the client was told of the end of attempt *n*.

*Actions.* The client's: `StartHttp`, `StartDataUrlParsing` (with what it calls at once when a write does
not stay pending), `Cancel`, `Destroy`. The UI thread's: `StartWithCookies`, the data block (`WriteData`),
the write's callback (`DataWritten`, `DataUrlWritten`), the properties block before and at the end
(`UpdateProperties`, `CompleteDownload`), the callback of `Finish` (`WriterClosed`). The delegate's queue:
`DidReceiveData` up to its wait, `DidComplete`. Blocks posted by the delegate run in order; cookies and
writers answer at any time. Callbacks held by weak pointers do nothing once the task is destroyed, and
those held by a writer go with it.

*What the environment may do.* `Cancel` and `Start` of the code can be called at any time; the guards `MayCancel` and
`Settled` restrain the client, not the code. Without liberties it cancels a download not yet started or a session task
under way, starts again only when nothing of the attempt before is under way, and the disk takes every write and
closes every file. `Liberties` names what goes beyond that:

| Liberty | What it means | What fails with it |
|---|---|---|
| `early cancel` | cancel while the cookies are read | `CancelledThenAborted` (`downloads_cancel`), `NothingRunsUnattended` |
| `late cancel` | cancel after the session task ended | `CancelledThenAborted` |
| `early restart` | start again before the cancelled session task has ended | `OnlyCancelledIsAborted` (`downloads_restart`), `CompleteMeansWritten`, `NothingRunsUnattended`, `FinishesOnce`, `DownloadEnds`, `QueueGoesOn` |
| `destroy while writing` | the destructor while a write is pending | `QueueGoesOn` |
| `write error` | a write fails, or closing the file does | `CompleteMeansWritten` |

`downloads` shows that with none of them everything holds; types and back-pressure are proved with all
of them, and `NothingRunsUnattended` with all but the first and the third. After an early cancel `StartWithCookies`
creates a session task for a cancelled task (download_task_impl.mm:444); `OnlyCancelledRunsOn` proves that it is the only
one that runs so, and that it is `session_task_`. No documentation binds the client to these restraints. Two of the violations are kept as runs;
the others appear when `Liberties` in `MCDownloads.cfg` names the liberty. Write errors are lost because the data
block ignores the result of a write (download_task_impl.mm:402). Not a property: `Start` does not reset `error_code_`
(download_task_impl.mm:240), so a restarted download is in progress with the error of the attempt before,
which download_task.h:78 excludes.

*Bounds.* Three chunks: one written, one waiting, one to come. Three attempts: one past the restart of a
restart. The violations need two of each.

*Fairness.* Weak fairness for the UI thread (its queue of posted blocks, as a whole: it runs them in order),
for cookies, for pending writes and closes, and for each session task, which receives, fails or times out.
None for the client.

*Left out.* A session task's redirects and challenges, percentages, names, MIME types, the background
flag; `ShutDown` by the download controller when the browser state goes away (it is modelled as part of
the destructor); the initialization of the file writer before `Start`.

### 2.4 `DownloadManager`

*State.* `task` is `task_` of each tab's `DownloadManagerTabHelper`, which owns its download; `download` the
state of each `web::DownloadTask` as far as others see it. `panel` is the coordinator's `_downloadTask` with
what its view controller shows, `mediator` the mediator's `task_`. `starts` counts for each download the
replies the mediator waits for: the directory that is made, then the file that is opened, each by another
thread. `dialog` is the confirmation on screen and whether it is the `_confirmationDialog` that `-stop`
dismisses. `fault` is the first call the code does not survive or does to the wrong download.

*Actions.* The download controller's: `FirstDownload`, `DropDownload`, `AskToReplace`, decided by
`didCreateDownload`. The user's: `TapClose`, `StartDowloading` (the source's name), and the answers `ConfirmReplace`,
`ConfirmCancel`, `Decline`. The tabs': `WasShown`, `WasHidden`, `WebStateDestroyed`. The background's:
`DownloadWithDestinationDir`, `DownloadWithWriter`, each with success and failure, and `Progress`, `Complete`
of a download. While a confirmation is up no button works, but pages and tabs go on.

*Interference.* `ordinary`, chosen initially, says that a tab is not hidden and its download not replaced while a
start is pending, that no second confirmation is asked for, that a tab is not closed while a confirmation is
about it, and that the directory of a download no longer shown can be made. `PanelIsOfVisibleTab`, and
progress in `PanelIsTrue`, hold without; the rest does not.

*Run* `download_manager`: two tabs (one shown, one behind), three downloads (one replaced, one asked about, one
of the other tab), two starts under way. Tabs come back, downloads do not. *Fairness*: background threads
reply, and downloads in progress end, which is `DownloadEnds` of 2.3.

*Found.* `download_manager_start`: a hidden and reshown tab's panel offers "Start" again although the start is pending,
and the second start finds the download in progress. And, seen when the guard in question is taken out
of `ordinary`: a directory that cannot be made is reported at the panel of another download
(download_manager_mediator.mm:73, the reply is looked at before the download is); a second confirmation, which UIKit
does not present, replaces the first as the one `-stop` dismisses (download_manager_coordinator.mm:409), so that
its answer reaches another download, none, or the helper of a closed tab.

*Left out.* What is done with a finished file, the Google Drive promotion, accessibility announcements, metrics. A
start that fails before it begins (no documents directory) is `StartDowloading`'s first disjunct.

### 2.5 `URLDownloader` and `ReadingListDownload`

*State.* Of the downloader: `tasks` is `tasks_`; `work` is `working_` with the current task and the step it is at,
on which thread it is, and for which URL; `original`, `distilled` and `mime` are the members the distiller's
callbacks fill in; `disk` says of each URL's directory whether there is none, a partial one, or a page. Of the
service: `entries` is the reading list, `timers` the delayed `DownloadEntry` tasks, `cellularList` and
`wifiList` how often `url_to_download_cellular_` and `_wifi_` list a URL, `hadConnection`; `network` is what
`NetworkChangeNotifier` answers, `tracker` and `changes` what the `NetworkConnectionTracker` knows and has still to
tell, `asked` who waits for it; `sync` is how far `SyncWithModel` is.

*Actions.* Each step a task takes on the file sequence (`DeleteDirectory`, `OfflinePathExists`,
`CreateOfflineURLDirectory`, `SavePage`, `CleanUpDownload`, those that can fail with a failure), each reply,
each callback of distiller and loader; the list's observers (`AddEntry`, `RemoveEntry`, `MoveEntry`); the
delayed `DownloadEntry`; `DownloadEnd`; the sweep at launch in its three steps (`ReadingListModelLoaded`, `CleanUpFiles`,
`DownloadUnprocessedEntries`); `NetworkChanges` and, later, `ConnectionChanged`. `Relaunch` ends the process
at any point: queue, timers and lists are lost, entries and directories stay.

*Refinement.* `OfflinePages` is the promise to the service, with no queue and no failures: only a download that has
begun stores a page, no download of a URL begins before the deletions asked for earlier are over, and these
are over only when nothing is left. `KeepsPagesPromise` is `Pages!Spec` under the mapping at the end of
`URLDownloader`: a stored page is a directory, `asked` what is queued, `started` the current download once the check
is posted, `doomed` what is queued or under way for deletion.

*Interference.* `ordinary`, chosen initially, says that nothing schedules a download of an entry while one is
scheduled or under way: in particular an entry is not removed and added again while its download is, and the list
does not change during the sweep of a launch. `RemovedPagesGo`, `QueuedIsUnread`, `KeepsPagesPromise` and
`EntryIsSettled` hold without; `ProcessedHasPage`, `RetryStartsAfresh`, `GivesUpAfterAllTries` and
`OrdinarilyStaysAvailable` are about the ordinary case. `KeepsPagesPromise` orders deletions, saves and downloads of one
URL; that the sweep removes no page that an entry still needs is `ProcessedHasPage`.

*Run* `reading_list`: two URLs (one waits in the queue while the other is handled), one failure before wifi only and two
before giving up (five and seven in the code: each limit is passed, and reached, within one retry of the other),
three events of users, network and launches, and at most two timers of a URL told apart. *Fairness*: posted
tasks and replies run, delays pass, distiller and loader end; files fail whenever they like. None for users and
network, whose events are bounded, so that they rest.

*Found.* `reading_exists`: an entry that is scheduled twice is downloaded twice, the second download finds the page
and reports it without a path, and that counts as an error of an entry that is available. With `LatePdf = TRUE` (a page
that has redirected turns into a PDF) the loader fetches the redirected URL. A failure of the loader is reported for
the original one (url_downloader.cc:210), but what `SavePDFFile` returns, success or not, is reported and cleaned up under
the redirected URL (url_downloader.cc:217): the entry stays in PROCESSING (`EntryIsSettled` fails), and the directory of
the original, with the page or a part of it, is left for the next download to find (`RetryStartsAfresh` fails).

Without `ordinary` a page that an entry says it has can be lost, in two ways; both are counterexamples to
`ProcessedHasPage` once its first condition is taken out. An entry is removed and added again while its download is under way: the download
goes on and marks the new entry as PROCESSED (reading_list_download_service.cc:271), then the deletion queued by the
removal takes the page away (url_downloader.cc:82, :154), and nothing downloads an entry that is PROCESSED. And `SyncWithModel`
computes what the sweep keeps when it posts it (reading_list_download_service.cc:175), so that the page of an entry
that becomes available before the sweep runs is swept away.

With `LateAnswer = TRUE` the network may have changed by the time the tracker first answers. Then nothing tells of that change: an
entry that failed or was listed while there was no connection waits for the next one, with `hadConnection`
still false (`EntryIsSettled` fails; the other properties hold).

*Left out.* Titles, sizes, favicons and images of the distilled page (an image that fails is a page that fails);
the loading of offline pages into a tab (`OfflinePageTabHelper`); failures of deletions, whose results the code looks at only to end the task
(url_downloader.cc:135, reading_list_download_service.cc:57): in the model a deletion succeeds; the lengths of the
backoff times; what the distiller's page does before it tells of type and redirection; `CancelTask`, which nothing under src/ calls.

## 3. What is proved

`WebStateListProofs`, for every finite or infinite set of WebStates and every value of the other
constants, from the named assumptions of `WebStateList` (`None` is no WebState, bounds are naturals,
stored sessions are well typed and select an existing tab or none):

* `TypeCorrect`: `Spec => []TypeOK`.
* `OpenersInList`: `Spec => []NoDanglingOpener`.
* `OpenersStayAcyclic`: `Spec => []OpenersAreAcyclic`, if no stored session has cyclic openers.
* `SpeculativeFixNeverRuns`: `Spec => []SpeculativeFixIsDead`, under the same condition.
* `SelectionInFamily`: `Spec => SelectionStaysInFamily`, under the same condition.
* `OpenedTabsInOrder`: `Spec => OpenedTabsKeepOrder`.
* `RestoresExactly`: `Spec => []RestoreIsExact`, for sessions of any length and any content.

`TypeOK` is not inductive: that the active index stays in range needs that the order controller finds the
opener in the list (`NoDanglingOpener`), that no WebState is in the list twice, and, while a session is
restored, that the tabs inserted so far are those after `oldCount`. `IInv` is the conjunction. There is one lemma
per action, and under it a step per conjunct the action can disturb; removal and insertion rest on
`ListLemmas`. Acyclicity is proved in the form "no non-empty set of tabs in which each one's opener is in
the set" (`AcyclicInv` adds that the saved session has none either): it needs no recursion, and each
action maps such a set after the step to one before it. `SpeculativeFixNeverRuns` then follows from
`IInv` and acyclicity: a tab is not its own opener, so the fallback to the opener is an index other than the removed one.
So does `SelectionInFamily`: the index chosen is not clamped, and `ValidIndexFinds` says that it finds the child, sibling or
opener in the shortened list; `ShorterAfterDetach`, that only a detached WebState shortens the list. `OpenedTabsInOrder`
rests on `LastOpenedEndsGroup` (the last index of the contiguous run is of the group, the one after it is not) and needs `IInv`
only. `RestoreIsExact` says nothing before a restoration has ended; `RestoreInv` says what each of its steps has done of the
session: the tabs inserted so far are at their stored pages (`RestoredKeepNav`) and have no opener yet
(`RestoredHaveNoOpener`), then they have the stored one unless its index is out of bounds (`RestoredHaveOpeners`), then the
stored selection is active (`RestoredIsSelected`).

`ObserversProofs`, for the same constants:

* `ObserversAgree`: `Spec => []ObserversMirrorList`, also when inactive WebStates are replaced.
* `ForwarderObservesActive`: `Spec => []ForwarderFollowsActive` if `ReplaceAnyIndex = FALSE`.
* `SelectionStays`: `Spec => SelectionSurvives`, whatever openers stored sessions bring in.

The observers' copies are one record, and the invariant `ObserversInv` says which (`Mirrors`) next to `IInv`: that no
WebState is in the list twice is what makes the grid find the item it is told about
(`RemoveFirstIsRemoveAt`, `ReplaceAllIsExcept`). One lemma, `NotifyMirrors`, covers `NotifyIfActiveWebStateChanged`; each operation
shows that it passes the WebState that was active before, which replacing an inactive one does not.

`DownloadTaskProofs` and `DownloadTaskSafety`, for any number of chunks and attempts (natural numbers):

* `TypeCorrect`: `Spec => []TypeOK`, with all liberties. Beyond types it says that at most one chunk waits
  to be written; inductive with what a chunk under way implies (`TInv`): the queue waits for it, it is
  the last thing posted, and nothing is posted while the write is pending.
* `NothingIsLeftRunning`: `Spec => []NothingRunsUnattended`, unless the client cancels while cookies are read or restarts
  early; late cancels, failing writes and destruction at any time are included. `OnlyCancelledRunsOn`: also with early
  cancels a session task runs only of a task in progress or cancelled, and is its `session_task_` (`RunsOnlyUnderWay`). Both rest on `Attended`,
  an invariant about session tasks alone: while cookies are read, once an end is posted and while the file
  is closed none is active, so that the one created next is the only one. An early restart breaks just that.
* `CompletesWritten`, `ReportsEndOnce`, `CancelsAbort`, `AbortsAreCancelled`:
  `CompleteMeansWritten`, `FinishesOnce`, `CancelledThenAborted` and
  `OnlyCancelledIsAborted`, assuming `Ordinary` (of the liberties at most `destroy while writing`). The invariant `IInv` says that a
  task that is not destroyed is in one of seven stages of its current attempt (not started, reading
  cookies, writing a data: URL, downloading, session ended, closing, complete), each of which ties the
  session task, the writer's content, what is posted and `state` together, and that other attempts are
  over or unused. There is one lemma per action; each says from which stages the action can start and
  which it leads to. The action properties follow from a lemma on the steps that complete a download.

`OverlaysProofs`, for any sets of tabs and requests:

* `TypeCorrect`, `OneDialogOnScreen`, `ShutdownLeavesNothing`: `TypeOK`, `DialogIsOfActiveTab` and
  `NothingShownAfterShutdown` always hold, whatever interferes.
* `AssertionsHold`: `Spec => []NoAssertionFails`; no DCHECK fails as long as nothing but insertions ahead of the front and
  cancellations of single requests interferes.
* `NothingIsForgotten`, `AnswersAreFinal`: `NoRequestIsForgotten` and `AnsweredStaysAnswered` hold of the behaviours in which
  nothing interferes, whatever `Interferences` allows otherwise.

Each operator that stands for a call has lemmas that say what it changes and what it preserves, cited by those
about its callers; the last layer is one lemma per action and invariant. There are three invariants, one per group above.
`SafeInv`: the only request with a dismissal callback is the context's, and a coordinator that is started is that of the
context's request, which the presenter presents for the front of the active tab. That is not enough for the DCHECKs:
`SteadyInv` adds that all other requests are at rest, that a presenter that presents waits for the context's request to be
dismissed, and that a context without request has a presenter that is idle. `ServedInv` adds
what ties them to the queues (a request is queued once; the presented one is the front until it leaves the queue; an
answered one is queued only while its dialog goes; and a presenter that is idle has nothing to present: `Served`). Recursive
functions over queues would need an induction theorem; their lemmas (`CancelSteps`, `ShutdownSteps`) argue by the least
natural number at which the claim fails, which the well-foundedness of the naturals gives.

`DownloadManagerProofs`, for any sets of tabs and downloads and any number of pending starts:

* `PanelTypes`, `PanelFollowsTab`, `PanelTellsTruth`, `NothingFails`: `TypeOK`, `PanelIsOfVisibleTab`, `PanelIsTrue`
  and `NoFault` always hold.
* `HideAndShowAgree`: the DCHECKs of the coordinator when a tab is hidden or shown hold, interference or not.

The invariant `IInv` holds with every interference in four parts: a download belongs to one open tab
(`Owners`), panel and mediator are of the visible one (`PanelInv`), the download a confirmation is about waits for it
(`DialogInv`), and progress is shown of what is under way (`ProgressInv`). The fifth, `OrdinaryInv`, is what `ordinary`
adds: a pending start is the only one, of the shown download that is not in progress, or of one that is gone
(`StartsInv`), which is why a reply never starts a download in progress; the panel shows the state of its
download (`ShownInv`); and a confirmation that is up is the one `-stop` dismisses, about an open tab and the shown
download (`AnswersInv`).

`ReadingListProofs`, for any set of URLs and any limits, events and timers:

* `ReadingListTypes`: `Spec => []TypeOK`; in particular the failures counted stay below the limit (`TriesLeft`), though
  nothing caps the counter.
* `TasksInTurn`: the downloader's `InTurn`, that the deletions of a URL come before its one download, and that each step is
  about the URL of its task or, from the fetch of a PDF file on, the one the page moved to.
* `NoReadDownloads`, `RemovedPagesAreDeleted`: `QueuedIsUnread` and `RemovedPagesGo`.
* `DownloaderImplementsPages`: `Spec => KeepsPagesPromise`, the refinement.
* `AvailableIsOnDisk`, `GivesUpInTheEnd`, `NoSecondDownload`: `ProcessedHasPage`, `GivesUpAfterAllTries` and
  `OrdinarilyStaysAvailable`, which are about the ordinary case; 2.5 names the two cases `AvailableIsOnDisk` leaves out
  in which the code loses a page.
* `RetriesStartAfresh`: `RetryStartsAfresh`, if `LatePdf = FALSE`. With it the code does leave a partial directory (2.5).

The invariant `IInv` says of the downloader that its queue is in order (`DInv`) and of each URL (`Fine`) that a download that
has begun of a removed entry is followed by a deletion, that what such an entry has on disk is due to be deleted or
swept, and that nothing queued is read. For the refinement each action maps to a step of `OfflinePages`
or a stutter; the end of a task and the beginning of the next are one step, `Proceed`.

In the ordinary case `OrdinaryInv` adds `Orderly`. Of each URL it says that it has one download at most, as a timer, in the
queue or begun, and in which state its entry then is (`OneDownload`), and what the entry's state says about the disk
(`Stored`): two downloads of one entry are what takes back a page that is available. That the sweep, launches and
the two sources of network state schedule no second one is `NothingMeanwhile`: there is no download until the sweep is
over, nor when a change of the network arrives. `Exact` says that a download that ends tells what is on disk of
its URL. The parts that fail when a redirected page turns into a PDF are conditional on `~LatePdf`.

## 4. What is only model-checked

* Liveness, which is out of the prover's reach: `EveryRequestGetsItsTurn`, `DownloadEnds`, `QueueGoesOn`,
  `ProgressEnds`, `EntryIsSettled`.

All invariants and action properties of the runs are proved as well, under the conditions named in section 3. The runs stay:
they are what showed each formula true of small instances, and with the mutants what it forbids.

`findings` in `PROJECT.json` lists five disagreements between the code and its documentation, comments or assertions, each
the counterexample of a run; sections 2.2 to 2.5 name the others met on the way.

## 5. Not modelled

The models stand for about two thousand lines of the repository's logic, most of it in Objective-C++ files
(`.mm`), and leave the rest:

* *Protocols of the same kind, worth a module each.* **Find in page**: a request's identifier guards the frames' answers
  to a search, but neither the answer to a selection (`SelectDidFinish`, find_in_page_manager_impl.mm:228) nor the posted
  completion of a search without frames (:115), so that an answer that is late changes the counts and
  the index of the next search. **HTTP protocol handler** (a request against the thread of its client), **browsing data
  remover** (a queue of tasks like `URLDownloader`'s), **session service** and **snapshot cache** (writes that replace pending
  writes). They were left out in favour of the components in which more parties take part.
* *Half of the state is elsewhere.* Navigation manager, error page navigation, web controller: WKWebView's history
  and the order of its callbacks belong to WebKit, and the source assumes more about it than it says.
  Cookie store: the cookie monster and the system's store are outside the repository. Tab restore, autofill,
  passwords, translate, sign-in: adapters of `components/`, which is not in the repository.
* *Little protocol.* Application state and prerendering (driven by UIKit; what they do to tabs is modelled), infobars, app
  launcher and JavaScript dialogs (clients of the overlays' queues), fullscreen (geometry), view controllers,
  settings, flags, preferences, Web UI, build scripts.

Within what is modelled: an observer that calls back into the list (`ReplaceWebStateAt` and `ActivateWebStateAt`
take no lock, web_state_list.mm:253), the closed-tab entries the undo removes
(tab_grid_mediator.mm:420, the service is outside the repository) and observers that support no overlay request
(overlay_presenter_impl.mm:207) are hazards without a property. So are those that the model reaches and in which the code
fails, with no run to show it: a failing write (2.3), a capability change during a dismissal (2.2), the directory of a replaced
download and the second confirmation (2.4). Sections 2.2 to 2.5 say which liberty, interference or constant shows each.
