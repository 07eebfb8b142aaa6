--------------------------- MODULE DownloadManager ---------------------------
(***************************************************************************)
(* The download manager of a browser: the DownloadManagerTabHelper of each *)
(* tab, which owns the tab's download, and the one                         *)
(* DownloadManagerCoordinator with its mediator, which show the download   *)
(* of the visible tab in a panel.                                          *)
(*                                                                         *)
(* Before a download starts the mediator has a directory made and a file   *)
(* opened by background threads; their replies come in any order with what *)
(* tabs and pages do meanwhile.  The mediator is not told when the         *)
(* coordinator stops.                                                      *)
(*                                                                         *)
(* A confirmation is an alert over the whole browser: taps go nowhere else *)
(* until it is answered or dismissed, and UIKit presents no second one.    *)
(* Programs go on: pages finish, open and close tabs, and ask for          *)
(* downloads.  A call that the code does not survive ends the behaviour    *)
(* with "fault" set.                                                       *)
(***************************************************************************)
EXTENDS Naturals, Folds, Functions

CONSTANTS
  None,      \* nullptr
  Tabs,      \* the tabs of the browser, all in the background at first
  Tasks,     \* the downloads it may create, numbered in that order
  MaxStarts  \* bound on the pending starts

ASSUME NoneAssumption == None \notin Tabs \union Tasks
ASSUME TasksAssumption == Tasks \subseteq Nat
ASSUME MaxStartsAssumption == MaxStarts \in Nat \ {0}

VARIABLES
  tabs,      \* what became of each tab
  task,      \* task_ of each tab helper
  download,  \* the state of each web::DownloadTask
  panel,     \* _downloadTask, and the state _viewController shows
  mediator,  \* task_ of the mediator
  starts,    \* the pending replies to the mediator, for each download
  refused,   \* the downloads whose last start failed before it began
  dialog,    \* the confirmation on screen
  ordinary,  \* whether nothing interferes with starts and confirmations
  fault      \* the call the code did not survive

vars == << tabs, task, download, panel, mediator, starts, refused, dialog,
           ordinary, fault >>

Downloads == Tasks \union {None}

\* "held" if the dialog is _confirmationDialog, the one -stop dismisses.
Dialogs ==
  [kind : {"none", "cancel", "replace"}, tab : Tabs \union {None},
   of : Downloads, held : BOOLEAN]

NoDialog == [kind |-> "none", tab |-> None, of |-> None, held |-> FALSE]

NoPanel == [task |-> None, shows |-> "none"]

States == {"notStarted", "inProgress", "succeeded", "failed"}

TypeOK ==
  /\ tabs \in [Tabs -> {"hidden", "shown", "gone"}]
  /\ task \in [Tabs -> Downloads]
  /\ download \in [Tasks -> States \union {"new", "asked", "gone"}]
  /\ panel \in [task : Downloads, shows : States \union {"none"}]
  /\ mediator \in Downloads
  /\ starts \in [Tasks -> [directory : Nat, writer : Nat]]
  /\ refused \subseteq Tasks
  /\ dialog \in Dialogs
  /\ ordinary \in BOOLEAN
  /\ fault \in {"none", "started twice", "no download", "other download",
                "closed tab", "assertion"}

Init ==
  /\ tabs = [tab \in Tabs |-> "hidden"]
  /\ task = [tab \in Tabs |-> None]
  /\ download = [t \in Tasks |-> "new"]
  /\ panel = NoPanel /\ mediator = None
  /\ starts = [t \in Tasks |-> [directory |-> 0, writer |-> 0]]
  /\ refused = {}
  /\ dialog = NoDialog
  /\ ordinary \in BOOLEAN
  /\ fault = "none"

Running == fault = "none"

Fault(kind) ==
  /\ fault' = kind
  /\ UNCHANGED << tabs, task, download, panel, mediator, starts, refused,
                  dialog, ordinary >>

Pending(t) == t # None /\ starts[t].directory + starts[t].writer > 0

PendingStarts ==
  FoldFunction(LAMBDA s, n : s.directory + s.writer + n, 0, starts)

Open(tab) == tabs[tab] \in {"hidden", "shown"}

\* A download controller creates a task.
Created(t) ==
  download[t] = "new" /\ \A x \in Tasks : x < t => download[x] # "new"

VisibleTab == {tab \in Tabs : tabs[tab] = "shown"}

-----------------------------------------------------------------------------
(* The coordinator and the mediator.                                       *)

\* UpdateConsumer: the consumer is the view controller, if there is one.
Shown(p, state) == IF p.shows = "none" THEN p ELSE [p EXCEPT !.shows = state]

\* OnDownloadDestroyed.
WithoutTask(t) == IF mediator = t THEN None ELSE mediator

\* -start: a new view controller shows the state of the download.
Start(t) ==
  /\ panel' = [task |-> t, shows |-> download'[t]]
  /\ mediator' = t

\* Mutant: the panel keeps its download.
Stop_KeepsTask ==
  /\ panel' = [panel EXCEPT !.shows = "none"]
  /\ dialog' = IF dialog.held THEN NoDialog ELSE dialog

\* -stop.  A dialog that is not the last one asked for stays.
Stop ==
  /\ panel' = NoPanel
  /\ dialog' = IF dialog.held THEN NoDialog ELSE dialog

\* downloadManagerTabHelper:didCreateDownload:webStateIsVisible:
DelegateCreatedDownload(t, old, visible) ==
  IF ~visible THEN mediator' = WithoutTask(old) /\ UNCHANGED panel
  ELSE IF panel.task = None THEN Start(t)
  ELSE /\ panel' = Shown([panel EXCEPT !.task = t], "notStarted")
       /\ mediator' = t

\* runConfirmationDialogWithTitle: a second dialog is not presented, and none
\* is while the tab grid covers the browser.
MayPresent == dialog.kind = "none" /\ VisibleTab # {}

-----------------------------------------------------------------------------
(* The tab helper.                                                         *)

\* The tab's download is replaced, and with it destroyed.
DidCreateDownload(tab, t) ==
  /\ task' = [task EXCEPT ![tab] = t]
  /\ download' = [x \in Tasks |-> IF x = t THEN "notStarted"
                                  ELSE IF x = task[tab] THEN "gone"
                                  ELSE download[x]]
  /\ DelegateCreatedDownload(t, task[tab], tabs[tab] = "shown")

FirstDownload(tab, t) ==
  /\ Running /\ Open(tab) /\ Created(t) /\ task[tab] = None
  /\ DidCreateDownload(tab, t)
  /\ UNCHANGED << tabs, starts, refused, dialog, ordinary, fault >>

\* Neither a link nor typed.
DropDownload(tab, t) ==
  /\ Running /\ Open(tab) /\ Created(t) /\ task[tab] # None
  /\ download' = [download EXCEPT ![t] = "gone"]
  /\ UNCHANGED << tabs, task, panel, mediator, starts, refused, dialog,
                  ordinary, fault >>

\* The task of the dialog goes with its handler.
WithoutAsked ==
  [t \in Tasks |-> IF download[t] = "asked" THEN "gone" ELSE download[t]]

\* That of a dialog that is not presented goes at once.
AskToReplace(tab, t) ==
  /\ Running /\ Open(tab) /\ Created(t) /\ task[tab] # None
  /\ ordinary => dialog.kind = "none"
  /\ \/ /\ MayPresent
        /\ dialog' = [kind |-> "replace", tab |-> tab, of |-> t, held |-> TRUE]
        /\ download' = [download EXCEPT ![t] = "asked"]
     \/ /\ ~MayPresent
        /\ dialog' = [dialog EXCEPT !.held = FALSE]
        /\ download' = [download EXCEPT ![t] = "gone"]
  /\ UNCHANGED << tabs, task, panel, mediator, starts, refused, ordinary, fault >>

\* The handler calls the tab helper, whatever became of it.
ConfirmReplace ==
  /\ Running /\ dialog.kind = "replace"
  /\ ordinary => ~Pending(task[dialog.tab])
  /\ IF ~Open(dialog.tab) THEN Fault("closed tab")
     ELSE /\ DidCreateDownload(dialog.tab, dialog.of)
          /\ dialog' = NoDialog
          /\ UNCHANGED << tabs, starts, refused, ordinary, fault >>

Decline ==
  /\ Running /\ dialog.kind # "none"
  /\ download' = WithoutAsked
  /\ dialog' = NoDialog
  /\ UNCHANGED << tabs, task, panel, mediator, starts, refused, ordinary, fault >>

\* Mutant: the panel of a hidden tab stays.
WasHidden_StaysUp(tab) ==
  /\ Running /\ tabs[tab] = "shown"
  /\ ordinary => ~Pending(task[tab])
  /\ tabs' = [tabs EXCEPT ![tab] = "hidden"]
  /\ UNCHANGED << task, download, panel, mediator, starts, refused, dialog,
                  ordinary, fault >>

WasHidden(tab) ==
  /\ Running /\ tabs[tab] = "shown"
  /\ ordinary => ~Pending(task[tab])
  /\ IF task[tab] # None /\ panel.task # task[tab] THEN Fault("assertion")
     ELSE /\ tabs' = [tabs EXCEPT ![tab] = "hidden"]
          /\ IF task[tab] # None
             THEN Stop /\ download' = IF dialog.held THEN WithoutAsked ELSE download
             ELSE UNCHANGED << panel, dialog, download >>
          /\ UNCHANGED << task, mediator, starts, refused, ordinary, fault >>

\* A tab is shown once no other is.
WasShown(tab) ==
  /\ Running /\ tabs[tab] = "hidden" /\ VisibleTab = {}
  /\ IF task[tab] # None /\ panel.task = task[tab] THEN Fault("assertion")
     ELSE /\ tabs' = [tabs EXCEPT ![tab] = "shown"]
          /\ UNCHANGED download
          /\ IF task[tab] # None THEN Start(task[tab])
             ELSE UNCHANGED << panel, mediator >>
          /\ UNCHANGED << task, starts, refused, dialog, ordinary, fault >>

\* A tab is hidden before it is destroyed.
WebStateDestroyed(tab) ==
  /\ Running /\ tabs[tab] = "hidden"
  /\ ordinary => dialog.tab # tab
  /\ tabs' = [tabs EXCEPT ![tab] = "gone"]
  /\ task' = [task EXCEPT ![tab] = None]
  /\ download' = [t \in Tasks |-> IF t = task[tab] THEN "gone" ELSE download[t]]
  /\ mediator' = WithoutTask(task[tab])
  /\ UNCHANGED << panel, starts, refused, dialog, ordinary, fault >>

-----------------------------------------------------------------------------
(* Cancelling.                                                             *)

\* DownloadTask::Cancel, at which the tab helper destroys its task.
Cancel(t) ==
  /\ task' = [tab \in Tabs |-> IF task[tab] = t THEN None ELSE task[tab]]
  /\ download' = [download EXCEPT ![t] = "gone"]
  /\ mediator' = WithoutTask(t)

\* downloadManagerViewControllerDidClose:
TapClose ==
  /\ Running /\ panel.shows # "none" /\ dialog.kind = "none"
  /\ IF download[panel.task] = "inProgress"
     THEN /\ dialog' = [kind |-> "cancel", tab |-> None, of |-> panel.task,
                        held |-> TRUE]
          /\ UNCHANGED << task, download, panel, mediator >>
     ELSE Stop /\ Cancel(panel.task)
  /\ UNCHANGED << tabs, starts, refused, ordinary, fault >>

\* -cancelDownload cancels the download that is shown by now.
ConfirmCancel ==
  /\ Running /\ dialog.kind = "cancel"
  /\ IF panel.task = None THEN Fault("no download")
     ELSE IF panel.task # dialog.of THEN Fault("other download")
     ELSE /\ panel' = NoPanel /\ dialog' = NoDialog
          /\ Cancel(panel.task)
          /\ UNCHANGED << tabs, starts, refused, ordinary, fault >>

-----------------------------------------------------------------------------
(* Starting.                                                               *)

\* StartDowloading: from the button that a download in progress hides.
StartDowloading ==
  /\ Running /\ panel.shows \in {"notStarted", "failed"} /\ dialog.kind = "none"
  /\ PendingStarts < MaxStarts
  /\ \/ /\ panel' = Shown(panel, "failed")
        /\ refused' = refused \union {mediator}
        /\ UNCHANGED starts
     \/ /\ panel' = Shown(panel, "inProgress")
        /\ refused' = refused \ {mediator}
        /\ starts' = [starts EXCEPT ![mediator].directory = @ + 1]
  /\ UNCHANGED << tabs, task, download, mediator, dialog, ordinary, fault >>

\* The reply is looked at before the download is.
DownloadWithDestinationDir(t, created) ==
  /\ Running /\ starts[t].directory > 0
  /\ ordinary /\ mediator # t => created
  /\ \/ /\ ~created
        /\ panel' = Shown(panel, "failed") /\ refused' = refused \union {t}
        /\ starts' = [starts EXCEPT ![t].directory = @ - 1]
     \/ /\ created /\ mediator # t
        /\ starts' = [starts EXCEPT ![t].directory = @ - 1]
        /\ UNCHANGED << panel, refused >>
     \/ /\ created /\ mediator = t
        /\ starts' = [starts EXCEPT ![t] = [directory |-> @.directory - 1,
                                            writer |-> @.writer + 1]]
        /\ UNCHANGED << panel, refused >>
  /\ UNCHANGED << tabs, task, download, mediator, dialog, ordinary, fault >>

WriterReplied(t) ==
  /\ starts' = [starts EXCEPT ![t].writer = @ - 1]
  /\ UNCHANGED << tabs, task, mediator, dialog, ordinary, fault >>

\* Mutant: a file that cannot be opened is not reported.
DownloadWithWriter_Silent(t, ok) ==
  /\ Running /\ starts[t].writer > 0
  /\ IF ok /\ mediator = t /\ download[t] = "inProgress"
     THEN Fault("started twice")
     ELSE /\ WriterReplied(t)
          /\ UNCHANGED << panel, refused >>
          /\ download' = IF ok /\ mediator = t
                         THEN [download EXCEPT ![t] = "inProgress"] ELSE download

\* Mutant: a replaced download is not ignored.
DownloadWithWriter_StartsAll(t, ok) ==
  /\ Running /\ starts[t].writer > 0
  /\ IF ok /\ download[t] \in {"inProgress", "gone"} THEN Fault("started twice")
     ELSE /\ WriterReplied(t)
          /\ IF ok THEN /\ download' = [download EXCEPT ![t] = "inProgress"]
                        /\ UNCHANGED << panel, refused >>
             ELSE /\ panel' = Shown(panel, "failed")
                  /\ refused' = refused \union {t}
                  /\ UNCHANGED download

\* DownloadTask::Start tells no observer; it must not be in progress.
DownloadWithWriter(t, ok) ==
  /\ Running /\ starts[t].writer > 0
  /\ IF ok /\ mediator = t /\ download[t] = "inProgress"
     THEN Fault("started twice")
     ELSE /\ WriterReplied(t)
          /\ \/ /\ mediator # t
                /\ UNCHANGED << panel, refused, download >>
             \/ /\ mediator = t /\ ok
                /\ download' = [download EXCEPT ![t] = "inProgress"]
                /\ UNCHANGED << panel, refused >>
             \/ /\ mediator = t /\ ~ok
                /\ panel' = Shown(panel, "failed")
                /\ refused' = refused \union {t}
                /\ UNCHANGED download

-----------------------------------------------------------------------------
(* The download goes on.                                                   *)

\* Mutant: the panel does not follow its download.
OnDownloadUpdated_Silent(t) == UNCHANGED panel

\* What the observing mediator does.
OnDownloadUpdated(t) ==
  panel' = IF mediator = t THEN Shown(panel, download'[t]) ELSE panel

\* The cookies are read, or bytes have come.
Progress(t) ==
  /\ Running /\ download[t] = "inProgress"
  /\ UNCHANGED download
  /\ OnDownloadUpdated(t)
  /\ UNCHANGED << tabs, task, mediator, starts, refused, dialog, ordinary, fault >>

Complete(t) ==
  /\ Running /\ download[t] = "inProgress"
  /\ \E state \in {"succeeded", "failed"} :
       download' = [download EXCEPT ![t] = state]
  /\ OnDownloadUpdated(t)
  /\ UNCHANGED << tabs, task, mediator, starts, refused, dialog, ordinary, fault >>

-----------------------------------------------------------------------------
Next ==
  \/ \E tab \in Tabs :
       \/ WasShown(tab) \/ WasHidden(tab)
       \/ WebStateDestroyed(tab)
       \/ \E t \in Tasks :
            FirstDownload(tab, t) \/ DropDownload(tab, t) \/ AskToReplace(tab, t)
  \/ ConfirmReplace \/ Decline \/ TapClose \/ ConfirmCancel \/ StartDowloading
  \/ \E t \in Tasks :
       \/ \E b \in BOOLEAN :
            DownloadWithDestinationDir(t, b) \/ DownloadWithWriter(t, b)
       \/ Progress(t) \/ Complete(t)

\* Background threads reply and downloads end (DownloadTask's DownloadEnds).
Fairness ==
  \A t \in Tasks :
    /\ WF_vars(\E b \in BOOLEAN : DownloadWithDestinationDir(t, b))
    /\ WF_vars(\E b \in BOOLEAN : DownloadWithWriter(t, b))
    /\ WF_vars(Complete(t))

Spec == Init /\ [][Next]_vars /\ Fairness

-----------------------------------------------------------------------------
(* What must hold.                                                         *)

(***************************************************************************)
(* The panel is there exactly while the visible tab has a download, and it *)
(* and the mediator are about that download; none holds a download that    *)
(* was destroyed (the DCHECKs of didHideDownload and didShowDownload).     *)
(***************************************************************************)
PanelIsOfVisibleTab ==
  Running =>
    /\ panel.task = None <=> panel.shows = "none"
    /\ panel.task # None =>
         /\ mediator = panel.task
         /\ \E tab \in VisibleTab : task[tab] = panel.task
    /\ \A tab \in VisibleTab : task[tab] = panel.task
    /\ mediator # None => \E tab \in Tabs : task[tab] = mediator

(***************************************************************************)
(* What the panel shows is so: a download is reported as succeeded when it *)
(* has, as in progress while it or its start is under way, and as failed   *)
(* when it or its start failed, not that of another (UpdateConsumer).      *)
(***************************************************************************)
PanelIsTrue ==
  Running /\ panel.task # None =>
    LET t == panel.task IN
    /\ panel.shows = "inProgress" => download[t] = "inProgress" \/ Pending(t)
    /\ ordinary =>
         /\ panel.shows = "succeeded" <=> download[t] = "succeeded"
         /\ panel.shows = "failed" => download[t] = "failed" \/ t \in refused

(***************************************************************************)
(* A download in progress is never started again                           *)
(* (DCHECK_NE(state_, State::kInProgress) in DownloadTaskImpl::Start).     *)
(***************************************************************************)
NeverStartedTwice == fault # "started twice"

(***************************************************************************)
(* Without interference no such call is made: nothing in progress is       *)
(* started, a confirmation reaches the tab it was asked for, and stopping  *)
(* a download stops the one that was shown when the user was asked.        *)
(***************************************************************************)
NoFault == ordinary => Running

(***************************************************************************)
(* The panel shows no progress for ever: the start of its download fails   *)
(* or the download ends, and the panel is told, unless another download or *)
(* tab takes its place.                                                    *)
(***************************************************************************)
ProgressEnds ==
  \A t \in Tasks :
    panel = [task |-> t, shows |-> "inProgress"] ~>
      panel # [task |-> t, shows |-> "inProgress"] \/ ~Running
=============================================================================
