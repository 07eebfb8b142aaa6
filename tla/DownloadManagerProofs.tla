------------------------ MODULE DownloadManagerProofs ------------------------
(***************************************************************************)
(* Theorems about DownloadManager, for any tabs and downloads: the panel   *)
(* is that of the visible tab and tells the truth, no DCHECK of the        *)
(* coordinator fails, and without interference nothing does.               *)
(***************************************************************************)
EXTENDS DownloadManager, TLAPS

\* A download has one owner, an open tab; one tab at most is visible.
Owners ==
  /\ \A tab \in Tabs :
       task[tab] # None => Open(tab) /\ download[task[tab]] \in States
  /\ \A a, b \in Tabs : task[a] = task[b] /\ task[a] # None => a = b
  /\ \A a, b \in VisibleTab : a = b

PanelInv ==
  /\ panel.task = None <=> panel.shows = "none"
  /\ panel.task # None =>
       /\ mediator = panel.task
       /\ \E tab \in VisibleTab : task[tab] = panel.task
  /\ \A tab \in VisibleTab : task[tab] = panel.task
  /\ mediator # None => \E tab \in Tabs : task[tab] = mediator

DialogInv ==
  /\ dialog.kind = "none" => dialog = NoDialog
  /\ dialog.kind = "cancel" => dialog.of \in Tasks
  /\ dialog.kind = "replace" =>
       dialog.of \in Tasks /\ dialog.tab \in Tabs /\ download[dialog.of] = "asked"

ProgressInv ==
  panel.task # None /\ panel.shows = "inProgress" =>
    download[panel.task] = "inProgress" \/ Pending(panel.task)

\* Without interference a start is pending of the download that is shown, once,
\* or of one that has been cancelled.
StartsInv ==
  \A t \in Tasks :
    Pending(t) =>
      \/ download[t] = "gone"
      \/ /\ panel = [task |-> t, shows |-> "inProgress"]
         /\ download[t] \in {"notStarted", "failed"}
         /\ starts[t].directory + starts[t].writer = 1

ShownInv ==
  panel.task # None =>
    /\ panel.shows = "succeeded" <=> download[panel.task] = "succeeded"
    /\ panel.shows = "failed" =>
         download[panel.task] = "failed" \/ panel.task \in refused
    /\ download[panel.task] = "inProgress" => panel.shows = "inProgress"

AnswersInv ==
  /\ dialog.kind # "none" => dialog.held
  /\ dialog.kind = "replace" => Open(dialog.tab)
  /\ dialog.kind = "cancel" => panel.task = dialog.of

OrdinaryInv == ordinary => StartsInv /\ ShownInv /\ AnswersInv /\ fault = "none"

IInv ==
  /\ TypeOK /\ Owners /\ PanelInv /\ DialogInv /\ ProgressInv /\ OrdinaryInv
  /\ fault # "assertion"

-----------------------------------------------------------------------------
(* Some consequences.                                                      *)

\* Nothing is no download and no tab.
LEMMA NoneIsNoTask == None \notin Tasks /\ None \notin Tabs
  BY NoneAssumption

LEMMA Types ==
  ASSUME IInv
  PROVE  /\ panel.task \in Downloads /\ panel.shows \in States \union {"none"}
         /\ mediator \in Downloads
         /\ panel = [task |-> panel.task, shows |-> panel.shows]
         /\ dialog.kind \in {"none", "cancel", "replace"} /\ dialog.held \in BOOLEAN
         /\ dialog.tab \in Tabs \union {None} /\ dialog.of \in Downloads
         /\ \A tab \in Tabs : task[tab] \in Downloads
  BY DEF IInv, TypeOK, Dialogs

\* Whoever the mediator or the panel is about is owned by an open tab.
LEMMA Owned ==
  ASSUME IInv
  PROVE  /\ mediator # None => mediator \in Tasks /\ download[mediator] \in States
         /\ panel.task # None =>
              panel.task \in Tasks /\ download[panel.task] \in States
         /\ \A tab \in Tabs :
              task[tab] # None => task[tab] \in Tasks /\ download[task[tab]] \in States
  BY Types DEF IInv, Owners, PanelInv, VisibleTab, Downloads

LEMMA StateNames ==
  /\ "new" \notin States /\ "asked" \notin States /\ "gone" \notin States
  /\ "none" \notin States
  /\ "notStarted" \in States /\ "inProgress" \in States /\ "failed" \in States
  /\ "succeeded" \in States
  BY DEF States

\* A step that leaves a download alone leaves its pending start alone.
LEMMA SamePending ==
  ASSUME UNCHANGED starts
  PROVE  \A t : Pending(t)' <=> Pending(t)
  BY DEF Pending

\* What is left alone.
LEMMA Stutter ==
  ASSUME IInv, UNCHANGED << tabs, task, download, panel, mediator, starts, refused,
                            dialog, ordinary, fault >>
  PROVE  IInv'
<1>1. TypeOK' /\ fault' # "assertion"
  BY DEF IInv, TypeOK
<1>2. Owners'
  BY DEF IInv, Owners, Open, VisibleTab
<1>3. PanelInv'
  BY DEF IInv, PanelInv, VisibleTab
<1>4. DialogInv' /\ ProgressInv'
  BY DEF IInv, DialogInv, ProgressInv, Pending
<1>5. OrdinaryInv'
  BY DEF IInv, OrdinaryInv, StartsInv, ShownInv, AnswersInv, Pending, Open
<1> QED
  BY <1>1, <1>2, <1>3, <1>4, <1>5 DEF IInv

\* A call that the code does not survive changes nothing else.
LEMMA FaultIInv ==
  ASSUME IInv, ~ordinary, NEW kind, Fault(kind),
         kind \in {"started twice", "no download", "other download", "closed tab"}
  PROVE  IInv'
<1>1. /\ fault' = kind
      /\ UNCHANGED << tabs, task, download, panel, mediator, starts, refused, dialog,
                      ordinary >>
  BY DEF Fault
<1>2. TypeOK' /\ fault' # "assertion"
  BY <1>1 DEF IInv, TypeOK
<1>3. Owners'
  BY <1>1 DEF IInv, Owners, Open, VisibleTab
<1>4. PanelInv'
  BY <1>1 DEF IInv, PanelInv, VisibleTab
<1>5. DialogInv' /\ ProgressInv' /\ ~ordinary'
  BY <1>1 DEF IInv, DialogInv, ProgressInv, Pending
<1> QED
  BY <1>2, <1>3, <1>4, <1>5 DEF IInv, OrdinaryInv

-----------------------------------------------------------------------------
(* A tab gets a download.                                                  *)

LEMMA DidCreateDownloadEffect ==
  ASSUME IInv, NEW tab \in Tabs, NEW t \in Tasks, Open(tab),
         download[t] \in {"new", "asked"}, DidCreateDownload(tab, t)
  PROVE  /\ task' = [task EXCEPT ![tab] = t]
         /\ download' = [x \in Tasks |-> IF x = t THEN "notStarted"
                                         ELSE IF x = task[tab] THEN "gone"
                                         ELSE download[x]]
         /\ tabs[tab] = "shown" =>
              panel' = [task |-> t, shows |-> "notStarted"] /\ mediator' = t
         /\ tabs[tab] # "shown" => panel' = panel /\ mediator' = WithoutTask(task[tab])
<1>1. download'[t] = "notStarted"
  BY DEF DidCreateDownload
<1>2. panel.task # None =>
        Shown([panel EXCEPT !.task = t], "notStarted") = [task |-> t, shows |-> "notStarted"]
  BY Types, NoneIsNoTask DEF Shown, IInv, PanelInv
<1> QED
  BY <1>1, <1>2 DEF DidCreateDownload, DelegateCreatedDownload, Start

LEMMA DidCreateDownloadKeeps ==
  ASSUME IInv, NEW tab \in Tabs, NEW t \in Tasks, Open(tab),
         download[t] \in {"new", "asked"}, DidCreateDownload(tab, t),
         UNCHANGED << tabs, starts, refused, ordinary, fault >>,
         dialog' \in Dialogs, DialogInv', ordinary => AnswersInv'
  PROVE  IInv'
<1>1. /\ task' = [task EXCEPT ![tab] = t]
      /\ download' = [x \in Tasks |-> IF x = t THEN "notStarted"
                                      ELSE IF x = task[tab] THEN "gone"
                                      ELSE download[x]]
      /\ tabs[tab] = "shown" =>
           panel' = [task |-> t, shows |-> "notStarted"] /\ mediator' = t
      /\ tabs[tab] # "shown" => panel' = panel /\ mediator' = WithoutTask(task[tab])
  BY DidCreateDownloadEffect
<1>2. download[t] \notin States /\ t # None
  BY NoneIsNoTask, StateNames
<1>3. \A a \in Tabs : task[a] # t
  BY <1>2, Owned
<1>4. TypeOK'
  <2>1. task' \in [Tabs -> Downloads]
    BY <1>1 DEF IInv, TypeOK, Downloads
  <2>2. download' \in [Tasks -> States \union {"new", "asked", "gone"}]
    BY <1>1, StateNames DEF IInv, TypeOK
  <2>3. /\ panel' \in [task : Downloads, shows : States \union {"none"}]
        /\ mediator' \in Downloads
    <3>1. CASE tabs[tab] = "shown"
      BY <1>1, <3>1, StateNames DEF Downloads
    <3>2. CASE tabs[tab] # "shown"
      BY <1>1, <3>2 DEF IInv, TypeOK, Downloads, WithoutTask
    <3> QED
      BY <3>1, <3>2
  <2> QED
    BY <2>1, <2>2, <2>3 DEF IInv, TypeOK
<1>5. Owners'
  <2>1. task'[tab] = t /\ \A a \in Tabs \ {tab} : task'[a] = task[a]
    BY <1>1 DEF IInv, TypeOK
  <2>2. \A a \in Tabs \ {tab} : task[a] # None =>
          task[a] # task[tab] /\ download'[task[a]] = download[task[a]]
    BY <1>1, <1>3, Owned DEF IInv, Owners
  <2>3. download'[t] \in States
    BY <1>1, StateNames
  <2> QED
    BY <1>2, <1>3, <2>1, <2>2, <2>3 DEF IInv, Owners, Open, VisibleTab
<1>6. PanelInv'
  <2>1. CASE tabs[tab] = "shown"
    <3>1. /\ panel'.task = t /\ panel'.shows = "notStarted" /\ mediator' = t
          /\ task'[tab] = t
      <4>1. task \in [Tabs -> Downloads]
        BY DEF IInv, TypeOK
      <4> QED
        BY <1>1, <2>1, <4>1
    <3>2. \A a \in VisibleTab' : a = tab
      BY <2>1 DEF IInv, Owners, VisibleTab
    <3>3. tab \in VisibleTab'
      BY <2>1 DEF VisibleTab
    <3> QED
      BY <1>2, <3>1, <3>2, <3>3 DEF PanelInv
  <2>2. CASE tabs[tab] # "shown"
    <3>1. panel' = panel /\ task'[tab] = t
          /\ \A a \in Tabs \ {tab} : task'[a] = task[a]
      BY <1>1, <2>2 DEF IInv, TypeOK
    <3>2. panel.task # None => panel.task # task[tab]
      BY <2>2 DEF IInv, Owners, PanelInv, VisibleTab
    <3>3. mediator' = IF mediator = task[tab] THEN None ELSE mediator
      BY <1>1, <2>2 DEF WithoutTask
    <3> QED
      BY <2>2, <3>1, <3>2, <3>3 DEF IInv, PanelInv, VisibleTab
  <2> QED
    BY <2>1, <2>2
<1>7. panel'.task # None =>
        \/ panel' = [task |-> t, shows |-> "notStarted"] /\ download'[t] = "notStarted"
        \/ panel' = panel /\ download'[panel.task] = download[panel.task]
  <2>1. CASE tabs[tab] # "shown"
    BY <1>1, <1>2, <2>1, Owned, Types DEF IInv, Owners, PanelInv, VisibleTab, Downloads
  <2> QED
    BY <1>1, <2>1
<1>8. ProgressInv'
  BY <1>7, SamePending DEF IInv, ProgressInv
<1>9. ordinary => StartsInv' /\ ShownInv'
  <2> SUFFICES ASSUME ordinary PROVE StartsInv' /\ ShownInv'
    OBVIOUS
  <2>1. StartsInv /\ ShownInv
    BY DEF IInv, OrdinaryInv
  <2>2. ASSUME NEW x \in Tasks, Pending(x), download'[x] # "gone"
        PROVE  panel' = panel /\ panel.task = x /\ download'[x] = download[x]
    <3>1. x # t
      BY <2>1, <2>2, StateNames, <1>2 DEF StartsInv, IInv, States
    <3>2. x # task[tab] /\ download'[x] = download[x]
      BY <1>1, <2>2, <3>1
    <3>3. panel.task = x
      BY <2>1, <2>2, <3>2 DEF StartsInv
    <3>4. tabs[tab] # "shown"
      BY <3>2, <3>3 DEF IInv, PanelInv, VisibleTab
    <3> QED
      BY <1>1, <3>2, <3>3, <3>4
  <2>3. StartsInv'
    BY <2>1, <2>2, SamePending DEF StartsInv
  <2>4. ShownInv'
    BY <1>7, <2>1, StateNames DEF ShownInv
  <2> QED
    BY <2>3, <2>4
<1> QED
  BY <1>4, <1>5, <1>6, <1>8, <1>9 DEF IInv, OrdinaryInv

LEMMA FirstDownloadIInv ==
  ASSUME IInv, NEW tab \in Tabs, NEW t \in Tasks, FirstDownload(tab, t)
  PROVE  IInv'
<1>1. /\ Open(tab) /\ download[t] = "new" /\ task[tab] = None
      /\ DidCreateDownload(tab, t)
      /\ UNCHANGED << tabs, starts, refused, dialog, ordinary, fault >>
  BY DEF FirstDownload, Created
<1>2. /\ tabs[tab] # "shown" => panel' = panel
      /\ download' = [x \in Tasks |-> IF x = t THEN "notStarted"
                                      ELSE IF x = task[tab] THEN "gone"
                                      ELSE download[x]]
  BY <1>1, DidCreateDownloadEffect
<1>3. DialogInv' /\ dialog' \in Dialogs
  <2>1. dialog.kind = "replace" => dialog.of # t
    BY <1>1 DEF IInv, DialogInv
  <2>2. dialog.kind = "replace" => dialog.of \in Tasks /\ dialog.of # task[tab]
    BY <1>1, NoneIsNoTask DEF IInv, DialogInv
  <2> QED
    BY <1>1, <1>2, <2>1, <2>2 DEF IInv, DialogInv, TypeOK
<1>4. ordinary => AnswersInv'
  <2>1. tabs[tab] = "shown" => panel.task = None
    BY <1>1 DEF IInv, PanelInv, VisibleTab
  <2>2. dialog.kind = "cancel" => dialog.of # None
    BY NoneIsNoTask DEF IInv, DialogInv
  <2> QED
    BY <1>1, <1>2, <2>1, <2>2 DEF IInv, OrdinaryInv, AnswersInv, Open
<1> QED
  BY <1>1, <1>3, <1>4, DidCreateDownloadKeeps

LEMMA ConfirmReplaceIInv ==
  ASSUME IInv, ConfirmReplace
  PROVE  IInv'
<1>1. /\ dialog.kind = "replace" /\ dialog.of \in Tasks /\ dialog.tab \in Tabs
      /\ download[dialog.of] = "asked"
  BY DEF ConfirmReplace, IInv, DialogInv
<1>2. CASE ~Open(dialog.tab)
  <2>1. Fault("closed tab")
    BY <1>2 DEF ConfirmReplace
  <2>2. ~ordinary
    BY <1>1, <1>2 DEF IInv, OrdinaryInv, AnswersInv
  <2> QED
    BY <2>1, <2>2, FaultIInv
<1>3. CASE Open(dialog.tab)
  <2>1. /\ DidCreateDownload(dialog.tab, dialog.of) /\ dialog' = NoDialog
        /\ UNCHANGED << tabs, starts, refused, ordinary, fault >>
    BY <1>3 DEF ConfirmReplace
  <2>2. NoDialog \in Dialogs /\ NoDialog.kind = "none"
    BY DEF NoDialog, Dialogs, Downloads
  <2>3. dialog' \in Dialogs /\ DialogInv' /\ AnswersInv'
    BY <2>1, <2>2 DEF DialogInv, AnswersInv
  <2> QED
    BY <1>1, <1>3, <2>1, <2>3, DidCreateDownloadKeeps
<1> QED
  BY <1>2, <1>3

-----------------------------------------------------------------------------
(* Downloads that no tab has yet.                                          *)

LEMMA OthersKeep ==
  ASSUME IInv, UNCHANGED << tabs, task, panel, mediator, starts, refused, ordinary, fault >>,
         download' \in [Tasks -> States \union {"new", "asked", "gone"}],
         \A x \in Tasks : \/ download'[x] = download[x]
                          \/ download[x] \in {"new", "asked"}
                             /\ download'[x] \in {"asked", "gone"},
         dialog' \in Dialogs, DialogInv', ordinary => AnswersInv'
  PROVE  IInv'
<1>1. \A x \in Tasks : download[x] \in States => download'[x] = download[x]
  BY StateNames
<1>2. TypeOK' /\ fault' # "assertion"
  BY DEF IInv, TypeOK
<1>3. Owners'
  BY <1>1, Owned DEF IInv, Owners, Open, VisibleTab
<1>4. PanelInv'
  BY DEF IInv, PanelInv, VisibleTab
<1>5. panel.task # None => download'[panel.task] = download[panel.task]
  BY <1>1, Owned
<1>6. ProgressInv' /\ (ordinary => ShownInv')
  BY <1>5, SamePending DEF IInv, ProgressInv, OrdinaryInv, ShownInv
<1>7. ordinary => StartsInv'
  <2> SUFFICES ASSUME ordinary, NEW x \in Tasks, Pending(x), download'[x] # "gone"
               PROVE  /\ panel = [task |-> x, shows |-> "inProgress"]
                      /\ download'[x] \in {"notStarted", "failed"}
                      /\ starts[x].directory + starts[x].writer = 1
    BY SamePending DEF StartsInv
  <2>1. \/ download[x] = "gone"
        \/ /\ panel = [task |-> x, shows |-> "inProgress"]
           /\ download[x] \in {"notStarted", "failed"}
           /\ starts[x].directory + starts[x].writer = 1
    BY DEF IInv, OrdinaryInv, StartsInv
  <2> QED
    BY <2>1
<1> QED
  BY <1>2, <1>3, <1>4, <1>6, <1>7 DEF IInv, OrdinaryInv

LEMMA DropDownloadIInv ==
  ASSUME IInv, NEW tab \in Tabs, NEW t \in Tasks, DropDownload(tab, t)
  PROVE  IInv'
<1>1. /\ download[t] = "new" /\ download' = [download EXCEPT ![t] = "gone"]
      /\ UNCHANGED << tabs, task, panel, mediator, starts, refused, dialog, ordinary, fault >>
  BY DEF DropDownload, Created
<1>2. download' \in [Tasks -> States \union {"new", "asked", "gone"}]
  BY <1>1 DEF IInv, TypeOK
<1>3. \A x \in Tasks : \/ download'[x] = download[x]
                       \/ download[x] \in {"new", "asked"}
                          /\ download'[x] \in {"asked", "gone"}
  BY <1>1 DEF IInv, TypeOK
<1>4. dialog' \in Dialogs /\ DialogInv'
  BY <1>1 DEF IInv, TypeOK, DialogInv
<1>5. ordinary => AnswersInv'
  BY <1>1 DEF IInv, OrdinaryInv, AnswersInv, Open
<1> QED
  BY <1>1, <1>2, <1>3, <1>4, <1>5, OthersKeep

LEMMA AskToReplaceIInv ==
  ASSUME IInv, NEW tab \in Tabs, NEW t \in Tasks, AskToReplace(tab, t)
  PROVE  IInv'
<1>1. /\ Open(tab) /\ download[t] = "new" /\ (ordinary => dialog.kind = "none")
      /\ UNCHANGED << tabs, task, panel, mediator, starts, refused, ordinary, fault >>
  BY DEF AskToReplace, Created
<1>2. \/ /\ dialog.kind = "none"
         /\ dialog' = [kind |-> "replace", tab |-> tab, of |-> t, held |-> TRUE]
         /\ download' = [download EXCEPT ![t] = "asked"]
      \/ /\ dialog' = [dialog EXCEPT !.held = FALSE]
         /\ download' = [download EXCEPT ![t] = "gone"]
  BY DEF AskToReplace, MayPresent
<1>3. download' \in [Tasks -> States \union {"new", "asked", "gone"}]
  BY <1>2 DEF IInv, TypeOK
<1>4. \A x \in Tasks : \/ download'[x] = download[x]
                       \/ download[x] \in {"new", "asked"}
                          /\ download'[x] \in {"asked", "gone"}
  BY <1>1, <1>2 DEF IInv, TypeOK
<1>5. dialog' \in Dialogs /\ DialogInv' /\ (ordinary => AnswersInv')
  <2>1. CASE /\ dialog.kind = "none"
             /\ dialog' = [kind |-> "replace", tab |-> tab, of |-> t, held |-> TRUE]
             /\ download' = [download EXCEPT ![t] = "asked"]
    <3>1. download'[t] = "asked"
      BY <2>1 DEF IInv, TypeOK
    <3>2. /\ dialog'.kind = "replace" /\ dialog'.of = t /\ dialog'.tab = tab
          /\ dialog'.held = TRUE
      BY <2>1
    <3>3. dialog' \in Dialogs
      BY <2>1 DEF Dialogs, Downloads
    <3> QED
      BY <1>1, <3>1, <3>2, <3>3 DEF DialogInv, AnswersInv, Open
  <2>2. CASE /\ dialog' = [dialog EXCEPT !.held = FALSE]
             /\ download' = [download EXCEPT ![t] = "gone"]
    <3>1. dialog \in Dialogs
      BY DEF IInv, TypeOK
    <3>2. /\ dialog'.kind = dialog.kind /\ dialog'.of = dialog.of
          /\ dialog'.tab = dialog.tab /\ dialog' \in Dialogs
      BY <2>2, <3>1 DEF Dialogs
    <3>3. ASSUME dialog.kind = "none" PROVE dialog' = NoDialog
      <4>1. dialog = NoDialog
        BY <3>3 DEF IInv, DialogInv
      <4>2. dialog'.held = FALSE
        BY <2>2, <3>1 DEF Dialogs
      <4>3. dialog' = [kind |-> dialog'.kind, tab |-> dialog'.tab, of |-> dialog'.of,
                       held |-> dialog'.held]
        BY <3>2 DEF Dialogs
      <4> QED
        BY <3>2, <4>1, <4>2, <4>3 DEF NoDialog
    <3>4. dialog.kind = "replace" =>
            dialog.of \in Tasks /\ dialog.tab \in Tabs /\ download'[dialog.of] = "asked"
      BY <1>1, <2>2 DEF IInv, DialogInv, TypeOK
    <3> QED
      BY <1>1, <3>2, <3>3, <3>4 DEF IInv, DialogInv, AnswersInv
  <2> QED
    BY <1>2, <2>1, <2>2
<1> QED
  BY <1>1, <1>3, <1>4, <1>5, OthersKeep

LEMMA WithoutAskedEffect ==
  ASSUME IInv, download' = WithoutAsked
  PROVE  /\ download' \in [Tasks -> States \union {"new", "asked", "gone"}]
         /\ \A x \in Tasks : \/ download'[x] = download[x]
                             \/ download[x] = "asked" /\ download'[x] = "gone"
  BY DEF WithoutAsked, IInv, TypeOK

LEMMA NoDialogType ==
  /\ NoDialog \in Dialogs /\ NoDialog.kind = "none"
  BY DEF NoDialog, Dialogs, Downloads

LEMMA DeclineIInv ==
  ASSUME IInv, Decline
  PROVE  IInv'
<1>1. /\ download' = WithoutAsked /\ dialog' = NoDialog
      /\ UNCHANGED << tabs, task, panel, mediator, starts, refused, ordinary, fault >>
  BY DEF Decline
<1>2. dialog' \in Dialogs /\ DialogInv' /\ AnswersInv'
  BY <1>1, NoDialogType DEF DialogInv, AnswersInv
<1>3. /\ download' \in [Tasks -> States \union {"new", "asked", "gone"}]
      /\ \A x \in Tasks : \/ download'[x] = download[x]
                          \/ download[x] = "asked" /\ download'[x] = "gone"
  BY <1>1, WithoutAskedEffect
<1> QED
  BY <1>1, <1>2, <1>3, OthersKeep

-----------------------------------------------------------------------------
(* Tabs come and go.                                                       *)

LEMMA WasHiddenIInv ==
  ASSUME IInv, NEW tab \in Tabs, WasHidden(tab)
  PROVE  IInv'
<1>1. tab \in VisibleTab /\ tabs[tab] = "shown" /\ (ordinary => ~Pending(task[tab]))
  BY DEF WasHidden, VisibleTab
<1>2. panel.task = task[tab] /\ \A a \in VisibleTab : a = tab
  BY <1>1 DEF IInv, PanelInv, Owners
<1>3. /\ tabs' = [tabs EXCEPT ![tab] = "hidden"]
      /\ UNCHANGED << task, mediator, starts, refused, ordinary, fault >>
      /\ IF task[tab] # None
         THEN Stop /\ download' = IF dialog.held THEN WithoutAsked ELSE download
         ELSE UNCHANGED << panel, dialog, download >>
  BY <1>2 DEF WasHidden
<1>4. panel' = NoPanel
  <2>1. CASE task[tab] # None
    BY <1>3, <2>1 DEF Stop
  <2>2. CASE task[tab] = None
    <3>1. panel.task = None /\ panel.shows = "none"
      BY <1>2, <2>2 DEF IInv, PanelInv
    <3> QED
      BY <1>3, <2>2, <3>1, Types DEF NoPanel
  <2> QED
    BY <2>1, <2>2
<1>5. \/ download' = WithoutAsked /\ dialog' = NoDialog
      \/ download' = download /\ dialog' = dialog
         /\ (task[tab] # None => ~dialog.held)
  BY <1>3 DEF Stop
<1>6. /\ download' \in [Tasks -> States \union {"new", "asked", "gone"}]
      /\ \A x \in Tasks : \/ download'[x] = download[x]
                          \/ download[x] = "asked" /\ download'[x] = "gone"
  BY <1>5, WithoutAskedEffect DEF IInv, TypeOK
<1>7. VisibleTab' = {} /\ \A a \in Tabs : Open(a)' <=> Open(a)
  BY <1>1, <1>2, <1>3 DEF VisibleTab, Open, IInv, TypeOK
<1>8. TypeOK' /\ fault' # "assertion"
  <2>1. tabs' \in [Tabs -> {"hidden", "shown", "gone"}]
    BY <1>3 DEF IInv, TypeOK
  <2>2. panel' \in [task : Downloads, shows : States \union {"none"}]
    BY <1>4 DEF NoPanel, Downloads
  <2>3. dialog' \in Dialogs
    BY <1>5, NoDialogType DEF IInv, TypeOK
  <2> QED
    BY <1>3, <1>6, <2>1, <2>2, <2>3 DEF IInv, TypeOK
<1>9. Owners'
  <2>1. \A x \in Tasks : download[x] \in States => download'[x] = download[x]
    BY <1>6, StateNames
  <2> QED
    BY <1>3, <1>7, <2>1, Owned DEF IInv, Owners
<1>10. PanelInv' /\ ProgressInv'
  BY <1>3, <1>4, <1>7 DEF IInv, PanelInv, ProgressInv, NoPanel
<1>11. DialogInv'
  BY <1>5, NoDialogType DEF IInv, DialogInv
<1>12. ordinary => StartsInv' /\ ShownInv' /\ AnswersInv'
  <2> SUFFICES ASSUME ordinary PROVE StartsInv' /\ ShownInv' /\ AnswersInv'
    OBVIOUS
  <2>1. StartsInv /\ AnswersInv
    BY DEF IInv, OrdinaryInv
  <2>2. StartsInv'
    <3> SUFFICES ASSUME NEW x \in Tasks, Pending(x) PROVE download'[x] = "gone"
      BY <1>3, SamePending DEF StartsInv
    <3>1. download[x] = "gone" \/ panel.task = x
      BY <2>1 DEF StartsInv
    <3>2. panel.task # x
      BY <1>1, <1>2
    <3> QED
      BY <1>6, <3>1, <3>2
  <2>3. ShownInv'
    BY <1>4 DEF ShownInv, NoPanel
  <2>4. AnswersInv'
    <3>1. CASE dialog' = NoDialog
      BY <3>1, NoDialogType DEF AnswersInv
    <3>2. CASE dialog' = dialog /\ (task[tab] # None => ~dialog.held)
      <4>1. dialog.kind # "cancel" \/ task[tab] # None
        BY <1>2, <2>1, NoneIsNoTask DEF AnswersInv, IInv, DialogInv
      <4>2. dialog.kind # "cancel"
        BY <2>1, <3>2, <4>1 DEF AnswersInv
      <4> QED
        BY <1>7, <2>1, <3>2, <4>2 DEF AnswersInv, IInv, DialogInv
    <3> QED
      BY <1>5, <3>1, <3>2
  <2> QED
    BY <2>2, <2>3, <2>4
<1> QED
  BY <1>3, <1>8, <1>9, <1>10, <1>11, <1>12 DEF IInv, OrdinaryInv

LEMMA WasShownIInv ==
  ASSUME IInv, NEW tab \in Tabs, WasShown(tab)
  PROVE  IInv'
<1>1. tabs[tab] = "hidden" /\ VisibleTab = {}
  BY DEF WasShown
<1>2. panel.task = None
  BY <1>1 DEF IInv, PanelInv
<1>3. panel.shows = "none" /\ panel = NoPanel
  BY <1>2, Types DEF IInv, PanelInv, NoPanel
<1>4. /\ tabs' = [tabs EXCEPT ![tab] = "shown"]
      /\ UNCHANGED << task, download, starts, refused, dialog, ordinary, fault >>
      /\ IF task[tab] # None THEN Start(task[tab]) ELSE UNCHANGED << panel, mediator >>
  BY <1>2 DEF WasShown
<1>5. /\ task[tab] # None =>
           /\ panel' = [task |-> task[tab], shows |-> download[task[tab]]]
           /\ mediator' = task[tab]
      /\ task[tab] = None => panel' = panel /\ mediator' = mediator
  BY <1>4 DEF Start
<1>6. VisibleTab' = {tab} /\ \A a \in Tabs : Open(a)' <=> Open(a)
  <2>1. tabs \in [Tabs -> {"hidden", "shown", "gone"}]
    BY DEF IInv, TypeOK
  <2>2. \A a \in Tabs : tabs'[a] = IF a = tab THEN "shown" ELSE tabs[a]
    BY <1>4, <2>1
  <2>3. \A a \in Tabs : tabs[a] # "shown"
    BY <1>1 DEF VisibleTab
  <2>4. VisibleTab' = {tab}
    BY <2>2, <2>3 DEF VisibleTab
  <2> QED
    BY <1>1, <2>2, <2>4 DEF Open
<1>7. TypeOK' /\ fault' # "assertion"
  <2>1. tabs' \in [Tabs -> {"hidden", "shown", "gone"}]
    BY <1>4 DEF IInv, TypeOK
  <2>2. /\ panel' \in [task : Downloads, shows : States \union {"none"}]
        /\ mediator' \in Downloads
    <3>1. CASE task[tab] # None
      <4>1. task[tab] \in Downloads /\ download[task[tab]] \in States
        BY <3>1, Owned, Types
      <4> QED
        BY <1>5, <3>1, <4>1
    <3>2. CASE task[tab] = None
      BY <1>5, <3>2 DEF IInv, TypeOK
    <3> QED
      BY <3>1, <3>2
  <2> QED
    BY <1>4, <2>1, <2>2 DEF IInv, TypeOK
<1>8. Owners'
  BY <1>4, <1>6 DEF IInv, Owners
<1>9. PanelInv'
  <2>1. CASE task[tab] # None
    <3>1. panel'.task = task[tab] /\ panel'.shows # "none" /\ mediator' = task[tab]
      BY <1>5, <2>1, Owned, StateNames
    <3> QED
      BY <1>4, <1>6, <2>1, <3>1 DEF PanelInv
  <2>2. CASE task[tab] = None
    BY <1>2, <1>3, <1>4, <1>5, <1>6, <2>2 DEF IInv, PanelInv
  <2> QED
    BY <2>1, <2>2
<1>10. DialogInv'
  BY <1>4 DEF IInv, DialogInv
<1>11. panel'.task # None => panel'.task = task[tab] /\ panel'.shows = download[panel'.task]
  BY <1>2, <1>5
<1>12. ProgressInv'
  BY <1>4, <1>11 DEF ProgressInv
<1>13. ordinary => StartsInv' /\ ShownInv' /\ AnswersInv'
  <2> SUFFICES ASSUME ordinary PROVE StartsInv' /\ ShownInv' /\ AnswersInv'
    OBVIOUS
  <2>1. StartsInv /\ AnswersInv
    BY DEF IInv, OrdinaryInv
  <2>2. \A x \in Tasks : Pending(x) => download[x] = "gone"
    BY <1>2, <2>1, NoneIsNoTask DEF StartsInv
  <2>3. StartsInv'
    BY <1>4, <2>2, SamePending DEF StartsInv
  <2>4. ShownInv'
    BY <1>4, <1>11 DEF ShownInv
  <2>5. AnswersInv'
    <3>1. dialog.kind # "cancel"
      BY <1>2, <2>1, NoneIsNoTask DEF AnswersInv, IInv, DialogInv
    <3> QED
      BY <1>4, <1>6, <2>1, <3>1 DEF AnswersInv, IInv, DialogInv
  <2> QED
    BY <2>3, <2>4, <2>5
<1> QED
  BY <1>4, <1>7, <1>8, <1>9, <1>10, <1>12, <1>13 DEF IInv, OrdinaryInv

\* A tab goes, or its download does.
LEMMA TaskGoesIInv ==
  ASSUME IInv, NEW t \in Downloads,
         \/ t = None
         \/ /\ panel.task # t
            /\ panel' = panel /\ dialog' = dialog
         \/ /\ panel.task = t
            /\ panel' = NoPanel /\ dialog' = NoDialog,
         t = None => panel' = panel /\ dialog' = dialog,
         tabs' \in [Tabs -> {"hidden", "shown", "gone"}], VisibleTab' = VisibleTab,
         \A a \in Tabs : Open(a) => Open(a)' \/ task[a] \in {t, None},
         ordinary => (dialog.kind = "replace" => Open(dialog.tab))',
         t # None => download[t] \in States,
         task' = [a \in Tabs |-> IF task[a] = t THEN None ELSE task[a]],
         download' = [x \in Tasks |-> IF x = t THEN "gone" ELSE download[x]],
         mediator' = WithoutTask(t),
         UNCHANGED << starts, refused, ordinary, fault >>
  PROVE  IInv'
<1>1. /\ \A a \in Tabs : task'[a] = IF task[a] = t THEN None ELSE task[a]
      /\ \A x \in Tasks : download'[x] = IF x = t THEN "gone" ELSE download[x]
      /\ mediator' = IF mediator = t THEN None ELSE mediator
  BY DEF WithoutTask
<1>2. VisibleTab \subseteq Tabs
  BY DEF VisibleTab
<1>3. t # None => t \in Tasks
  BY DEF Downloads
<1>4. panel' = NoPanel => panel'.task = None /\ panel'.shows = "none"
  BY DEF NoPanel
<1>5. panel'.task # None =>
        panel' = panel /\ panel.task # t /\ download'[panel.task] = download[panel.task]
  BY <1>1, <1>4, Owned
<1>6. TypeOK' /\ fault' # "assertion"
  <2>1. task' \in [Tabs -> Downloads] /\ mediator' \in Downloads
    BY <1>1, Types DEF Downloads
  <2>2. download' \in [Tasks -> States \union {"new", "asked", "gone"}]
    BY DEF IInv, TypeOK
  <2>3. panel' \in [task : Downloads, shows : States \union {"none"}] /\ dialog' \in Dialogs
    <3>1. NoPanel \in [task : Downloads, shows : States \union {"none"}]
      BY DEF NoPanel, Downloads
    <3> QED
      BY <3>1, NoDialogType DEF IInv, TypeOK
  <2> QED
    BY <2>1, <2>2, <2>3 DEF IInv, TypeOK
<1>7. Owners'
  <2>1. \A a \in Tabs : task'[a] # None =>
          /\ task'[a] = task[a] /\ task[a] # t /\ task[a] # None
          /\ download'[task[a]] = download[task[a]]
    BY <1>1, Owned
  <2>2. \A a \in Tabs : task'[a] # None => Open(a)'
    BY <2>1 DEF IInv, Owners
  <2> QED
    BY <2>1, <2>2, Owned DEF IInv, Owners
<1>8. PanelInv'
  <2>1. CASE panel' = panel /\ (t = None \/ panel.task # t)
    <3>1. \A a \in VisibleTab : task'[a] = panel.task
      BY <1>1, <1>2, <2>1 DEF IInv, PanelInv
    <3> QED
      BY <1>1, <1>2, <2>1, <3>1 DEF IInv, PanelInv
  <2>2. CASE panel.task = t /\ panel' = NoPanel /\ t # None
    <3>1. mediator' = None /\ \A a \in VisibleTab : task'[a] = None
      BY <1>1, <1>2, <2>2 DEF IInv, PanelInv
    <3> QED
      BY <1>4, <2>2, <3>1 DEF PanelInv
  <2> QED
    BY <2>1, <2>2
<1>9. DialogInv'
  <2>1. CASE dialog' = NoDialog
    BY <2>1, NoDialogType DEF DialogInv
  <2>2. CASE dialog' = dialog
    <3>1. ASSUME dialog.kind = "replace"
          PROVE  dialog.of \in Tasks /\ download'[dialog.of] = "asked"
      <4>1. dialog.of \in Tasks /\ download[dialog.of] = "asked"
        BY <3>1 DEF IInv, DialogInv
      <4>2. dialog.of # t
        BY <4>1, NoneIsNoTask, StateNames
      <4> QED
        BY <1>1, <4>1, <4>2
    <3> QED
      BY <2>2, <3>1 DEF IInv, DialogInv
  <2> QED
    BY <2>1, <2>2
<1>10. ProgressInv'
  BY <1>5, SamePending DEF IInv, ProgressInv
<1>11. ordinary => StartsInv' /\ ShownInv' /\ AnswersInv'
  <2> SUFFICES ASSUME ordinary PROVE StartsInv' /\ ShownInv' /\ AnswersInv'
    OBVIOUS
  <2>1. StartsInv /\ ShownInv /\ AnswersInv
    BY DEF IInv, OrdinaryInv
  <2>2. StartsInv'
    <3> SUFFICES ASSUME NEW x \in Tasks, Pending(x), download'[x] # "gone"
                 PROVE  /\ panel' = [task |-> x, shows |-> "inProgress"]
                        /\ download'[x] \in {"notStarted", "failed"}
                        /\ starts[x].directory + starts[x].writer = 1
      BY SamePending DEF StartsInv
    <3>1. x # t /\ download'[x] = download[x]
      BY <1>1
    <3>2. /\ panel = [task |-> x, shows |-> "inProgress"]
          /\ download[x] \in {"notStarted", "failed"}
          /\ starts[x].directory + starts[x].writer = 1
      BY <2>1, <3>1 DEF StartsInv
    <3> QED
      BY <3>1, <3>2
  <2>3. ShownInv'
    BY <1>5, <2>1 DEF ShownInv
  <2>4. AnswersInv'
    <3>1. (dialog' = dialog /\ panel' = panel) \/ dialog' = NoDialog
      OBVIOUS
    <3> QED
      BY <2>1, <3>1, NoDialogType DEF AnswersInv
  <2> QED
    BY <2>2, <2>3, <2>4
<1> QED
  BY <1>6, <1>7, <1>8, <1>9, <1>10, <1>11 DEF IInv, OrdinaryInv

LEMMA WebStateDestroyedIInv ==
  ASSUME IInv, NEW tab \in Tabs, WebStateDestroyed(tab)
  PROVE  IInv'
<1> DEFINE t == task[tab]
<1>1. /\ tabs[tab] = "hidden" /\ (ordinary => dialog.tab # tab)
      /\ tabs' = [tabs EXCEPT ![tab] = "gone"] /\ task' = [task EXCEPT ![tab] = None]
      /\ download' = [x \in Tasks |-> IF x = t THEN "gone" ELSE download[x]]
      /\ mediator' = WithoutTask(t)
      /\ UNCHANGED << panel, starts, refused, dialog, ordinary, fault >>
  BY DEF WebStateDestroyed
<1>2. t \in Downloads /\ (t # None => download[t] \in States)
  BY Types, Owned
<1>3. t = None \/ panel.task # t
  BY <1>1 DEF IInv, PanelInv, Owners, VisibleTab
<1>4. /\ tabs' \in [Tabs -> {"hidden", "shown", "gone"}]
      /\ \A a \in Tabs : tabs'[a] = IF a = tab THEN "gone" ELSE tabs[a]
  BY <1>1 DEF IInv, TypeOK
<1>5. VisibleTab' = VisibleTab
  BY <1>1, <1>4 DEF VisibleTab
<1>6. \A a \in Tabs : Open(a) => Open(a)' \/ task[a] \in {t, None}
  BY <1>4 DEF Open
<1>7. ordinary => (dialog.kind = "replace" => Open(dialog.tab))'
  <2> SUFFICES ASSUME ordinary, dialog.kind = "replace" PROVE Open(dialog.tab)'
    BY <1>1
  <2>1. dialog.tab \in Tabs /\ dialog.tab # tab /\ Open(dialog.tab)
    BY <1>1 DEF IInv, OrdinaryInv, AnswersInv, DialogInv
  <2> QED
    BY <1>1, <1>4, <2>1 DEF Open
<1>8. task' = [a \in Tabs |-> IF task[a] = t THEN None ELSE task[a]]
  <2>1. \A a \in Tabs : task[a] = t => a = tab \/ task[a] = None
    BY DEF IInv, Owners
  <2> QED
    BY <1>1, <2>1 DEF IInv, TypeOK
<1> HIDE DEF t
<1> QED
  BY <1>1, <1>2, <1>3, <1>4, <1>5, <1>6, <1>7, <1>8, TaskGoesIInv

-----------------------------------------------------------------------------
(* Cancelling.                                                             *)

LEMMA CancelIInv ==
  ASSUME IInv, panel.task # None, panel' = NoPanel, dialog' = NoDialog,
         Cancel(panel.task), UNCHANGED << tabs, starts, refused, ordinary, fault >>
  PROVE  IInv'
<1> DEFINE t == panel.task
<1>1. t \in Downloads
  BY Types
<1>2. /\ task' = [a \in Tabs |-> IF task[a] = t THEN None ELSE task[a]]
      /\ mediator' = WithoutTask(t)
      /\ download' = [x \in Tasks |-> IF x = t THEN "gone" ELSE download[x]]
  BY DEF Cancel, IInv, TypeOK
<1>3. tabs' \in [Tabs -> {"hidden", "shown", "gone"}] /\ VisibleTab' = VisibleTab
      /\ \A a \in Tabs : Open(a) => Open(a)'
  BY DEF IInv, TypeOK, VisibleTab, Open
<1>4. (dialog.kind = "replace" => Open(dialog.tab))'
  BY NoDialogType
<1>5. t # None /\ download[t] \in States
  BY Owned
<1>6. panel.task = t /\ panel' = NoPanel /\ dialog' = NoDialog
  OBVIOUS
<1> HIDE DEF t
<1> QED
  BY <1>1, <1>2, <1>3, <1>4, <1>5, <1>6, TaskGoesIInv

LEMMA TapCloseIInv ==
  ASSUME IInv, TapClose
  PROVE  IInv'
<1>1. /\ panel.task # None /\ panel.task \in Tasks /\ dialog = NoDialog
      /\ UNCHANGED << tabs, starts, refused, ordinary, fault >>
  BY Owned DEF TapClose, IInv, PanelInv, DialogInv
<1>2. CASE /\ dialog' = [kind |-> "cancel", tab |-> None, of |-> panel.task,
                         held |-> TRUE]
           /\ UNCHANGED << task, download, panel, mediator >>
  <2>1. /\ dialog' \in Dialogs /\ dialog'.kind = "cancel" /\ dialog'.of = panel.task
        /\ dialog'.held = TRUE
    BY <1>1, <1>2 DEF Dialogs, Downloads
  <2>2. DialogInv' /\ AnswersInv'
    BY <1>1, <1>2, <2>1 DEF DialogInv, AnswersInv
  <2>3. /\ download' \in [Tasks -> States \union {"new", "asked", "gone"}]
        /\ \A x \in Tasks : download'[x] = download[x]
    BY <1>2 DEF IInv, TypeOK
  <2> QED
    BY <1>1, <1>2, <2>1, <2>2, <2>3, OthersKeep
<1>3. CASE Stop /\ Cancel(panel.task)
  <2>1. panel' = NoPanel /\ dialog' = NoDialog
    BY <1>1, <1>3 DEF Stop
  <2> QED
    BY <1>1, <1>3, <2>1, CancelIInv
<1> QED
  BY <1>2, <1>3 DEF TapClose

LEMMA ConfirmCancelIInv ==
  ASSUME IInv, ConfirmCancel
  PROVE  IInv'
<1>1. dialog.kind = "cancel" /\ dialog.of \in Tasks
  BY DEF ConfirmCancel, IInv, DialogInv
<1>2. CASE Fault("no download") \/ Fault("other download")
  <2>1. panel.task # dialog.of \/ fault' = fault
    BY <1>1, <1>2, NoneIsNoTask DEF ConfirmCancel, Fault
  <2>2. fault = "none"
    BY DEF ConfirmCancel, Running
  <2>3. ~ordinary
    BY <1>1, <1>2, <2>1, <2>2 DEF IInv, OrdinaryInv, AnswersInv, Fault
  <2> QED
    BY <1>2, <2>3, FaultIInv
<1>3. CASE /\ panel.task # None /\ panel' = NoPanel /\ dialog' = NoDialog
           /\ Cancel(panel.task)
           /\ UNCHANGED << tabs, starts, refused, ordinary, fault >>
  BY <1>3, CancelIInv
<1> QED
  BY <1>2, <1>3 DEF ConfirmCancel

-----------------------------------------------------------------------------
(* Starting.                                                               *)

\* A reply is taken; the panel may report a failure.
LEMMA OwnersKeep ==
  ASSUME IInv, UNCHANGED << tabs, task >>,
         \A x \in Tasks : download[x] \in States => download'[x] \in States
  PROVE  Owners'
  BY Owned DEF IInv, Owners, Open, VisibleTab

LEMMA PanelKeep ==
  ASSUME IInv, UNCHANGED << tabs, task, mediator >>, NEW state \in States,
         panel' = panel \/ panel' = Shown(panel, state)
  PROVE  /\ PanelInv' /\ panel'.task = panel.task
         /\ panel' \in [task : Downloads, shows : States \union {"none"}]
         /\ \/ panel' = panel
            \/ /\ panel.task # None
               /\ panel' = [task |-> panel.task, shows |-> state]
<1>1. \/ panel' = panel
      \/ /\ panel.shows # "none" /\ panel.task # None
         /\ panel' = [task |-> panel.task, shows |-> state]
  BY Types DEF Shown, IInv, PanelInv
<1>2. panel'.task = panel.task /\ (panel'.shows = "none" <=> panel.shows = "none")
  BY <1>1, StateNames DEF States
<1>3. panel' \in [task : Downloads, shows : States \union {"none"}]
  <2>1. CASE panel' = panel
    BY <2>1 DEF IInv, TypeOK
  <2>2. CASE panel' = [task |-> panel.task, shows |-> state]
    BY <2>2, Types
  <2> QED
    BY <1>1, <2>1, <2>2
<1>4. PanelInv'
  BY <1>2 DEF IInv, PanelInv, VisibleTab
<1> QED
  BY <1>1, <1>2, <1>3, <1>4

LEMMA StartDowloadingIInv ==
  ASSUME IInv, StartDowloading
  PROVE  IInv'
<1> DEFINE t == panel.task
<1>1. /\ panel.shows \in {"notStarted", "failed"} /\ dialog.kind = "none"
      /\ UNCHANGED << tabs, task, download, mediator, dialog, ordinary, fault >>
  BY DEF StartDowloading
<1>2. /\ t # None /\ t \in Tasks /\ mediator = t /\ download[t] \in States
  BY <1>1, Owned DEF IInv, PanelInv
<1>3. \/ /\ panel' = Shown(panel, "failed") /\ refused' = refused \union {t}
         /\ UNCHANGED starts
      \/ /\ panel' = Shown(panel, "inProgress") /\ refused' = refused \ {t}
         /\ starts' = [starts EXCEPT ![t].directory = @ + 1]
  BY <1>2 DEF StartDowloading
<1>4. Owners'
  BY <1>1, OwnersKeep
<1>5. /\ PanelInv' /\ panel'.task = t
      /\ panel' \in [task : Downloads, shows : States \union {"none"}]
      /\ panel'.shows = "failed" => panel' = Shown(panel, "failed") \/ panel' = panel
  BY <1>1, <1>3, PanelKeep, StateNames
<1>6. /\ \/ /\ panel' = [task |-> t, shows |-> "failed"] /\ refused' = refused \union {t}
            /\ UNCHANGED starts
         \/ /\ panel' = [task |-> t, shows |-> "inProgress"] /\ refused' = refused \ {t}
            /\ starts' = [starts EXCEPT ![t].directory = @ + 1]
  BY <1>1, <1>2, <1>3, StateNames, Types DEF Shown
<1>7. starts \in [Tasks -> [directory : Nat, writer : Nat]]
  BY DEF IInv, TypeOK
<1>8. TypeOK' /\ fault' # "assertion"
  <2>1. starts' \in [Tasks -> [directory : Nat, writer : Nat]]
    <3>1. CASE starts' = starts
      BY <1>7, <3>1
    <3>2. CASE starts' = [starts EXCEPT ![t].directory = @ + 1]
      BY <1>2, <1>7, <3>2
    <3> QED
      BY <1>6, <3>1, <3>2
  <2>2. refused' \subseteq Tasks
    BY <1>2, <1>3 DEF IInv, TypeOK
  <2> QED
    BY <1>1, <1>5, <2>1, <2>2 DEF IInv, TypeOK
<1>9. DialogInv' /\ (ordinary => AnswersInv')
  BY <1>1 DEF IInv, DialogInv, OrdinaryInv, AnswersInv
<1>10. starts' # starts =>
         /\ \A x \in Tasks \ {t} : starts'[x] = starts[x]
         /\ starts'[t].directory = starts[t].directory + 1
         /\ starts'[t].writer = starts[t].writer
         /\ starts[t].directory \in Nat /\ starts[t].writer \in Nat
  BY <1>2, <1>6, <1>7
<1>11. ProgressInv'
  <2>1. CASE panel'.shows # "inProgress"
    BY <2>1 DEF ProgressInv
  <2>2. CASE panel'.shows = "inProgress"
    <3>1. starts' = [starts EXCEPT ![t].directory = @ + 1]
      BY <1>6, <2>2
    <3>2. /\ starts'[t].directory = starts[t].directory + 1
          /\ starts'[t].writer = starts[t].writer
          /\ starts[t].directory \in Nat /\ starts[t].writer \in Nat
      BY <1>2, <1>7, <3>1
    <3>3. starts'[t].directory + starts'[t].writer > 0
      BY <3>2
    <3>4. panel'.task # None /\ panel'.task = t
      BY <1>2, <1>5
    <3> QED
      BY <3>3, <3>4 DEF ProgressInv, Pending
  <2> QED
    BY <2>1, <2>2
<1>12. ordinary => StartsInv' /\ ShownInv'
  <2> SUFFICES ASSUME ordinary PROVE StartsInv' /\ ShownInv'
    OBVIOUS
  <2>1. StartsInv /\ ShownInv
    BY DEF IInv, OrdinaryInv
  <2>2. \A x \in Tasks : Pending(x) => download[x] = "gone"
    BY <1>1, <2>1, StateNames DEF StartsInv
  <2>3. ~Pending(t)
    BY <1>2, <2>2, StateNames
  <2>4. download[t] \in {"notStarted", "failed"}
    BY <1>1, <1>2, <2>1 DEF ShownInv, States
  <2>5. StartsInv'
    <3> SUFFICES ASSUME NEW x \in Tasks, Pending(x)', download[x] # "gone"
                 PROVE  /\ panel' = [task |-> x, shows |-> "inProgress"]
                        /\ download[x] \in {"notStarted", "failed"}
                        /\ starts'[x].directory + starts'[x].writer = 1
      BY <1>1 DEF StartsInv
    <3>1. x = t /\ starts' # starts
      BY <1>10, <2>2 DEF Pending
    <3>2. panel' = [task |-> x, shows |-> "inProgress"]
      BY <1>6, <3>1
    <3>3. starts[t].directory + starts[t].writer = 0
      BY <1>2, <1>10, <2>3, <3>1 DEF Pending
    <3> QED
      BY <1>10, <2>4, <3>1, <3>2, <3>3
  <2>6. ShownInv'
    <3>1. panel'.shows \in {"failed", "inProgress"}
      BY <1>6
    <3>2. panel'.shows = "failed" => t \in refused'
      BY <1>6
    <3> QED
      BY <1>1, <1>5, <2>4, <3>1, <3>2 DEF ShownInv
  <2> QED
    BY <2>5, <2>6
<1> QED
  BY <1>1, <1>4, <1>5, <1>8, <1>9, <1>11, <1>12 DEF IInv, OrdinaryInv

LEMMA RepliesEffect ==
  ASSUME IInv, NEW t \in Tasks,
         \/ /\ starts[t].directory > 0
            /\ \/ starts' = [starts EXCEPT ![t].directory = @ - 1]
               \/ starts' = [starts EXCEPT ![t] = [directory |-> @.directory - 1,
                                                  writer |-> @.writer + 1]]
         \/ starts[t].writer > 0 /\ starts' = [starts EXCEPT ![t].writer = @ - 1]
  PROVE  /\ starts' \in [Tasks -> [directory : Nat, writer : Nat]]
         /\ \A x \in Tasks \ {t} : starts'[x] = starts[x]
         /\ starts[t].directory + starts[t].writer \in Nat
         /\ starts[t].directory + starts[t].writer > 0
         /\ \/ starts'[t].directory + starts'[t].writer
                 = starts[t].directory + starts[t].writer - 1
            \/ /\ starts'[t].directory + starts'[t].writer
                    = starts[t].directory + starts[t].writer
               /\ starts' = [starts EXCEPT ![t] = [directory |-> @.directory - 1,
                                                   writer |-> @.writer + 1]]
<1>1. /\ starts \in [Tasks -> [directory : Nat, writer : Nat]]
      /\ starts[t].directory \in Nat /\ starts[t].writer \in Nat
  BY DEF IInv, TypeOK
<1>2. CASE /\ starts[t].directory > 0
           /\ starts' = [starts EXCEPT ![t].directory = @ - 1]
  BY <1>1, <1>2
<1>3. CASE /\ starts[t].directory > 0
           /\ starts' = [starts EXCEPT ![t] = [directory |-> @.directory - 1,
                                              writer |-> @.writer + 1]]
  <2>1. [directory |-> starts[t].directory - 1, writer |-> starts[t].writer + 1]
          \in [directory : Nat, writer : Nat]
    BY <1>1, <1>3
  <2> QED
    BY <1>1, <1>3, <2>1
<1>4. CASE starts[t].writer > 0 /\ starts' = [starts EXCEPT ![t].writer = @ - 1]
  BY <1>1, <1>4
<1> QED
  BY <1>2, <1>3, <1>4

\* A reply is ignored, moves the start on, reports its failure or starts.
LEMMA ReplyIInv ==
  ASSUME IInv, NEW t \in Tasks,
         UNCHANGED << tabs, task, mediator, dialog, ordinary, fault >>,
         starts' \in [Tasks -> [directory : Nat, writer : Nat]],
         \A x \in Tasks \ {t} : starts'[x] = starts[x],
         NEW n \in Nat, n = starts[t].directory + starts[t].writer, n > 0,
         NEW m \in Nat, m = starts'[t].directory + starts'[t].writer,
         \/ /\ UNCHANGED << panel, refused, download >>
            /\ m = n \/ (mediator # t /\ m = n - 1)
         \/ /\ UNCHANGED download /\ refused' = refused \union {t} /\ m = n - 1
            /\ panel' = Shown(panel, "failed") /\ (ordinary => mediator = t)
         \/ /\ UNCHANGED << panel, refused >> /\ mediator = t /\ m = n - 1
            /\ download' = [download EXCEPT ![t] = "inProgress"]
  PROVE  IInv'
<1>1. /\ Pending(t) /\ (Pending(t)' <=> m > 0)
      /\ \A x \in Tasks \ {t} : Pending(x)' <=> Pending(x)
  BY NoneIsNoTask DEF Pending
<1>2. \/ download' = download
      \/ download' = [download EXCEPT ![t] = "inProgress"] /\ download[t] \in States
         /\ mediator = t
  BY Owned, NoneIsNoTask
<1>3. /\ download' \in [Tasks -> States \union {"new", "asked", "gone"}]
      /\ \A x \in Tasks : \/ download'[x] = download[x]
                          \/ /\ x = t /\ download[x] \in States
                             /\ download'[x] = "inProgress"
  <2>1. download \in [Tasks -> States \union {"new", "asked", "gone"}]
    BY DEF IInv, TypeOK
  <2>2. CASE download' = download
    BY <2>1, <2>2
  <2>3. CASE download' = [download EXCEPT ![t] = "inProgress"] /\ download[t] \in States
    BY <2>1, <2>3, StateNames
  <2> QED
    BY <1>2, <2>2, <2>3
<1>4. Owners'
  BY <1>3, OwnersKeep, StateNames
<1>5. /\ PanelInv' /\ panel'.task = panel.task
      /\ panel' \in [task : Downloads, shows : States \union {"none"}]
      /\ \/ panel' = panel
         \/ /\ panel.task # None
            /\ panel' = [task |-> panel.task, shows |-> "failed"]
  BY PanelKeep, StateNames
<1>6. TypeOK' /\ fault' # "assertion"
  BY <1>3, <1>5 DEF IInv, TypeOK
<1>7. DialogInv'
  BY <1>3, StateNames DEF IInv, DialogInv
<1>8. panel.task # None => panel.task = mediator /\ panel.task \in Tasks
  BY Owned DEF IInv, PanelInv
<1>9. ProgressInv'
  <2> SUFFICES ASSUME panel.task # None, panel'.shows = "inProgress",
                      download'[panel.task] # "inProgress"
               PROVE  Pending(panel.task)'
    BY <1>5 DEF ProgressInv, Pending
  <2>1. panel' = panel
    BY <1>5
  <2>2. Pending(panel.task)
    BY <1>3, <1>8, <2>1 DEF IInv, ProgressInv
  <2>3. CASE panel.task # t
    <3>1. Pending(panel.task) /\ panel'.task = panel.task /\ starts'[panel.task] = starts[panel.task]
      BY <1>5, <1>8, <2>2, <2>3
    <3> QED
      BY <3>1 DEF Pending
  <2>4. CASE panel.task = t
    <3>1. mediator = t /\ download'[t] # "inProgress"
      BY <1>8, <2>4
    <3>2. panel' # Shown(panel, "failed") \/ m = n
      <4>1. panel.shows = "inProgress"
        BY <2>1
      <4>2. Shown(panel, "failed").shows = "failed"
        BY <4>1, Types DEF Shown
      <4> QED
        BY <2>1, <4>1, <4>2
    <3>3. m = n
      BY <3>1, <3>2 DEF IInv, TypeOK
    <3> QED
      BY <1>1, <2>4, <3>3 DEF Pending
  <2> QED
    BY <2>3, <2>4
<1>10. ordinary => StartsInv' /\ ShownInv' /\ AnswersInv'
  <2> SUFFICES ASSUME ordinary PROVE StartsInv' /\ ShownInv' /\ AnswersInv'
    OBVIOUS
  <2>1. StartsInv /\ ShownInv /\ AnswersInv
    BY DEF IInv, OrdinaryInv
  <2>2. \/ download[t] = "gone"
        \/ /\ panel = [task |-> t, shows |-> "inProgress"] /\ n = 1
           /\ download[t] \in {"notStarted", "failed"}
    BY <1>1, <2>1 DEF StartsInv
  <2>3. mediator = t =>
          /\ panel = [task |-> t, shows |-> "inProgress"] /\ n = 1
          /\ download[t] \in {"notStarted", "failed"}
    BY <2>2, Owned, NoneIsNoTask, StateNames
  <2>4. panel' = panel \/ mediator = t
    OBVIOUS
  <2>5. StartsInv'
    <3> SUFFICES ASSUME NEW x \in Tasks, Pending(x)', download'[x] # "gone"
                 PROVE  /\ panel' = [task |-> x, shows |-> "inProgress"]
                        /\ download'[x] \in {"notStarted", "failed"}
                        /\ starts'[x].directory + starts'[x].writer = 1
      BY DEF StartsInv
    <3>1. CASE x = t
      <4>1. m > 0 /\ download[t] # "gone"
        BY <1>1, <1>3, <3>1, StateNames
      <4>2. n = 1 /\ m = n /\ UNCHANGED << panel, download >>
        BY <2>2, <4>1
      <4> QED
        BY <2>2, <3>1, <4>1, <4>2
    <3>2. CASE x # t
      <4>1. Pending(x) /\ download'[x] = download[x] /\ starts'[x] = starts[x]
        BY <1>1, <1>3, <3>2
      <4>2. /\ panel = [task |-> x, shows |-> "inProgress"]
            /\ download[x] \in {"notStarted", "failed"}
            /\ starts[x].directory + starts[x].writer = 1
        BY <2>1, <4>1 DEF StartsInv
      <4>3. panel' = panel
        BY <2>3, <2>4, <3>2, <4>2
      <4> QED
        BY <4>1, <4>2, <4>3
    <3> QED
      BY <3>1, <3>2
  <2>6. ShownInv'
    <3>1. CASE mediator # t
      <4>1. panel' = panel /\ UNCHANGED << download, refused >>
        BY <3>1
      <4> QED
        BY <2>1, <4>1 DEF ShownInv
    <3>2. CASE mediator = t
      <4>1. /\ panel = [task |-> t, shows |-> "inProgress"]
            /\ download[t] \in {"notStarted", "failed"}
        BY <2>3, <3>2
      <4>2. CASE UNCHANGED << panel, refused, download >>
        BY <2>1, <4>2 DEF ShownInv
      <4>3. CASE /\ UNCHANGED download /\ refused' = refused \union {t}
                 /\ panel' = Shown(panel, "failed")
        <5>1. panel' = [task |-> t, shows |-> "failed"]
          BY <4>1, <4>3 DEF Shown
        <5> QED
          BY <4>1, <4>3, <5>1 DEF ShownInv
      <4>4. CASE /\ UNCHANGED << panel, refused >>
                 /\ download' = [download EXCEPT ![t] = "inProgress"]
        <5>1. download'[t] = "inProgress"
          BY <4>4 DEF IInv, TypeOK
        <5> QED
          BY <4>1, <4>4, <5>1 DEF ShownInv
      <4> QED
        BY <4>2, <4>3, <4>4
    <3> QED
      BY <3>1, <3>2
  <2>7. AnswersInv'
    BY <1>5, <2>1 DEF AnswersInv, Open
  <2> QED
    BY <2>5, <2>6, <2>7
<1> QED
  BY <1>4, <1>5, <1>6, <1>7, <1>9, <1>10 DEF IInv, OrdinaryInv

LEMMA DownloadWithDestinationDirIInv ==
  ASSUME IInv, NEW t \in Tasks, NEW created \in BOOLEAN,
         DownloadWithDestinationDir(t, created)
  PROVE  IInv'
<1>1. /\ starts[t].directory > 0
      /\ UNCHANGED << tabs, task, download, mediator, dialog, ordinary, fault >>
  BY DEF DownloadWithDestinationDir
<1>2. \/ /\ panel' = Shown(panel, "failed") /\ refused' = refused \union {t}
         /\ (ordinary => mediator = t)
         /\ starts' = [starts EXCEPT ![t].directory = @ - 1]
      \/ /\ UNCHANGED << panel, refused >>
         /\ \/ mediator # t /\ starts' = [starts EXCEPT ![t].directory = @ - 1]
            \/ /\ mediator = t
               /\ starts' = [starts EXCEPT ![t] = [directory |-> @.directory - 1,
                                                   writer |-> @.writer + 1]]
  BY DEF DownloadWithDestinationDir
<1>3. starts \in [Tasks -> [directory : Nat, writer : Nat]]
  BY DEF IInv, TypeOK
<1>4. \A f \in {"directory", "writer"} : starts[t][f] \in Nat
  BY <1>3
<1>5. /\ starts' \in [Tasks -> [directory : Nat, writer : Nat]]
      /\ \A x \in Tasks \ {t} : starts'[x] = starts[x]
  BY <1>1, <1>2, RepliesEffect
<1> DEFINE n == starts[t].directory + starts[t].writer
           m == starts'[t].directory + starts'[t].writer
<1>6. n \in Nat /\ n > 0 /\ m \in Nat
  BY <1>1, <1>3, <1>5
<1>7. CASE starts' = [starts EXCEPT ![t].directory = @ - 1]
  <2>1. m = n - 1
    BY <1>1, <1>3, <1>7
  <2>2. ~(starts' = [starts EXCEPT ![t] = [directory |-> @.directory - 1,
                                           writer |-> @.writer + 1]])
    <3>1. starts'[t].writer = starts[t].writer
      BY <1>3, <1>7
    <3> QED
      BY <1>3, <3>1
  <2> HIDE DEF n, m
  <2> QED
    BY <1>1, <1>2, <1>5, <1>6, <2>1, <2>2, ReplyIInv DEF n, m
<1>8. CASE /\ mediator = t /\ UNCHANGED << panel, refused >>
           /\ starts' = [starts EXCEPT ![t] = [directory |-> @.directory - 1,
                                               writer |-> @.writer + 1]]
  <2>1. m = n
    BY <1>1, <1>3, <1>8
  <2> QED
    BY <1>1, <1>5, <1>6, <1>8, <2>1, ReplyIInv
<1> QED
  BY <1>2, <1>7, <1>8

LEMMA DownloadWithWriterIInv ==
  ASSUME IInv, NEW t \in Tasks, NEW ok \in BOOLEAN, DownloadWithWriter(t, ok)
  PROVE  IInv'
<1>1. starts[t].writer > 0
  BY DEF DownloadWithWriter
<1>2. starts \in [Tasks -> [directory : Nat, writer : Nat]]
  BY DEF IInv, TypeOK
<1>3. /\ starts[t].directory \in Nat /\ starts[t].writer \in Nat
      /\ starts[t].directory + starts[t].writer > 0
  BY <1>1, <1>2
<1>4. CASE ok /\ mediator = t /\ download[t] = "inProgress"
  <2>1. Fault("started twice")
    BY <1>4 DEF DownloadWithWriter
  <2>2. Pending(t)
    BY <1>3, NoneIsNoTask DEF Pending
  <2>3. ~ordinary
    BY <1>4, <2>2 DEF IInv, OrdinaryInv, StartsInv
  <2> QED
    BY <2>1, <2>3, FaultIInv
<1>5. CASE ~(ok /\ mediator = t /\ download[t] = "inProgress")
  <2>1. /\ starts' = [starts EXCEPT ![t].writer = @ - 1]
        /\ UNCHANGED << tabs, task, mediator, dialog, ordinary, fault >>
        /\ \/ mediator # t /\ UNCHANGED << panel, refused, download >>
           \/ /\ mediator = t /\ UNCHANGED << panel, refused >>
              /\ download' = [download EXCEPT ![t] = "inProgress"]
           \/ /\ mediator = t /\ UNCHANGED download
              /\ panel' = Shown(panel, "failed") /\ refused' = refused \union {t}
    BY <1>5 DEF DownloadWithWriter, WriterReplied
  <2>2. /\ starts' \in [Tasks -> [directory : Nat, writer : Nat]]
        /\ \A x \in Tasks \ {t} : starts'[x] = starts[x]
    BY <1>1, <2>1, RepliesEffect
  <2> DEFINE n == starts[t].directory + starts[t].writer
             m == starts'[t].directory + starts'[t].writer
  <2>3. n \in Nat /\ n > 0 /\ m \in Nat /\ m = n - 1
    BY <1>1, <1>2, <1>3, <2>1, <2>2
  <2> QED
    BY <2>1, <2>2, <2>3, ReplyIInv
<1> QED
  BY <1>4, <1>5

-----------------------------------------------------------------------------
(* The download goes on.                                                   *)

LEMMA UpdatedIInv ==
  ASSUME IInv, NEW t \in Tasks, download[t] = "inProgress", NEW state \in States,
         state # "notStarted", download' = [download EXCEPT ![t] = state],
         OnDownloadUpdated(t),
         UNCHANGED << tabs, task, mediator, starts, refused, dialog, ordinary, fault >>
  PROVE  IInv'
<1>1. /\ download'[t] = state
      /\ \A x \in Tasks \ {t} : download'[x] = download[x]
      /\ download' \in [Tasks -> States \union {"new", "asked", "gone"}]
  BY DEF IInv, TypeOK
<1>2. panel' = IF mediator = t THEN Shown(panel, state) ELSE panel
  BY <1>1 DEF OnDownloadUpdated
<1>3. /\ PanelInv' /\ panel'.task = panel.task
      /\ panel' \in [task : Downloads, shows : States \union {"none"}]
  BY <1>2, PanelKeep
<1>4. TypeOK' /\ fault' # "assertion"
  BY <1>1, <1>3 DEF IInv, TypeOK
<1>5. Owners'
  BY <1>1, OwnersKeep
<1>6. DialogInv'
  BY <1>1, StateNames DEF IInv, DialogInv
<1>7. panel.task # None =>
        panel.task = mediator /\ panel.task \in Tasks /\ panel.shows # "none"
  BY Owned DEF IInv, PanelInv
<1>8. panel.task = t => panel' = [task |-> t, shows |-> state]
  BY <1>2, <1>7, NoneIsNoTask, Types DEF Shown
<1>9. panel.task # None /\ panel.task # t =>
        panel' = panel /\ download'[panel.task] = download[panel.task]
  BY <1>1, <1>2, <1>7
<1>10. ProgressInv'
  BY <1>1, <1>3, <1>8, <1>9, SamePending DEF IInv, ProgressInv
<1>11. ordinary => StartsInv' /\ ShownInv' /\ AnswersInv'
  <2> SUFFICES ASSUME ordinary PROVE StartsInv' /\ ShownInv' /\ AnswersInv'
    OBVIOUS
  <2>1. StartsInv /\ ShownInv /\ AnswersInv
    BY DEF IInv, OrdinaryInv
  <2>2. StartsInv'
    <3> SUFFICES ASSUME NEW x \in Tasks, Pending(x), download'[x] # "gone"
                 PROVE  /\ panel' = [task |-> x, shows |-> "inProgress"]
                        /\ download'[x] \in {"notStarted", "failed"}
                        /\ starts[x].directory + starts[x].writer = 1
      BY SamePending DEF StartsInv
    <3>1. x # t
      BY <2>1 DEF StartsInv
    <3>2. /\ panel = [task |-> x, shows |-> "inProgress"]
          /\ download[x] \in {"notStarted", "failed"}
          /\ starts[x].directory + starts[x].writer = 1
      BY <1>1, <2>1, <3>1 DEF StartsInv
    <3>3. panel' = panel
      BY <1>9, <3>1, <3>2, NoneIsNoTask
    <3> QED
      BY <1>1, <3>1, <3>2, <3>3
  <2>3. ShownInv'
    <3>1. CASE panel.task = t
      BY <1>1, <1>8, <3>1 DEF ShownInv
    <3>2. CASE panel.task # t
      BY <1>3, <1>9, <2>1, <3>2 DEF ShownInv
    <3> QED
      BY <3>1, <3>2
  <2>4. AnswersInv'
    BY <1>3, <2>1 DEF AnswersInv, Open
  <2> QED
    BY <2>2, <2>3, <2>4
<1> QED
  BY <1>3, <1>4, <1>5, <1>6, <1>10, <1>11 DEF IInv, OrdinaryInv

LEMMA ProgressIInv ==
  ASSUME IInv, NEW t \in Tasks, Progress(t)
  PROVE  IInv'
<1>1. /\ download[t] = "inProgress" /\ download' = download /\ OnDownloadUpdated(t)
      /\ UNCHANGED << tabs, task, mediator, starts, refused, dialog, ordinary, fault >>
  BY DEF Progress
<1>2. download' = [download EXCEPT ![t] = "inProgress"]
  BY <1>1 DEF IInv, TypeOK
<1> QED
  BY <1>1, <1>2, UpdatedIInv, StateNames

LEMMA CompleteIInv ==
  ASSUME IInv, NEW t \in Tasks, Complete(t)
  PROVE  IInv'
<1>1. /\ download[t] = "inProgress" /\ OnDownloadUpdated(t)
      /\ UNCHANGED << tabs, task, mediator, starts, refused, dialog, ordinary, fault >>
  BY DEF Complete
<1>2. PICK state \in {"succeeded", "failed"} : download' = [download EXCEPT ![t] = state]
  BY DEF Complete
<1> QED
  BY <1>1, <1>2, UpdatedIInv, StateNames

-----------------------------------------------------------------------------
(* The invariant.                                                          *)

LEMMA InitIInv == Init => IInv
<1> SUFFICES ASSUME Init PROVE IInv
  OBVIOUS
<1>1. /\ VisibleTab = {} /\ panel.task = None /\ panel.shows = "none"
      /\ \A a \in Tabs : task[a] = None
  BY DEF Init, VisibleTab, NoPanel
<1>2. TypeOK /\ fault = "none"
  <2>1. panel \in [task : Downloads, shows : States \union {"none"}]
    BY DEF Init, NoPanel, Downloads
  <2>2. starts \in [Tasks -> [directory : Nat, writer : Nat]]
    BY DEF Init
  <2> QED
    BY <2>1, <2>2, NoDialogType DEF Init, TypeOK, Downloads
<1>3. Owners /\ PanelInv /\ ProgressInv
  BY <1>1 DEF Init, Owners, PanelInv, ProgressInv
<1>4. DialogInv /\ AnswersInv
  BY NoDialogType DEF Init, DialogInv, AnswersInv
<1>5. StartsInv /\ ShownInv
  <2>1. \A x \in Tasks : ~Pending(x)
    BY DEF Init, Pending
  <2> QED
    BY <1>1, <2>1 DEF StartsInv, ShownInv
<1> QED
  BY <1>2, <1>3, <1>4, <1>5 DEF IInv, OrdinaryInv

LEMMA NextIInv == IInv /\ [Next]_vars => IInv'
<1> SUFFICES ASSUME IInv, [Next]_vars PROVE IInv'
  OBVIOUS
<1>1. CASE UNCHANGED vars
  BY <1>1, Stutter DEF vars
<1>2. ASSUME NEW tab \in Tabs, WasShown(tab) PROVE IInv'
  BY <1>2, WasShownIInv
<1>3. ASSUME NEW tab \in Tabs, WasHidden(tab) PROVE IInv'
  BY <1>3, WasHiddenIInv
<1>4. ASSUME NEW tab \in Tabs, WebStateDestroyed(tab) PROVE IInv'
  BY <1>4, WebStateDestroyedIInv
<1>5. ASSUME NEW tab \in Tabs, NEW t \in Tasks, FirstDownload(tab, t) PROVE IInv'
  BY <1>5, FirstDownloadIInv
<1>6. ASSUME NEW tab \in Tabs, NEW t \in Tasks, DropDownload(tab, t) PROVE IInv'
  BY <1>6, DropDownloadIInv
<1>7. ASSUME NEW tab \in Tabs, NEW t \in Tasks, AskToReplace(tab, t) PROVE IInv'
  BY <1>7, AskToReplaceIInv
<1>8. ASSUME NEW t \in Tasks, NEW b \in BOOLEAN, DownloadWithDestinationDir(t, b)
      PROVE  IInv'
  BY <1>8, DownloadWithDestinationDirIInv
<1>9. ASSUME NEW t \in Tasks, NEW b \in BOOLEAN, DownloadWithWriter(t, b)
      PROVE  IInv'
  BY <1>9, DownloadWithWriterIInv
<1>10. ASSUME NEW t \in Tasks, Progress(t) PROVE IInv'
  BY <1>10, ProgressIInv
<1>11. ASSUME NEW t \in Tasks, Complete(t) PROVE IInv'
  BY <1>11, CompleteIInv
<1>12. CASE ConfirmReplace
  BY <1>12, ConfirmReplaceIInv
<1>13. CASE Decline
  BY <1>13, DeclineIInv
<1>14. CASE TapClose
  BY <1>14, TapCloseIInv
<1>15. CASE ConfirmCancel
  BY <1>15, ConfirmCancelIInv
<1>16. CASE StartDowloading
  BY <1>16, StartDowloadingIInv
<1> QED
  BY <1>1, <1>2, <1>3, <1>4, <1>5, <1>6, <1>7, <1>8, <1>9, <1>10, <1>11, <1>12,
     <1>13, <1>14, <1>15, <1>16 DEF Next

LEMMA Inductive == Spec => []IInv
  BY InitIInv, NextIInv, PTL DEF Spec

-----------------------------------------------------------------------------
(* The theorems.                                                           *)

(***************************************************************************)
(* Tabs, panel, replies and dialog stay within their types, whatever tabs  *)
(* and downloads there are (download_manager_tab_helper.mm,                *)
(* download_manager_mediator.mm, download_manager_coordinator.mm).         *)
(***************************************************************************)
THEOREM PanelTypes == Spec => []TypeOK
<1>1. IInv => TypeOK
  BY DEF IInv
<1> QED
  BY <1>1, Inductive, PTL

(***************************************************************************)
(* The panel and the mediator are about the download of the visible tab,   *)
(* which has not been destroyed, interference or not.                      *)
(***************************************************************************)
THEOREM PanelFollowsTab == Spec => []PanelIsOfVisibleTab
<1>1. IInv => PanelIsOfVisibleTab
  BY DEF IInv, PanelInv, PanelIsOfVisibleTab
<1> QED
  BY <1>1, Inductive, PTL

(***************************************************************************)
(* What the panel shows of its download is so (UpdateConsumer).            *)
(***************************************************************************)
THEOREM PanelTellsTruth == Spec => []PanelIsTrue
<1>1. IInv => PanelIsTrue
  BY DEF IInv, ProgressInv, OrdinaryInv, ShownInv, PanelIsTrue
<1> QED
  BY <1>1, Inductive, PTL

(***************************************************************************)
(* Without interference nothing in progress is started again, and a        *)
(* confirmation stops or replaces what it was asked about.                 *)
(***************************************************************************)
THEOREM NothingFails == Spec => []NoFault
<1>1. IInv => NoFault
  BY DEF IInv, OrdinaryInv, NoFault, Running
<1> QED
  BY <1>1, Inductive, PTL

(***************************************************************************)
(* The DCHECKs with which the coordinator compares the tab that is hidden  *)
(* or shown with its panel never fail (download_manager_coordinator.mm).   *)
(***************************************************************************)
THEOREM HideAndShowAgree == Spec => [](fault # "assertion")
<1>1. IInv => fault # "assertion"
  BY DEF IInv
<1> QED
  BY <1>1, Inductive, PTL
=============================================================================
