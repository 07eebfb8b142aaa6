------------------------------ MODULE Overlays ------------------------------
(***************************************************************************)
(* The dialogs shown over a tab's content: OverlayPresenterImpl, which     *)
(* schedules the requests queued for each WebState, and                    *)
(* OverlayPresentationContextImpl with its OverlayRequestUIStates and      *)
(* coordinators, which puts them on screen.                                *)
(*                                                                         *)
(* Everything runs on the UI thread, and hiding or cancelling a dialog     *)
(* dismisses it within the call.  Only a dialog the user answers is        *)
(* dismissed with an animation: until that ends the coordinator is         *)
(* stopped, stopAnimated: does nothing more, and the presenter still       *)
(* counts the dialog as presented.                                         *)
(*                                                                         *)
(* The calls of presenter and context nest, so each is an operator on the  *)
(* record of their fields, and an action applies the outermost one.  A     *)
(* DCHECK that fails ends the behaviour with "failed" set.                 *)
(***************************************************************************)
EXTENDS Integers, Sequences, SequencesExt, FiniteSetsExt, FiniteSets

CONSTANTS None,           \* nullptr
          WebStates,      \* the tabs a behaviour may open
          Requests,       \* the overlay requests it may queue
          Interferences   \* the sets of events allowed beyond the ordinary ones

\* "switch": the active tab changes while a dialog animates out;
\* "container": the container coordinator or its window does so;
\* "insert": a request is inserted ahead of the front one;
\* "cancel": a cancel handler cancels one request and leaves the others.
InterferenceKinds == {"switch", "container", "insert", "cancel"}

ASSUME NoneAssumption == None \notin WebStates \union Requests
ASSUME InterferenceAssumption == Interferences \subseteq SUBSET InterferenceKinds

VARIABLES tabs,       \* what became of each WebState: "new", "open", "gone"
          overlays,   \* the queues, the presenter and the context
          asked,      \* the requests ever queued, oldest first
          answered,   \* those whose dialog the user has answered
          interference  \* the events allowed in this behaviour

vars == << tabs, overlays, asked, answered, interference >>

-----------------------------------------------------------------------------
(* The state.                                                              *)

Reasons == {"user", "hiding", "cancellation"}

\* An OverlayRequestUIState and the coordinator it holds.
UIStates ==
  [callback : BOOLEAN, reason : Reasons,
   coordinator : {"started", "leaving", "stopped"}]

NoUI == [coordinator |-> "none", callback |-> FALSE]

OverlayStates ==
  [queue      : [WebStates -> Seq(Requests)],
   active     : WebStates \union {None},     \* active_web_state_
   context    : BOOLEAN,                     \* presentation_context_
   presenting : BOOLEAN,
   presented  : Requests \union {None},      \* presented_request_
   request    : Requests \union {None},      \* the context's request_
   ui         : [Requests -> UIStates \union {NoUI}],
   container  : BOOLEAN,                     \* coordinator_
   failed     : BOOLEAN]

FrontRequest(s, w) ==
  IF w = None \/ s.queue[w] = << >> THEN None ELSE Head(s.queue[w])

GetActiveRequest(s) == FrontRequest(s, s.active)

\* Every coordinator class there is shows its dialog in a child view
\* controller, which any container coordinator can hold.
CanShowUIForRequest(s) == s.container

HasUI(s, r) == r # None /\ s.ui[r] # NoUI
HasCallback(s, r) == r # None /\ s.ui[r].callback

Fail(s) == [s EXCEPT !.failed = TRUE]

Erase(s, r) == [s EXCEPT !.ui[r] = NoUI]

-----------------------------------------------------------------------------
(* Showing a dialog: the context, then the presenter.                      *)

\* On screen from the call on, whether animated (the first time) or not.
ShowUIForPresentedRequest(s) ==
  IF s.request = None \/ ~s.container THEN s
  ELSE [s EXCEPT !.ui[s.request].coordinator = "started"]

SetRequest(s, r) ==
  LET old     == s.request
      settled == old = None \/ (HasUI(s, old) /\ ~HasCallback(s, old))
      over    == old # None /\ s.ui[old].reason \in {"user", "cancellation"}
  IN  IF old = r THEN s
      ELSE IF ~settled THEN Fail(s)
      ELSE ShowUIForPresentedRequest(
             [(IF over THEN Erase(s, old) ELSE s) EXCEPT !.request = r])

ShowOverlayUI(s, r) ==
  IF HasCallback(s, r) THEN Fail(s)
  ELSE SetRequest(
         [s EXCEPT !.ui[r] =
           [callback    |-> TRUE,
            reason      |-> "user",
            coordinator |-> IF HasUI(s, r) THEN s.ui[r].coordinator
                            ELSE "stopped"]], r)

PresentOverlayForActiveRequest(s) ==
  LET r == GetActiveRequest(s)
  IN  IF s.presenting THEN Fail(s)
      ELSE IF ~s.context \/ r = None \/ ~CanShowUIForRequest(s) THEN s
      ELSE ShowOverlayUI([s EXCEPT !.presenting = TRUE, !.presented = r], r)

-----------------------------------------------------------------------------
(* A dialog has left the screen.                                           *)

\* The queues without r at the front of one.
PopFrontRequest(s, r) ==
  [s EXCEPT !.queue = [w \in WebStates |-> IF FrontRequest(s, w) = r
                                           THEN Tail(s.queue[w])
                                           ELSE s.queue[w]]]

\* Mutant: presented_request_ is not reset.
OverlayWasDismissed_KeepsPresented(s, r, reason) ==
  LET popped == IF reason = "user" THEN PopFrontRequest(s, r) ELSE s
      idle   == [popped EXCEPT !.presenting = FALSE]
  IN  IF GetActiveRequest(idle) # r THEN PresentOverlayForActiveRequest(idle)
      ELSE idle

\* Mutant: the next overlay is shown only after the user's answer.
OverlayWasDismissed_OnlyUser(s, r, reason) ==
  LET popped == IF reason = "user" THEN PopFrontRequest(s, r) ELSE s
      idle   == [popped EXCEPT !.presenting = FALSE, !.presented = None]
  IN  IF reason = "user" THEN PresentOverlayForActiveRequest(idle) ELSE idle

\* Mutant: the request is not popped.
OverlayWasDismissed_NoPop(s, r, reason) ==
  LET idle == [s EXCEPT !.presenting = FALSE, !.presented = None]
  IN  IF GetActiveRequest(idle) # r THEN PresentOverlayForActiveRequest(idle)
      ELSE idle

OverlayWasDismissed(s, r, reason) ==
  LET popped   == IF reason = "user" THEN PopFrontRequest(s, r) ELSE s
      expected == IF s.presented # None THEN s.presented = r
                  ELSE reason = "cancellation"
      idle     == [popped EXCEPT !.presenting = FALSE, !.presented = None]
  IN  IF ~s.context THEN s
      ELSE IF ~expected THEN Fail(s)
      ELSE IF GetActiveRequest(idle) # r THEN PresentOverlayForActiveRequest(idle)
      ELSE idle

\* OverlayRequestUIState::OverlayUIWasDismissed: the callback runs once.
RunDismissalCallback(s) ==
  OverlayWasDismissed([s EXCEPT !.ui[s.request].callback = FALSE],
                      s.request, s.ui[s.request].reason)

\* The context's handler: the callback may already have shown another request.
OverlayUIWasDismissed(s) ==
  LET after == RunDismissalCallback(s)
  IN  IF ~HasCallback(s, s.request) THEN Fail(s)
      ELSE IF after.request = s.request THEN SetRequest(after, None)
      ELSE after

\* The delegate's handler of the end of a dismissal.
OverlayUIDidFinishDismissal(s, r) ==
  IF s.request # r THEN Fail(s)
  ELSE OverlayUIWasDismissed([s EXCEPT !.ui[r].coordinator = "stopped"])

-----------------------------------------------------------------------------
(* Taking a dialog off the screen: the context, then the presenter.        *)

\* stopAnimated:NO dismisses at once, and does nothing to a coordinator that
\* the user's answer already stopped: only the reason changes.
DismissPresentedUI(s, reason) ==
  LET t == [s EXCEPT !.ui[s.request].reason = reason]
  IN  IF ~HasUI(s, s.request) THEN Fail(s)
      ELSE IF s.ui[s.request].coordinator = "started"
      THEN OverlayUIDidFinishDismissal(t, s.request)
      ELSE t

HideOverlayUI(s, r) ==
  IF s.request # r \/ ~HasCallback(s, r) THEN Fail(s)
  ELSE IF s.container THEN DismissPresentedUI(s, "hiding")
  ELSE OverlayUIWasDismissed([s EXCEPT !.ui[r].reason = "hiding"])

\* OverlayPresenterImpl::CancelOverlayUIForRequest and the context's
\* CancelOverlayUI.
CancelOverlayUI(s, r) ==
  IF ~s.context \/ ~HasUI(s, r) THEN s
  ELSE IF ~HasCallback(s, r) THEN Erase(s, r)
  ELSE IF s.container THEN DismissPresentedUI(s, "cancellation")
  ELSE IF s.request # r THEN Fail(s)
  ELSE RunDismissalCallback([s EXCEPT !.ui[r].reason = "cancellation"])

-----------------------------------------------------------------------------
(* The presenter's handlers.                                               *)

\* Mutant: the dialog of the tab left behind stays.
SetActiveWebState_NoHide(s, w, cancel) ==
  LET t == [s EXCEPT !.active = w]
  IN  IF s.active = w \/ ~s.context \/ s.presenting THEN t
      ELSE PresentOverlayForActiveRequest(t)

\* "cancel" when the active WebState is being replaced or detached.
SetActiveWebState(s, w, cancel) ==
  LET previous == GetActiveRequest(s)
      t        == [s EXCEPT !.active = w]
  IN  IF s.active = w \/ ~s.context THEN t
      ELSE IF ~s.presenting THEN PresentOverlayForActiveRequest(t)
      ELSE IF previous = None THEN Fail(t)
      ELSE IF cancel THEN CancelOverlayUI(t, previous)
      ELSE HideOverlayUI(t, previous)

\* Mutant: whatever is presented makes room for a new front request.
RequestAddedToQueue_AlwaysHides(s, w, r) ==
  IF r # GetActiveRequest(s) THEN s
  ELSE IF ~s.presenting THEN PresentOverlayForActiveRequest(s)
  ELSE HideOverlayUI(s, s.presented)

RequestAddedToQueue(s, w, r) ==
  LET inserted == /\ s.presented # None
                  /\ Len(s.queue[w]) > 1
                  /\ s.queue[w][2] = s.presented
  IN  IF r # GetActiveRequest(s) THEN s
      ELSE IF ~s.presenting THEN PresentOverlayForActiveRequest(s)
      ELSE IF inserted THEN HideOverlayUI(s, s.presented)
      ELSE s

QueuedRequestCancelled(s, r) ==
  CancelOverlayUI(IF s.presented = r THEN [s EXCEPT !.presented = None] ELSE s, r)

\* The presenter observes the queues of the tabs of its browser.
Observed(w) == tabs[w] = "open" /\ overlays.context

\* A queue holds a request once.
Without(queue, r) == RemoveAt(queue, CHOOSE i \in DOMAIN queue : queue[i] = r)

\* OverlayRequestQueueImpl::CancelRequest: the observers first, then the queue.
CancelledIn(w, s, r) ==
  LET told == IF Observed(w) THEN QueuedRequestCancelled(s, r) ELSE s
  IN  IF r \notin ToSet(s.queue[w]) THEN s
      ELSE [told EXCEPT !.queue[w] = Without(@, r)]

\* The requests of a sequence cancelled one after the other.
CancelledAll(w, s, rs) ==
  LET after[k \in 0 .. Len(rs)] ==
        IF k = 0 THEN s ELSE CancelledIn(w, after[k - 1], rs[k])
  IN  after[Len(rs)]

\* The queue goes with its WebState, once the presenter no longer observes it.
Destroyed(s, w) == [s EXCEPT !.queue[w] = << >>]

-----------------------------------------------------------------------------
(* The events.                                                             *)

Init ==
  /\ tabs = [w \in WebStates |-> "new"]
  /\ overlays = [queue      |-> [w \in WebStates |-> << >>],
                 active     |-> None,
                 context    |-> TRUE,
                 presenting |-> FALSE,
                 presented  |-> None,
                 request    |-> None,
                 ui         |-> [r \in Requests |-> NoUI],
                 container  |-> FALSE,
                 failed     |-> FALSE]
  /\ asked = << >>
  /\ answered = {}
  /\ interference \in Interferences

Running == overlays.context /\ ~overlays.failed

Open == {w \in WebStates : tabs[w] = "open"}

Leaving == {r \in Requests : overlays.ui[r].coordinator = "leaving"}

\* The bound on what may happen while a dialog animates out.
Allowed(kind) == Leaving = {} \/ kind \in interference

\* InsertRequest; AddRequest is the case of the last index.
InsertRequest(w, r, i) ==
  /\ Running /\ tabs[w] # "gone" /\ r \notin ToSet(asked)
  /\ i = 1 /\ overlays.queue[w] # << >> => "insert" \in interference
  /\ LET s == [overlays EXCEPT !.queue[w] = InsertAt(@, i, r)]
     IN  overlays' = IF Observed(w) THEN RequestAddedToQueue(s, w, r) ELSE s
  /\ asked' = Append(asked, r)
  /\ UNCHANGED << tabs, answered, interference >>

\* A navigation commits or the renderer is gone: the default cancel handlers,
\* observers of the WebState since their request was queued, cancel all of them.
DidFinishNavigation(w) ==
  /\ Running /\ tabs[w] # "gone" /\ overlays.queue[w] # << >>
  /\ overlays' = CancelledAll(w, overlays, asked)
  /\ UNCHANGED << tabs, asked, answered, interference >>

\* From the last one on.
CancelAllRequests(w) ==
  /\ Running /\ tabs[w] # "gone" /\ overlays.queue[w] # << >>
  /\ overlays' = CancelledAll(w, overlays, Reverse(overlays.queue[w]))
  /\ UNCHANGED << tabs, asked, answered, interference >>

\* A cancel handler of its own cancels this request only.
CancelRequest(w, r) ==
  /\ Running /\ r \in ToSet(overlays.queue[w])
  /\ "cancel" \in interference
  /\ overlays' = CancelledIn(w, overlays, r)
  /\ UNCHANGED << tabs, asked, answered, interference >>

\* The user taps a button: the mediator has the coordinator stop, animated.
StopOverlayForMediator(r) ==
  /\ Running /\ overlays.ui[r].coordinator = "started"
  /\ overlays' = [overlays EXCEPT !.ui[r].coordinator = "leaving"]
  /\ answered' = answered \union {r}
  /\ UNCHANGED << tabs, asked, interference >>

\* The animation ends.
ContainedPresenterDidDismiss(r) ==
  /\ Running /\ r \in Leaving
  /\ overlays' = OverlayUIDidFinishDismissal(overlays, r)
  /\ UNCHANGED << tabs, asked, answered, interference >>

WebStateInserted(w, activating) ==
  /\ Running /\ tabs[w] = "new"
  /\ activating => Allowed("switch")
  /\ tabs' = [tabs EXCEPT ![w] = "open"]
  /\ overlays' = IF activating THEN SetActiveWebState(overlays, w, FALSE)
                 ELSE overlays
  /\ UNCHANGED << asked, answered, interference >>

WebStateActivated(w) ==
  /\ Running /\ w \in Open \ {overlays.active} /\ Allowed("switch")
  /\ overlays' = SetActiveWebState(overlays, w, FALSE)
  /\ UNCHANGED << tabs, asked, answered, interference >>

\* CloseWebStateAt: the list always has another tab become active when there
\* is one, and destroys the detached WebState last.
WebStateClosed(w) ==
  /\ Running /\ w \in Open
  /\ tabs' = [tabs EXCEPT ![w] = "gone"]
  /\ IF w = overlays.active
     THEN /\ Allowed("switch")
          /\ \E next \in IF Open = {w} THEN {None} ELSE Open \ {w} :
               overlays' = Destroyed(SetActiveWebState(overlays, next, TRUE), w)
     ELSE overlays' = Destroyed(
                        CancelOverlayUI(overlays, FrontRequest(overlays, w)), w)
  /\ UNCHANGED << asked, answered, interference >>

WebStateReplaced(w, new) ==
  /\ Running /\ w \in Open /\ tabs[new] = "new"
  /\ tabs' = [tabs EXCEPT ![w] = "gone", ![new] = "open"]
  /\ IF w = overlays.active
     THEN /\ Allowed("switch")
          /\ overlays' = Destroyed(SetActiveWebState(overlays, new, TRUE), w)
     ELSE overlays' = Destroyed(
                        CancelOverlayUI(overlays, FrontRequest(overlays, w)), w)
  /\ UNCHANGED << asked, answered, interference >>

\* Mutant: nothing is presented when the container comes back.
UpdateForCoordinator_NoPresent(s, on) ==
  LET willChange == IF s.presenting /\ ~on
                    THEN HideOverlayUI(s, GetActiveRequest(s)) ELSE s
  IN  [willChange EXCEPT !.container = on]

\* The container coordinator comes or goes: the presenter hides what can no
\* longer be shown before, and presents what can be shown after.  Asking
\* whether no request at all can be shown is a failure.
UpdateForCoordinator(s, on) ==
  LET r          == GetActiveRequest(s)
      willChange == IF ~s.presenting THEN s
                    ELSE IF r = None THEN Fail(s)
                    ELSE IF on THEN s
                    ELSE HideOverlayUI(s, r)
      changed    == [willChange EXCEPT !.container = on]
  IN  IF changed.presenting THEN changed
      ELSE PresentOverlayForActiveRequest(changed)

SetCoordinator ==
  /\ Running /\ Allowed("container")
  /\ overlays' = UpdateForCoordinator(overlays, ~overlays.container)
  /\ UNCHANGED << tabs, asked, answered, interference >>

\* The container's view moves to a window or out of it: a change of the
\* capability to present modally, which no coordinator needs.
WindowDidChange ==
  /\ Running /\ overlays.container /\ Allowed("container")
  /\ overlays' = UpdateForCoordinator(overlays, TRUE)
  /\ UNCHANGED << tabs, asked, answered, interference >>

\* Mutant: the dialogs are not cancelled.
WithoutContext_NoCancel(s) ==
  [s EXCEPT !.context = FALSE, !.presenting = FALSE, !.presented = None]

\* The UI of each tab's front request, one tab after the other.
CancelAllOverlayUI(s, ws) ==
  LET after[k \in 0 .. Len(ws)] ==
        IF k = 0 THEN s
        ELSE CancelOverlayUI(after[k - 1], FrontRequest(after[k - 1], ws[k]))
  IN  after[Len(ws)]

\* SetPresentationContext(nullptr).
WithoutContext(s) ==
  [CancelAllOverlayUI(s, SetToSeq(Open)) EXCEPT
     !.context = FALSE, !.presenting = FALSE, !.presented = None]

BrowserDestroyed ==
  /\ Running
  /\ overlays' = SetActiveWebState(WithoutContext(overlays), None, FALSE)
  /\ UNCHANGED << tabs, asked, answered, interference >>

Ended == ~Running /\ UNCHANGED vars

Next ==
  \/ \E w \in WebStates :
       \/ \E r \in Requests :
            \/ \E i \in 1 .. Len(overlays.queue[w]) + 1 : InsertRequest(w, r, i)
            \/ CancelRequest(w, r)
       \/ DidFinishNavigation(w)
       \/ CancelAllRequests(w)
       \/ \E activating \in BOOLEAN : WebStateInserted(w, activating)
       \/ WebStateActivated(w)
       \/ WebStateClosed(w)
       \/ \E new \in WebStates : WebStateReplaced(w, new)
  \/ \E r \in Requests : StopOverlayForMediator(r) \/ ContainedPresenterDidDismiss(r)
  \/ SetCoordinator
  \/ WindowDidChange
  \/ BrowserDestroyed
  \/ Ended

\* Animations end; users, pages and tabs need do nothing.
Fairness == WF_vars(\E r \in Requests : ContainedPresenterDidDismiss(r))

Spec == Init /\ [][Next]_vars /\ Fairness

-----------------------------------------------------------------------------
(* What must hold.                                                         *)

OnScreen == {r \in Requests : overlays.ui[r].coordinator = "started"}

\* The types, and the header's contract of presented_request_: it is reset
\* with presenting_ (overlay_presenter_impl.h).
TypeOK ==
  /\ tabs \in [WebStates -> {"new", "open", "gone"}]
  /\ overlays \in OverlayStates
  /\ answered \subseteq ToSet(asked) /\ asked \in Seq(Requests)
  /\ overlays.presented # None => overlays.presenting
  /\ interference \in Interferences

\* No DCHECK of presenter, context and UI states ever fails: the request they
\* are told to hide is the one presented, callbacks are there when they are
\* run and not replaced before, and a dismissed request was the presented one;
\* as long as tabs and container wait for a dialog that animates out.
NoAssertionFails ==
  interference \subseteq {"insert", "cancel"} => ~overlays.failed

\* At most one dialog is on screen, and it is the one of the front request of
\* the active tab: switching, closing, replacing, cancelling and inserting
\* leave none behind over another page.
DialogIsOfActiveTab ==
  ~overlays.failed =>
    \A r \in OnScreen : r = GetActiveRequest(overlays) /\ r = overlays.presented

\* An idle presenter with a container has nothing to present: whatever ended
\* the last presentation, the next request is not forgotten.
NoRequestIsForgotten ==
  (Running /\ overlays.container /\ ~overlays.presenting) =>
    GetActiveRequest(overlays) = None

\* A dialog the user has answered is never shown again
\* (overlay_dismissal_callback.h).
AnsweredStaysAnswered == answered \intersect OnScreen = {}

\* What the presenter's shutdown leaves: no dialog on screen.
NothingShownAfterShutdown == ~overlays.context => OnScreen = {}

\* Every request that reaches the front of the active tab's queue is shown,
\* unless it is cancelled, another takes its place, or the tab, the container
\* or the browser goes.
EveryRequestGetsItsTurn ==
  \A r \in Requests :
    (GetActiveRequest(overlays) = r /\ overlays.container) ~>
      \/ r \in OnScreen
      \/ GetActiveRequest(overlays) # r
      \/ ~overlays.container
=============================================================================
