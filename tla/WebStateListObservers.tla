------------------------ MODULE WebStateListObservers ------------------------
(***************************************************************************)
(* What the observers of a WebStateList make of its notifications.  Three  *)
(* observers that keep state of their own are modelled:                    *)
(*                                                                         *)
(*  - ActiveWebStateObservationForwarder, which observes the active        *)
(*    WebState (field "active": the sources of its ScopedObserver, to      *)
(*    which Add appends and from which Remove takes one occurrence),       *)
(*  - AllWebStateObservationForwarder, which observes every WebState of    *)
(*    the list (field "all"),                                              *)
(*  - TabGridMediator and its consumer GridViewController, which keep a    *)
(*    copy of the list and of the selection (fields "items", "selected").  *)
(*                                                                         *)
(* None of them ever reads the list to find out what changed, except for   *)
(* the active WebState: they live from the notifications alone.            *)
(***************************************************************************)
EXTENDS Integers, Sequences, SequencesExt

CONSTANT
  \* @type: the null WebState pointer
  None

(***************************************************************************)
(* WebStateInsertedAt: "active" is the WebState that GetActiveTabId reads  *)
(* from the list while the notification is delivered, before any           *)
(* activation of the inserted WebState.                                    *)
(***************************************************************************)
WebStateInsertedAt(o, w, index, active) ==
  [o EXCEPT !.all = @ \union {w},
            !.items = InsertAt(@, index, w),
            !.selected = active]

WebStateMoved(o, w, to) ==
  [o EXCEPT !.items = InsertAt(RemoveFirst(@, w), to, w)]

\* -replaceItemID:withItem: leaves the selected item ID alone.
WebStateReplacedAt(o, old, new) ==
  [o EXCEPT !.all = (@ \ {old}) \union {new},
            !.items = ReplaceAll(@, old, new)]

WebStateDetachedAt(o, w, active) ==
  [o EXCEPT !.all = @ \ {w},
            !.items = RemoveFirst(@, w),
            !.selected = active]

WebStateActivatedAt(o, old, new) ==
  [o EXCEPT !.active = RemoveFirst(@, old) \o (IF new = None THEN << >> ELSE << new >>),
            !.selected = new]

(***************************************************************************)
(* NotifyIfActiveWebStateChanged: nothing is sent when the active WebState *)
(* is the one the caller says was active before.                           *)
(***************************************************************************)
NotifyIfActiveWebStateChanged(o, old, new) ==
  IF old = new THEN o ELSE WebStateActivatedAt(o, old, new)
==============================================================================
