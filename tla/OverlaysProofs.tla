--------------------------- MODULE OverlaysProofs ---------------------------
(***************************************************************************)
(* Theorems about Overlays, and their proofs.                              *)
(*                                                                         *)
(* The calls of presenter and context nest, so the proofs go from the      *)
(* innermost operator to the outermost: a predicate on the records before  *)
(* and after says what an operator does to their fields, a lemma that the  *)
(* operator does it, and the lemmas about its callers use no more.         *)
(***************************************************************************)
EXTENDS Overlays, ListLemmas, FiniteSetTheorems

-----------------------------------------------------------------------------
(* The fields of the record.                                               *)

(***************************************************************************)
(* The fields have their types, and presented_request_ is reset with       *)
(* presenting_.                                                            *)
(***************************************************************************)
Typed(s) ==
  /\ s \in OverlayStates
  /\ s.presented # None => s.presenting

SameTabs(s, t) ==
  t.active = s.active /\ t.context = s.context /\ t.container = s.container

SamePresenter(s, t) ==
  /\ SameTabs(s, t) /\ t.queue = s.queue
  /\ t.presenting = s.presenting /\ t.presented = s.presented

NewUI(s, t, r, u) ==
  /\ Typed(t) /\ SamePresenter(s, t)
  /\ t.request = s.request /\ t.failed = s.failed
  /\ t.ui[r] = u /\ \A q \in Requests \ {r} : t.ui[q] = s.ui[q]

NewRequest(s, t, r) ==
  /\ Typed(t) /\ SamePresenter(s, t)
  /\ t.request = r /\ t.ui = s.ui /\ t.failed = s.failed

HasFailed(s, t) ==
  /\ Typed(t) /\ SamePresenter(s, t)
  /\ t.request = s.request /\ t.ui = s.ui /\ t.failed

LEMMA FailEffect ==
  ASSUME NEW s, Typed(s)
  PROVE  HasFailed(s, Fail(s))
BY DEF Typed, OverlayStates, Fail, SameTabs, SamePresenter, HasFailed

LEMMA UIEffect ==
  ASSUME NEW s, Typed(s), NEW r \in Requests, NEW u \in UIStates \union {NoUI}
  PROVE  NewUI(s, [s EXCEPT !.ui[r] = u], r, u)
BY DEF Typed, OverlayStates, SameTabs, SamePresenter, NewUI

LEMMA EraseEffect ==
  ASSUME NEW s, Typed(s), NEW r \in Requests
  PROVE  NewUI(s, Erase(s, r), r, NoUI)
BY UIEffect DEF Erase

LEMMA RequestEffect ==
  ASSUME NEW s, Typed(s), NEW r \in Requests \union {None}
  PROVE  NewRequest(s, [s EXCEPT !.request = r], r)
BY DEF Typed, OverlayStates, SameTabs, SamePresenter, NewRequest

LEMMA UIFields ==
  ASSUME NEW s, Typed(s), NEW r \in Requests, s.ui[r] # NoUI
  PROVE  /\ s.ui[r] \in UIStates
         /\ [s.ui[r] EXCEPT !.callback = FALSE] \in UIStates
         /\ [s EXCEPT !.ui[r].callback = FALSE]
            = [s EXCEPT !.ui[r] = [s.ui[r] EXCEPT !.callback = FALSE]]
         /\ \A c \in {"started", "leaving", "stopped"} :
              /\ [s.ui[r] EXCEPT !.coordinator = c] \in UIStates
              /\ [s EXCEPT !.ui[r].coordinator = c]
                 = [s EXCEPT !.ui[r] = [s.ui[r] EXCEPT !.coordinator = c]]
         /\ \A reason \in Reasons :
              /\ [s.ui[r] EXCEPT !.reason = reason] \in UIStates
              /\ [s EXCEPT !.ui[r].reason = reason]
                 = [s EXCEPT !.ui[r] = [s.ui[r] EXCEPT !.reason = reason]]
BY DEF Typed, OverlayStates, UIStates

(***************************************************************************)
(* One field of a request's UI state changes.                              *)
(***************************************************************************)
LEMMA CallbackEffect ==
  ASSUME NEW s, Typed(s), NEW r \in Requests, s.ui[r] # NoUI
  PROVE  NewUI(s, [s EXCEPT !.ui[r].callback = FALSE], r,
               [s.ui[r] EXCEPT !.callback = FALSE])
BY UIFields, UIEffect

LEMMA CoordinatorEffect ==
  ASSUME NEW s, Typed(s), NEW r \in Requests, s.ui[r] # NoUI,
         NEW c \in {"started", "leaving", "stopped"}
  PROVE  NewUI(s, [s EXCEPT !.ui[r].coordinator = c], r,
               [s.ui[r] EXCEPT !.coordinator = c])
BY UIFields, UIEffect

LEMMA ReasonEffect ==
  ASSUME NEW s, Typed(s), NEW r \in Requests, s.ui[r] # NoUI,
         NEW reason \in Reasons
  PROVE  NewUI(s, [s EXCEPT !.ui[r].reason = reason], r,
               [s.ui[r] EXCEPT !.reason = reason])
BY UIFields, UIEffect

(***************************************************************************)
(* The front request of a tab is a request or none at all.                 *)
(***************************************************************************)
LEMMA FrontType ==
  ASSUME NEW s \in OverlayStates, NEW w \in WebStates \union {None}
  PROVE  FrontRequest(s, w) \in Requests \union {None}
<1>1. CASE w = None \/ s.queue[w] = << >>
  BY <1>1 DEF FrontRequest
<1>2. CASE ~(w = None \/ s.queue[w] = << >>)
  <2>1. s.queue[w] \in Seq(Requests) /\ s.queue[w] # << >>
    BY <1>2 DEF OverlayStates
  <2>2. Head(s.queue[w]) \in Requests
    BY <2>1
  <2> QED
    BY <1>2, <2>2 DEF FrontRequest
<1> QED
  BY <1>1, <1>2

LEMMA ActiveRequestType ==
  ASSUME NEW s, Typed(s)
  PROVE  GetActiveRequest(s) \in Requests \union {None}
BY FrontType DEF GetActiveRequest, OverlayStates, Typed

LEMMA SameFront ==
  ASSUME NEW s, NEW t, t.queue = s.queue, t.active = s.active
  PROVE  GetActiveRequest(t) = GetActiveRequest(s)
BY DEF GetActiveRequest, FrontRequest

-----------------------------------------------------------------------------
(* Showing a dialog.                                                       *)

(***************************************************************************)
(* The context may turn to another request.                                *)
(***************************************************************************)
Settled(s) ==
  s.request = None \/ (HasUI(s, s.request) /\ ~HasCallback(s, s.request))

(***************************************************************************)
(* SetRequest with a request whose UI state is there.                      *)
(***************************************************************************)
SetsRequest(s, t, r) ==
  /\ Typed(t) /\ SamePresenter(s, t)
  /\ t.failed <=> (s.failed \/ ~Settled(s))
  /\ Settled(s) =>
       /\ t.request = r
       /\ t.ui[r] = [s.ui[r] EXCEPT !.coordinator = "started"]
       /\ \A q \in Requests \ {r} :
            t.ui[q] = s.ui[q] \/ (t.ui[q] = NoUI /\ q = s.request)

LEMMA SetRequestEffect ==
  ASSUME NEW s, Typed(s), s.container, NEW r \in Requests, s.ui[r] # NoUI,
         r # s.request
  PROVE  SetsRequest(s, SetRequest(s, r), r)
<1> DEFINE old  == s.request
           over == old # None /\ s.ui[old].reason \in {"user", "cancellation"}
           base == IF over THEN Erase(s, old) ELSE s
           next == [base EXCEPT !.request = r]
           t    == SetRequest(s, r)
<1>0. r # None /\ old \in Requests \union {None}
  BY NoneAssumption DEF Typed, OverlayStates
<1>1. CASE ~Settled(s)
  <2>1. t = Fail(s)
    BY <1>1 DEF SetRequest, Settled
  <2>2. HasFailed(s, t)
    BY <2>1, FailEffect
  <2> QED
    BY <1>1, <2>2 DEF HasFailed, SetsRequest
<1>2. CASE Settled(s)
  <2>1. /\ Typed(base) /\ SamePresenter(s, base)
        /\ base.failed = s.failed /\ base.ui[r] = s.ui[r]
        /\ \A q \in Requests \ {r} : \/ base.ui[q] = s.ui[q]
                                     \/ base.ui[q] = NoUI /\ q = s.request
    <3>1. CASE over
      <4>1. NewUI(s, base, old, NoUI)
        BY <1>0, <3>1, EraseEffect
      <4> QED
        BY <1>0, <3>1, <4>1 DEF NewUI
    <3>2. CASE ~over
      BY <3>2 DEF SamePresenter, SameTabs
    <3> QED
      BY <3>1, <3>2
  <2>2. t = ShowUIForPresentedRequest(next)
    BY <1>2 DEF SetRequest, Settled
  <2> HIDE DEF base, t
  <2>3. NewRequest(base, next, r)
    BY <2>1, RequestEffect
  <2> HIDE DEF next
  <2>4. t = [next EXCEPT !.ui[r].coordinator = "started"] /\ next.ui[r] # NoUI
    BY <1>0, <2>1, <2>2, <2>3
       DEF ShowUIForPresentedRequest, NewRequest, SamePresenter, SameTabs
  <2>5. NewUI(next, t, r, [next.ui[r] EXCEPT !.coordinator = "started"])
    BY <2>3, <2>4, CoordinatorEffect DEF NewRequest
  <2>6. SetsRequest(s, t, r)
    BY <1>2, <2>1, <2>3, <2>5
       DEF SetsRequest, NewRequest, NewUI, SamePresenter, SameTabs
  <2> QED
    BY <2>6 DEF t
<1> QED
  BY <1>1, <1>2

(***************************************************************************)
(* With none: the UI state of the one before goes if its dialog is not to  *)
(* be shown again.                                                         *)
(***************************************************************************)
ResetsRequest(s, t) ==
  /\ Typed(t) /\ SamePresenter(s, t)
  /\ t.failed <=> (s.failed \/ ~Settled(s))
  /\ Settled(s) => t.request = None
  /\ \A q \in Requests \ {s.request} : t.ui[q] = s.ui[q]
  /\ t.ui[s.request] = s.ui[s.request] \/ t.ui[s.request] = NoUI

LEMMA ResetRequestEffect ==
  ASSUME NEW s, Typed(s), s.request \in Requests
  PROVE  ResetsRequest(s, SetRequest(s, None))
<1> DEFINE t == SetRequest(s, None)
           e == Erase(s, s.request)
<1>0. s.request # None
  BY NoneAssumption
<1>1. CASE ~Settled(s)
  <2>1. t = Fail(s)
    BY <1>0, <1>1 DEF SetRequest, Settled
  <2>2. HasFailed(s, t)
    BY <2>1, FailEffect
  <2> QED
    BY <1>1, <2>2 DEF HasFailed, ResetsRequest
<1>2. CASE Settled(s) /\ s.ui[s.request].reason \in {"user", "cancellation"}
  <2>1. t = ShowUIForPresentedRequest([e EXCEPT !.request = None])
    BY <1>0, <1>2 DEF SetRequest, Settled
  <2>2. NewUI(s, e, s.request, NoUI)
    BY EraseEffect
  <2> HIDE DEF e, t
  <2>3. NewRequest(e, [e EXCEPT !.request = None], None)
    BY <2>2, RequestEffect DEF NewUI
  <2>4. t = [e EXCEPT !.request = None]
    BY <2>1, <2>3 DEF ShowUIForPresentedRequest, NewRequest
  <2>5. NewRequest(e, t, None)
    BY <2>3, <2>4
  <2> QED
    BY <1>2, <2>2, <2>5
       DEF ResetsRequest, NewUI, NewRequest, SamePresenter, SameTabs, t
<1>3. CASE Settled(s) /\ s.ui[s.request].reason \notin {"user", "cancellation"}
  <2>1. t = ShowUIForPresentedRequest([s EXCEPT !.request = None])
    BY <1>0, <1>3 DEF SetRequest, Settled
  <2> HIDE DEF t
  <2>2. NewRequest(s, [s EXCEPT !.request = None], None)
    BY RequestEffect
  <2>3. t = [s EXCEPT !.request = None]
    BY <2>1, <2>2 DEF ShowUIForPresentedRequest, NewRequest
  <2>4. NewRequest(s, t, None)
    BY <2>2, <2>3
  <2> QED
    BY <1>3, <2>4 DEF ResetsRequest, NewRequest, t
<1> QED
  BY <1>1, <1>2, <1>3

(***************************************************************************)
(* A request is presented: its dialog is shown, unless its request is      *)
(* current already.                                                        *)
(***************************************************************************)
Presents(s, t, r) ==
  /\ t.presenting /\ t.presented = r /\ t.request = r
  /\ t.ui[r].callback /\ t.ui[r].reason = "user"
  /\ t.ui[r].coordinator = IF s.request # r THEN "started"
                           ELSE IF s.ui[r] = NoUI THEN "stopped"
                           ELSE s.ui[r].coordinator
  /\ \A q \in Requests \ {r} :
       t.ui[q] = s.ui[q] \/ (t.ui[q] = NoUI /\ q = s.request)

Shows(s, t, r) ==
  /\ Typed(t) /\ SameTabs(s, t) /\ t.queue = s.queue
  /\ t.failed <=> (s.failed \/ s.ui[r].callback
                            \/ (s.request # r /\ ~Settled(s)))
  /\ ~t.failed => Presents(s, t, r)

LEMMA ShowOverlayUIEffect ==
  ASSUME NEW s, Typed(s), s.container, s.presenting, NEW r \in Requests,
         s.presented = r
  PROVE  Shows(s, ShowOverlayUI(s, r), r)
<1> DEFINE t == ShowOverlayUI(s, r)
           c == IF s.ui[r] # NoUI THEN s.ui[r].coordinator ELSE "stopped"
           u == [callback |-> TRUE, reason |-> "user", coordinator |-> c]
           next == [s EXCEPT !.ui[r] = u]
<1>0. r # None /\ s.ui[r] \in UIStates \union {NoUI}
  BY NoneAssumption DEF Typed, OverlayStates
<1>1. CASE s.ui[r].callback
  <2>1. t = Fail(s)
    BY <1>0, <1>1 DEF ShowOverlayUI, HasCallback
  <2>2. HasFailed(s, t)
    BY <2>1, FailEffect
  <2> QED
    BY <1>1, <2>2 DEF HasFailed, Shows, SamePresenter
<1>2. CASE ~s.ui[r].callback
  <2>1. u \in UIStates
    BY <1>0 DEF UIStates, Reasons, NoUI
  <2>2. t = SetRequest(next, r)
    BY <1>0, <1>2 DEF ShowOverlayUI, HasCallback, HasUI
  <2>3. u.callback /\ u.reason = "user" /\ u.coordinator = c /\ u # NoUI
    BY <2>1 DEF NoUI, UIStates
  <2> HIDE DEF u, t, c
  <2>4. NewUI(s, next, r, u)
    BY <2>1, UIEffect
  <2> HIDE DEF next
  <2>5. CASE s.request = r
    <3>1. t = next
      BY <2>2, <2>4, <2>5 DEF SetRequest, NewUI
    <3> QED
      BY <1>2, <2>3, <2>4, <2>5, <3>1
         DEF Shows, Presents, NewUI, SamePresenter, SameTabs, t, c
  <2>6. CASE s.request # r
    <3>1. Settled(next) <=> Settled(s)
      BY <2>4, <2>6, NoneAssumption
         DEF Settled, HasUI, HasCallback, Typed, OverlayStates, NewUI
    <3>2. SetsRequest(next, t, r)
      BY <2>2, <2>3, <2>4, <2>6, SetRequestEffect
         DEF NewUI, SamePresenter, SameTabs
    <3>3. /\ Typed(t) /\ SameTabs(s, t) /\ t.queue = s.queue
          /\ t.failed <=> (s.failed \/ ~Settled(s))
      BY <2>4, <3>1, <3>2 DEF SetsRequest, NewUI, SamePresenter, SameTabs
    <3>4. ASSUME ~t.failed PROVE Presents(s, t, r)
      <4>1. t.ui[r] = [u EXCEPT !.coordinator = "started"] /\ t.request = r
        BY <2>4, <3>1, <3>2, <3>3, <3>4 DEF SetsRequest, NewUI
      <4>2. t.ui[r].callback /\ t.ui[r].reason = "user"
            /\ t.ui[r].coordinator = "started"
        BY <2>1, <2>3, <4>1 DEF UIStates
      <4> QED
        BY <2>4, <2>6, <3>1, <3>2, <3>3, <3>4, <4>1, <4>2
           DEF Presents, SetsRequest, NewUI, SamePresenter
    <3> QED
      BY <1>2, <2>6, <3>3, <3>4 DEF Shows, t
  <2> QED
    BY <2>5, <2>6
<1> QED
  BY <1>1, <1>2

(***************************************************************************)
(* The presenter tries to present the active tab's request.                *)
(***************************************************************************)
Blocked(s) == ~s.context \/ GetActiveRequest(s) = None \/ ~s.container

TriesToPresent(s, t) ==
  LET a == GetActiveRequest(s) IN
  /\ Typed(t) /\ SameTabs(s, t) /\ t.queue = s.queue
  /\ s.failed => t.failed
  /\ s.presenting => HasFailed(s, t)
  /\ ~s.presenting /\ Blocked(s) => t = s
  /\ ~s.presenting /\ ~Blocked(s) =>
       /\ a \in Requests
       /\ t.failed <=> (s.failed \/ s.ui[a].callback
                                 \/ (s.request # a /\ ~Settled(s)))
       /\ ~t.failed => Presents(s, t, a)

LEMMA PresentEffect ==
  ASSUME NEW s, Typed(s)
  PROVE  TriesToPresent(s, PresentOverlayForActiveRequest(s))
<1> DEFINE t == PresentOverlayForActiveRequest(s)
           a == GetActiveRequest(s)
           next == [s EXCEPT !.presenting = TRUE, !.presented = a]
<1>0. a \in Requests \union {None}
  BY ActiveRequestType
<1>1. CASE s.presenting
  <2>1. t = Fail(s)
    BY <1>1 DEF PresentOverlayForActiveRequest
  <2>2. HasFailed(s, t)
    BY <2>1, FailEffect
  <2> QED
    BY <1>1, <2>2 DEF TriesToPresent, HasFailed, SamePresenter
<1>2. CASE ~s.presenting /\ Blocked(s)
  <2>1. t = s
    BY <1>2 DEF PresentOverlayForActiveRequest, CanShowUIForRequest, Blocked
  <2> QED
    BY <1>2, <2>1 DEF SameTabs, TriesToPresent
<1>3. CASE ~s.presenting /\ ~Blocked(s)
  <2>1. t = ShowOverlayUI(next, a)
    BY <1>3 DEF PresentOverlayForActiveRequest, CanShowUIForRequest, Blocked
  <2>2. a \in Requests /\ s.container
    BY <1>0, <1>3 DEF Blocked
  <2> HIDE DEF a, t
  <2>3. /\ Typed(next) /\ SameTabs(s, next) /\ next.queue = s.queue
        /\ next.request = s.request /\ next.ui = s.ui
        /\ next.presenting /\ next.presented = a
        /\ next.failed = s.failed /\ next.container
    BY <2>2 DEF Typed, OverlayStates, SameTabs
  <2> HIDE DEF next
  <2>4. Settled(next) <=> Settled(s)
    BY <2>3 DEF Settled, HasUI, HasCallback
  <2>5. Shows(next, t, a)
    BY <2>1, <2>2, <2>3, ShowOverlayUIEffect
  <2>6. Presents(next, t, a) => Presents(s, t, a)
    BY <2>3 DEF Presents
  <2> QED
    BY <1>3, <2>2, <2>3, <2>4, <2>5, <2>6
       DEF SameTabs, Shows, TriesToPresent, a, t
<1> QED
  BY <1>1, <1>2, <1>3

-----------------------------------------------------------------------------
(* A dialog has left the screen.                                           *)

(***************************************************************************)
(* What presented_request_ must be, what the queues are then, and whether  *)
(* there is something to present.                                          *)
(***************************************************************************)
Expected(s, r, reason) ==
  IF s.presented # None THEN s.presented = r ELSE reason = "cancellation"

QueueAfter(s, r, reason) ==
  IF reason = "user"
  THEN [w \in WebStates |-> IF FrontRequest(s, w) = r THEN Tail(s.queue[w])
                            ELSE s.queue[w]]
  ELSE s.queue

NothingNext(t, r) ==
  GetActiveRequest(t) = r \/ GetActiveRequest(t) = None \/ ~t.container

LEMMA QueueAfterType ==
  ASSUME NEW s, Typed(s), NEW r \in Requests, NEW reason
  PROVE  QueueAfter(s, r, reason) \in [WebStates -> Seq(Requests)]
<1>1. s.queue \in [WebStates -> Seq(Requests)]
  BY DEF Typed, OverlayStates
<1>2. ASSUME NEW w \in WebStates, FrontRequest(s, w) = r
      PROVE  Tail(s.queue[w]) \in Seq(Requests)
  <2>1. s.queue[w] # << >>
    BY <1>2, NoneAssumption DEF FrontRequest
  <2> QED
    BY <1>1, <2>1
<1> QED
  BY <1>1, <1>2 DEF QueueAfter

WasDismissed(s, t, r, reason) ==
  LET a == GetActiveRequest(t) IN
  /\ Typed(t) /\ SameTabs(s, t)
  /\ s.failed => t.failed
  /\ ~Expected(s, r, reason) => HasFailed(s, t)
  /\ Expected(s, r, reason) => t.queue = QueueAfter(s, r, reason)
  /\ Expected(s, r, reason) /\ NothingNext(t, r) =>
       /\ ~t.presenting /\ t.presented = None
       /\ t.ui = s.ui /\ t.request = s.request /\ t.failed = s.failed
  /\ Expected(s, r, reason) /\ ~NothingNext(t, r) =>
       /\ a \in Requests
       /\ t.failed <=> (s.failed \/ s.ui[a].callback
                                 \/ (s.request # a /\ ~Settled(s)))
       /\ ~t.failed => Presents(s, t, a)

LEMMA WasDismissedEffect ==
  ASSUME NEW s, Typed(s), s.context, NEW r \in Requests, NEW reason \in Reasons
  PROVE  WasDismissed(s, OverlayWasDismissed(s, r, reason), r, reason)
<1> DEFINE t == OverlayWasDismissed(s, r, reason)
           popped == IF reason = "user" THEN PopFrontRequest(s, r) ELSE s
           idle == [popped EXCEPT !.presenting = FALSE, !.presented = None]
<1>1. CASE ~Expected(s, r, reason)
  <2>1. t = Fail(s)
    BY <1>1 DEF OverlayWasDismissed, Expected
  <2>2. HasFailed(s, t)
    BY <2>1, FailEffect
  <2> QED
    BY <1>1, <2>2 DEF WasDismissed, HasFailed, SamePresenter
<1>2. CASE Expected(s, r, reason)
  <2>1. t = IF GetActiveRequest(idle) # r
            THEN PresentOverlayForActiveRequest(idle) ELSE idle
    BY <1>2 DEF OverlayWasDismissed, Expected
  <2>2. /\ Typed(idle) /\ SameTabs(s, idle)
        /\ idle.queue = QueueAfter(s, r, reason)
        /\ ~idle.presenting /\ idle.presented = None
        /\ idle.ui = s.ui /\ idle.request = s.request /\ idle.failed = s.failed
    <3>1. popped = [s EXCEPT !.queue = QueueAfter(s, r, reason)]
      BY DEF PopFrontRequest, QueueAfter, Typed, OverlayStates
    <3> HIDE DEF popped
    <3>2. QueueAfter(s, r, reason) \in [WebStates -> Seq(Requests)]
      BY QueueAfterType
    <3> QED
      BY <3>1, <3>2 DEF Typed, OverlayStates, SameTabs
  <2> HIDE DEF idle, t
  <2>3. Settled(idle) <=> Settled(s)
    BY <2>2 DEF Settled, HasUI, HasCallback
  <2>4. CASE GetActiveRequest(idle) = r
    <3>1. t = idle
      BY <2>1, <2>4
    <3> QED
      BY <1>2, <2>2, <2>4, <3>1 DEF WasDismissed, NothingNext, t
  <2>5. CASE GetActiveRequest(idle) # r
    <3>1. TriesToPresent(idle, t)
      BY <2>1, <2>2, <2>5, PresentEffect
    <3>2. /\ Typed(t) /\ SameTabs(s, t) /\ t.queue = QueueAfter(s, r, reason)
          /\ s.failed => t.failed
          /\ GetActiveRequest(t) = GetActiveRequest(idle)
      BY <2>2, <3>1, SameFront DEF TriesToPresent, SameTabs
    <3>3. CASE Blocked(idle)
      <4>1. t = idle
        BY <2>2, <3>1, <3>3 DEF TriesToPresent
      <4>2. NothingNext(t, r)
        BY <2>2, <3>3, <4>1 DEF NothingNext, Blocked, SameTabs
      <4> QED
        BY <1>2, <2>2, <3>2, <4>1, <4>2 DEF WasDismissed, t
    <3>4. CASE ~Blocked(idle)
      <4> DEFINE a == GetActiveRequest(idle)
      <4>1. ~NothingNext(t, r)
        BY <2>2, <2>5, <3>2, <3>4 DEF NothingNext, Blocked, SameTabs
      <4>2. Presents(idle, t, a) => Presents(s, t, a)
        BY <2>2 DEF Presents
      <4>3. /\ a \in Requests
            /\ t.failed <=> (s.failed \/ s.ui[a].callback
                                      \/ (s.request # a /\ ~Settled(s)))
            /\ ~t.failed => Presents(s, t, a)
        BY <2>2, <2>3, <3>1, <3>4, <4>2 DEF TriesToPresent
      <4> QED
        BY <1>2, <3>2, <4>1, <4>3 DEF WasDismissed, t
    <3> QED
      BY <3>3, <3>4
  <2> QED
    BY <2>4, <2>5
<1> QED
  BY <1>1, <1>2

(***************************************************************************)
(* The dismissal callback of the current request r runs: it leaves nothing *)
(* presented, or presents another request.                                 *)
(***************************************************************************)
UIEnded(s, t, r) ==
  \/ t.ui[r] = [s.ui[r] EXCEPT !.callback = FALSE]
  \/ t.ui[r] = NoUI

PresentsNext(s, t, r) ==
  LET a == GetActiveRequest(t) IN
  /\ a \in Requests \ {r}
  /\ t.failed <=> (s.failed \/ s.ui[a].callback)
  /\ ~t.failed =>
       /\ t.presenting /\ t.presented = a /\ t.request = a
       /\ t.ui[a].callback /\ t.ui[a].reason = "user"
       /\ t.ui[a].coordinator = "started"
       /\ UIEnded(s, t, r)
       /\ \A q \in Requests \ {r, a} : t.ui[q] = s.ui[q]

PresentsNone(s, t, r) ==
  /\ ~t.presenting /\ t.presented = None
  /\ t.failed = s.failed
  /\ UIEnded(s, t, r)
  /\ \A q \in Requests \ {r} : t.ui[q] = s.ui[q]

CallbackRan(s, t, r) ==
  LET reason == s.ui[r].reason IN
  /\ Typed(t) /\ SameTabs(s, t)
  /\ s.failed => t.failed
  /\ ~Expected(s, r, reason) =>
       /\ t.failed /\ t.request = r /\ t.queue = s.queue
       /\ t.ui[r] = [s.ui[r] EXCEPT !.callback = FALSE]
       /\ \A q \in Requests \ {r} : t.ui[q] = s.ui[q]
  /\ Expected(s, r, reason) =>
       /\ t.queue = QueueAfter(s, r, reason)
       /\ NothingNext(t, r) =>
            /\ PresentsNone(s, t, r)
            /\ t.request = r /\ t.ui[r] = [s.ui[r] EXCEPT !.callback = FALSE]
       /\ ~NothingNext(t, r) => PresentsNext(s, t, r)

LEMMA EndedSettles ==
  ASSUME NEW s, Typed(s), NEW r \in Requests, s.ui[r] # NoUI
  PROVE  LET u == [s.ui[r] EXCEPT !.callback = FALSE] IN
         /\ u # NoUI /\ ~u.callback /\ u \in UIStates
         /\ u.coordinator = s.ui[r].coordinator /\ u.reason = s.ui[r].reason
         /\ u.reason \in Reasons
BY DEF Typed, OverlayStates, UIStates, NoUI

LEMMA CallbackRanEffect ==
  ASSUME NEW s, Typed(s), s.context, s.request \in Requests,
         s.ui[s.request] # NoUI
  PROVE  CallbackRan(s, RunDismissalCallback(s), s.request)
<1> DEFINE r == s.request
           u == [s.ui[r] EXCEPT !.callback = FALSE]
           next == [s EXCEPT !.ui[s.request].callback = FALSE]
           reason == s.ui[r].reason
           t == RunDismissalCallback(s)
<1>1. /\ u # NoUI /\ ~u.callback /\ u.coordinator = s.ui[r].coordinator
      /\ reason \in Reasons
  BY EndedSettles
<1>2. t = OverlayWasDismissed(next, r, reason)
  BY DEF RunDismissalCallback
<1>3. NewUI(s, next, r, u)
  BY CallbackEffect
<1> HIDE DEF next, u, t
<1>4. WasDismissed(next, t, r, reason)
  BY <1>1, <1>2, <1>3, WasDismissedEffect DEF NewUI, SamePresenter, SameTabs
<1>5. /\ Expected(next, r, reason) <=> Expected(s, r, reason)
      /\ QueueAfter(next, r, reason) = QueueAfter(s, r, reason)
      /\ Settled(next)
  BY <1>1, <1>3, NoneAssumption
     DEF Expected, QueueAfter, FrontRequest, Settled, HasUI, HasCallback, NewUI,
         SamePresenter
<1>6. Typed(t) /\ SameTabs(s, t) /\ (s.failed => t.failed)
  BY <1>3, <1>4 DEF WasDismissed, NewUI, SamePresenter, SameTabs
<1>7. CASE ~Expected(s, r, reason)
  <2>1. HasFailed(next, t)
    BY <1>4, <1>5, <1>7 DEF WasDismissed
  <2> QED
    BY <1>3, <1>6, <1>7, <2>1 DEF HasFailed, NewUI, CallbackRan, UIEnded, u, t,
                                   SamePresenter
<1>8. CASE Expected(s, r, reason) /\ NothingNext(t, r)
  <2>1. /\ ~t.presenting /\ t.presented = None /\ t.request = r
        /\ t.queue = QueueAfter(s, r, reason)
        /\ t.failed = s.failed /\ t.ui[r] = u
        /\ \A q \in Requests \ {r} : t.ui[q] = s.ui[q]
    BY <1>3, <1>4, <1>5, <1>8 DEF WasDismissed, NewUI
  <2> QED
    BY <1>6, <1>8, <2>1 DEF CallbackRan, PresentsNone, UIEnded, u, t
<1>9. CASE Expected(s, r, reason) /\ ~NothingNext(t, r)
  <2> DEFINE a == GetActiveRequest(t)
  <2>1. /\ a \in Requests /\ a # r
        /\ t.failed <=> (next.failed \/ next.ui[a].callback)
        /\ ~t.failed => Presents(next, t, a)
        /\ t.queue = QueueAfter(s, r, reason)
    BY <1>4, <1>5, <1>9 DEF WasDismissed, NothingNext
  <2> HIDE DEF a
  <2>2. next.ui[a] = s.ui[a] /\ next.failed = s.failed /\ next.request = r
        /\ next.ui[r] = u /\ \A q \in Requests \ {r} : next.ui[q] = s.ui[q]
    BY <1>3, <2>1 DEF NewUI
  <2>3. /\ t.failed <=> (s.failed \/ s.ui[a].callback)
        /\ ~t.failed =>
             /\ t.presenting /\ t.presented = a /\ t.request = a
             /\ t.ui[a].callback /\ t.ui[a].reason = "user"
             /\ t.ui[a].coordinator = "started"
             /\ t.ui[r] = u \/ t.ui[r] = NoUI
             /\ \A q \in Requests \ {r, a} : t.ui[q] = s.ui[q]
    BY <2>1, <2>2 DEF Presents
  <2> QED
    BY <1>6, <1>9, <2>1, <2>3 DEF CallbackRan, PresentsNext, UIEnded, u, t, a
<1> QED
  BY <1>7, <1>8, <1>9

(***************************************************************************)
(* The context's handler, and the delegate's: the current request is none  *)
(* or the one presented next.                                              *)
(***************************************************************************)
Dismisses(s, t, r) ==
  LET reason == s.ui[r].reason IN
  /\ Typed(t) /\ SameTabs(s, t)
  /\ s.failed => t.failed
  /\ ~Expected(s, r, reason) => t.failed /\ t.queue = s.queue
  /\ Expected(s, r, reason) =>
       /\ t.queue = QueueAfter(s, r, reason)
       /\ NothingNext(t, r) => t.request = None /\ PresentsNone(s, t, r)
       /\ ~NothingNext(t, r) => PresentsNext(s, t, r)

LEMMA UIWasDismissedEffect ==
  ASSUME NEW s, Typed(s), s.context, s.request \in Requests,
         s.ui[s.request].callback
  PROVE  Dismisses(s, OverlayUIWasDismissed(s), s.request)
<1> DEFINE r == s.request
           reason == s.ui[r].reason
           after == RunDismissalCallback(s)
           t == OverlayUIWasDismissed(s)
<1>1. s.ui[r] # NoUI /\ r # None
  BY NoneAssumption DEF NoUI
<1>2. t = IF after.request = r THEN SetRequest(after, None) ELSE after
  BY <1>1 DEF OverlayUIWasDismissed, HasCallback
<1>3. CallbackRan(s, after, r)
  BY <1>1, CallbackRanEffect
<1> HIDE DEF after, t
<1>4. CASE after.request = r
  <2>1. ResetsRequest(after, t)
    BY <1>2, <1>3, <1>4, ResetRequestEffect DEF CallbackRan
  <2>2. after.failed => t.failed
    BY <2>1 DEF ResetsRequest
  <2>3. GetActiveRequest(t) = GetActiveRequest(after)
        /\ (NothingNext(t, r) <=> NothingNext(after, r))
    BY <2>1, SameFront
       DEF ResetsRequest, SamePresenter, SameTabs, NothingNext
  <2>4. Typed(t) /\ SameTabs(s, t) /\ (s.failed => t.failed)
        /\ (~Expected(s, r, reason) => t.failed /\ t.queue = s.queue)
    BY <1>3, <2>1, <2>2 DEF CallbackRan, ResetsRequest, SamePresenter, SameTabs
  <2>5. CASE Expected(s, r, reason) /\ NothingNext(after, r)
    <3>1. /\ PresentsNone(s, after, r) /\ after.queue = QueueAfter(s, r, reason)
          /\ after.ui[r] = [s.ui[r] EXCEPT !.callback = FALSE]
      BY <1>3, <2>5 DEF CallbackRan
    <3>2. Settled(after)
      BY <1>1, <1>4, <3>1, EndedSettles DEF Settled, HasUI, HasCallback
    <3>3. t.request = None /\ PresentsNone(s, t, r)
          /\ t.queue = QueueAfter(s, r, reason)
      BY <1>3, <1>4, <2>1, <3>1, <3>2
         DEF ResetsRequest, PresentsNone, UIEnded, SamePresenter, Typed,
             OverlayStates, CallbackRan
    <3> QED
      BY <2>3, <2>4, <2>5, <3>3 DEF Dismisses, t
  <2>6. CASE Expected(s, r, reason) /\ ~NothingNext(after, r)
    <3>1. PresentsNext(s, after, r) /\ after.queue = QueueAfter(s, r, reason)
      BY <1>3, <2>6 DEF CallbackRan
    <3>2. after.failed
      BY <1>4, <3>1 DEF PresentsNext
    <3>3. PresentsNext(s, t, r) /\ t.queue = QueueAfter(s, r, reason)
      BY <2>1, <2>2, <2>3, <3>1, <3>2
         DEF PresentsNext, ResetsRequest, SamePresenter
    <3> QED
      BY <2>3, <2>4, <2>6, <3>3 DEF Dismisses, t
  <2> QED
    BY <2>4, <2>5, <2>6 DEF Dismisses, t
<1>5. CASE after.request # r
  <2>1. t = after
    BY <1>2, <1>5
  <2> QED
    BY <1>3, <1>5, <2>1 DEF CallbackRan, Dismisses, t
<1> QED
  BY <1>4, <1>5

(***************************************************************************)
(* The end of a dismissal of r for a reason, seen from before it: the      *)
(* dialog has left the screen, or there is no container to hold it.        *)
(***************************************************************************)
OffScreen(s, t, r) ==
  /\ ~t.ui[r].callback
  /\ \/ t.ui[r].coordinator \in {"stopped", "none"}
     \/ ~s.container /\ t.ui[r].coordinator = s.ui[r].coordinator

ShowsNext(s, t, r) ==
  LET a == GetActiveRequest(t) IN
  /\ a \in Requests \ {r} /\ t.container
  /\ t.failed <=> (s.failed \/ s.ui[a].callback)
  /\ ~t.failed =>
       /\ t.presenting /\ t.presented = a /\ t.request = a
       /\ t.ui[a].callback /\ t.ui[a].reason = "user"
       /\ t.ui[a].coordinator = "started"
       /\ OffScreen(s, t, r)
       /\ \A q \in Requests \ {r, a} : t.ui[q] = s.ui[q]

ShowsNone(s, t, r) ==
  /\ ~t.presenting /\ t.presented = None /\ t.request = None
  /\ t.failed = s.failed
  /\ OffScreen(s, t, r)
  /\ \A q \in Requests \ {r} : t.ui[q] = s.ui[q]

Finishes(s, t, r, reason) ==
  /\ Typed(t) /\ SameTabs(s, t)
  /\ s.failed => t.failed
  /\ ~Expected(s, r, reason) => t.failed /\ t.queue = s.queue
  /\ Expected(s, r, reason) =>
       /\ t.queue = QueueAfter(s, r, reason)
       /\ NothingNext(t, r) => ShowsNone(s, t, r)
       /\ ~NothingNext(t, r) => ShowsNext(s, t, r)

(***************************************************************************)
(* It may follow a change of the reason, of the coordinator, or of both.   *)
(***************************************************************************)
LEMMA DismissesFinishes ==
  ASSUME NEW s, Typed(s), s.context, NEW r \in Requests, s.request = r,
         NEW u \in UIStates, u.callback,
         u.coordinator = "stopped" \/ (~s.container /\ u.coordinator = s.ui[r].coordinator),
         NEW next, NewUI(s, next, r, u)
  PROVE  Finishes(s, OverlayUIWasDismissed(next), r, u.reason)
<1> DEFINE t == OverlayUIWasDismissed(next)
           reason == u.reason
           v == [u EXCEPT !.callback = FALSE]
<1>1. Dismisses(next, t, r) /\ next.ui[r] = u
  BY UIWasDismissedEffect DEF NewUI, SamePresenter, SameTabs
<1>2. /\ Expected(next, r, reason) <=> Expected(s, r, reason)
      /\ QueueAfter(next, r, reason) = QueueAfter(s, r, reason)
  BY DEF Expected, QueueAfter, FrontRequest, NewUI, SamePresenter
<1>3. Typed(t) /\ SameTabs(s, t) /\ (s.failed => t.failed)
  BY <1>1 DEF Dismisses, NewUI, SamePresenter, SameTabs
<1>4. /\ ~v.callback /\ v.coordinator = u.coordinator
      /\ ~NoUI.callback /\ NoUI.coordinator = "none"
  BY DEF UIStates, NoUI
<1>5. UIEnded(next, t, r) => OffScreen(s, t, r)
  BY <1>1, <1>4, Zenon DEF UIEnded, OffScreen
<1> HIDE DEF t, v
<1>6. CASE ~Expected(s, r, reason)
  BY <1>1, <1>2, <1>3, <1>6 DEF Finishes, Dismisses, t, NewUI, SamePresenter
<1>7. CASE Expected(s, r, reason) /\ NothingNext(t, r)
  <2>1. t.request = None /\ PresentsNone(next, t, r)
        /\ t.queue = QueueAfter(s, r, reason)
    BY <1>1, <1>2, <1>7 DEF Dismisses
  <2>2. ShowsNone(s, t, r)
    BY <1>5, <2>1 DEF PresentsNone, ShowsNone, NewUI
  <2> QED
    BY <1>3, <1>7, <2>1, <2>2 DEF Finishes, t
<1>8. CASE Expected(s, r, reason) /\ ~NothingNext(t, r)
  <2>1. PresentsNext(next, t, r) /\ t.queue = QueueAfter(s, r, reason)
    BY <1>1, <1>2, <1>8 DEF Dismisses
  <2>2. t.container
    BY <1>8 DEF NothingNext
  <2>3. ShowsNext(s, t, r)
    BY <1>5, <2>1, <2>2 DEF PresentsNext, ShowsNext, NewUI
  <2> QED
    BY <1>3, <1>8, <2>1, <2>3 DEF Finishes, t
<1> QED
  BY <1>6, <1>7, <1>8

(***************************************************************************)
(* OverlayUIWasDismissed without a callback, and for another request than  *)
(* the current one, is a failure.                                          *)
(***************************************************************************)
LEMMA UIWasDismissedFails ==
  ASSUME NEW s, Typed(s), ~HasCallback(s, s.request)
  PROVE  HasFailed(s, OverlayUIWasDismissed(s))
BY FailEffect DEF OverlayUIWasDismissed

FailsOr(s, t, P) ==
  /\ Typed(t) /\ SameTabs(s, t) /\ (s.failed => t.failed)
  /\ ~P => t.failed /\ t.queue = s.queue

LEMMA FinishEffect ==
  ASSUME NEW s, Typed(s), s.context, NEW r \in Requests, s.ui[r] # NoUI
  PROVE  LET t == OverlayUIDidFinishDismissal(s, r) IN
         /\ FailsOr(s, t, s.request = r /\ s.ui[r].callback)
         /\ s.request = r /\ s.ui[r].callback =>
              Finishes(s, t, r, s.ui[r].reason)
<1> DEFINE t == OverlayUIDidFinishDismissal(s, r)
           next == [s EXCEPT !.ui[r].coordinator = "stopped"]
           u == [s.ui[r] EXCEPT !.coordinator = "stopped"]
<1>0. r # None
  BY NoneAssumption
<1>1. /\ u \in UIStates /\ u.callback = s.ui[r].callback
      /\ u.reason = s.ui[r].reason /\ u.coordinator = "stopped"
  BY DEF Typed, OverlayStates, UIStates
<1>2. NewUI(s, next, r, u)
  BY CoordinatorEffect
<1>3. t = IF s.request # r THEN Fail(s) ELSE OverlayUIWasDismissed(next)
  BY DEF OverlayUIDidFinishDismissal
<1> HIDE DEF t, next, u
<1>4. CASE s.request # r
  <2>1. HasFailed(s, t)
    BY <1>3, <1>4, FailEffect
  <2> QED
    BY <1>4, <2>1 DEF HasFailed, FailsOr, SamePresenter, t
<1>5. CASE s.request = r /\ ~s.ui[r].callback
  <2>1. HasFailed(next, t)
    BY <1>1, <1>2, <1>3, <1>5, UIWasDismissedFails DEF NewUI, HasCallback
  <2> QED
    BY <1>2, <1>5, <2>1
       DEF HasFailed, FailsOr, NewUI, SamePresenter, SameTabs, t
<1>6. CASE s.request = r /\ s.ui[r].callback
  <2>1. Finishes(s, t, r, s.ui[r].reason)
    BY <1>1, <1>2, <1>3, <1>6, DismissesFinishes
  <2> QED
    BY <1>6, <2>1 DEF Finishes, FailsOr, t
<1> QED
  BY <1>4, <1>5, <1>6

-----------------------------------------------------------------------------
(* Taking a dialog off the screen.                                         *)

SameCoordinators(s, t) ==
  \A q \in Requests : t.ui[q].coordinator = s.ui[q].coordinator

(***************************************************************************)
(* The current request, which has a UI state or has not.                   *)
(***************************************************************************)
LEMMA DismissPresentedEffect ==
  ASSUME NEW s, Typed(s), s.context, NEW reason \in Reasons
  PROVE  LET t == DismissPresentedUI(s, reason)
             r == s.request
             shown == s.ui[r].coordinator = "started" IN
         /\ ~HasUI(s, r) => HasFailed(s, t)
         /\ HasUI(s, r) =>
              /\ shown => FailsOr(s, t, s.ui[r].callback)
              /\ shown /\ s.ui[r].callback => Finishes(s, t, r, reason)
              /\ ~shown => NewUI(s, t, r, [s.ui[r] EXCEPT !.reason = reason])
<1> DEFINE t == DismissPresentedUI(s, reason)
           r == s.request
           next == [s EXCEPT !.ui[r].reason = reason]
           u == [s.ui[r] EXCEPT !.reason = reason]
<1>1. CASE ~HasUI(s, r)
  <2>1. t = Fail(s)
    BY <1>1 DEF DismissPresentedUI
  <2>2. HasFailed(s, t)
    BY <2>1, FailEffect
  <2> QED
    BY <1>1, <2>2
<1>2. CASE HasUI(s, r)
  <2>1. r \in Requests /\ s.ui[r] # NoUI
    BY <1>2 DEF HasUI, Typed, OverlayStates
  <2>2. u.callback = s.ui[r].callback /\ u.reason = reason /\ u # NoUI
        /\ u.coordinator = s.ui[r].coordinator
    BY <2>1 DEF Typed, OverlayStates, UIStates, NoUI
  <2>3. NewUI(s, next, r, u)
    BY <2>1, ReasonEffect
  <2>4. CASE s.ui[r].coordinator # "started"
    <3>1. t = next
      BY <1>2, <2>4 DEF DismissPresentedUI
    <3> QED
      BY <1>2, <2>3, <2>4, <3>1
  <2>5. CASE s.ui[r].coordinator = "started"
    <3>1. t = OverlayUIDidFinishDismissal(next, r)
      BY <1>2, <2>5 DEF DismissPresentedUI
    <3> HIDE DEF next, t, u
    <3>2. /\ FailsOr(next, t, next.request = r /\ next.ui[r].callback)
          /\ next.request = r /\ next.ui[r].callback =>
               Finishes(next, t, r, next.ui[r].reason)
      BY <2>1, <2>2, <2>3, <3>1, FinishEffect
         DEF NewUI, SamePresenter, SameTabs
    <3>3. FailsOr(s, t, s.ui[r].callback)
      BY <2>2, <2>3, <3>2 DEF FailsOr, NewUI, SamePresenter, SameTabs
    <3>4. ASSUME s.ui[r].callback PROVE Finishes(s, t, r, reason)
      <4>1. Finishes(next, t, r, reason)
        BY <2>2, <2>3, <3>2, <3>4 DEF NewUI
      <4>2. /\ Expected(next, r, reason) <=> Expected(s, r, reason)
            /\ QueueAfter(next, r, reason) = QueueAfter(s, r, reason)
            /\ Typed(t) /\ SameTabs(s, t) /\ (s.failed => t.failed)
        BY <2>3, <4>1 DEF Expected, QueueAfter, FrontRequest, NewUI,
                          SamePresenter, SameTabs, Finishes
      <4>3. OffScreen(next, t, r) => OffScreen(s, t, r)
        BY <2>2, <2>3 DEF OffScreen, NewUI, SamePresenter, SameTabs
      <4>4. ShowsNone(next, t, r) => ShowsNone(s, t, r)
        BY <2>3, <4>3 DEF ShowsNone, NewUI
      <4>5. ShowsNext(next, t, r) => ShowsNext(s, t, r)
        BY <2>3, <4>3 DEF ShowsNext, NewUI
      <4> QED
        BY <2>3, <4>1, <4>2, <4>4, <4>5 DEF Finishes, NewUI, SamePresenter
    <3> QED
      BY <1>2, <2>5, <3>3, <3>4 DEF t
  <2> QED
    BY <2>4, <2>5
<1> QED
  BY <1>1, <1>2

Hides(s, t, r) ==
  /\ FailsOr(s, t, s.request = r /\ s.ui[r].callback)
  /\ s.request = r /\ s.ui[r].callback =>
       IF s.container /\ s.ui[r].coordinator # "started"
       THEN NewUI(s, t, r, [s.ui[r] EXCEPT !.reason = "hiding"])
       ELSE Finishes(s, t, r, "hiding")

LEMMA HideEffect ==
  ASSUME NEW s, Typed(s), s.context, NEW r \in Requests
  PROVE  Hides(s, HideOverlayUI(s, r), r)
<1> DEFINE t == HideOverlayUI(s, r)
<1>0. r # None
  BY NoneAssumption
<1>1. CASE s.request # r \/ ~s.ui[r].callback
  <2>1. t = Fail(s)
    BY <1>0, <1>1 DEF HideOverlayUI, HasCallback
  <2>2. HasFailed(s, t)
    BY <2>1, FailEffect
  <2> QED
    BY <1>1, <2>2 DEF Hides, HasFailed, FailsOr, SamePresenter
<1>2. CASE s.request = r /\ s.ui[r].callback /\ s.container
  <2>1. t = DismissPresentedUI(s, "hiding")
    BY <1>0, <1>2 DEF HideOverlayUI, HasCallback
  <2>2. HasUI(s, r) /\ "hiding" \in Reasons
    BY <1>0, <1>2 DEF HasUI, NoUI, Reasons
  <2> HIDE DEF t
  <2>3. /\ s.ui[r].coordinator = "started" =>
             FailsOr(s, t, s.ui[r].callback) /\ Finishes(s, t, r, "hiding")
        /\ s.ui[r].coordinator # "started" =>
             NewUI(s, t, r, [s.ui[r] EXCEPT !.reason = "hiding"])
    BY <1>2, <2>1, <2>2, DismissPresentedEffect
  <2>4. FailsOr(s, t, TRUE)
    BY <1>2, <2>3 DEF FailsOr, NewUI, SamePresenter
  <2> QED
    BY <1>2, <2>3, <2>4 DEF Hides, FailsOr, t
<1>3. CASE s.request = r /\ s.ui[r].callback /\ ~s.container
  <2> DEFINE next == [s EXCEPT !.ui[r].reason = "hiding"]
             u == [s.ui[r] EXCEPT !.reason = "hiding"]
  <2>1. t = OverlayUIWasDismissed(next)
    BY <1>0, <1>3 DEF HideOverlayUI, HasCallback
  <2>2. s.ui[r] # NoUI /\ "hiding" \in Reasons
    BY <1>3 DEF NoUI, Reasons
  <2>3. /\ u \in UIStates /\ u.callback /\ u.reason = "hiding"
        /\ u.coordinator = s.ui[r].coordinator
    BY <1>3, <2>2 DEF Typed, OverlayStates, UIStates
  <2>4. NewUI(s, next, r, u)
    BY <2>2, ReasonEffect
  <2> HIDE DEF t, next, u
  <2>5. Finishes(s, t, r, "hiding")
    BY <1>3, <2>1, <2>3, <2>4, DismissesFinishes
  <2> QED
    BY <1>3, <2>5 DEF Hides, FailsOr, Finishes, t
<1> QED
  BY <1>1, <1>2, <1>3

(***************************************************************************)
(* Cancelling without a container leaves the request current.              *)
(***************************************************************************)
CancelsUnshown(s, t, r) ==
  /\ Typed(t) /\ SameTabs(s, t)
  /\ s.failed => t.failed
  /\ SameCoordinators(s, t) /\ t.queue = s.queue
  /\ ~t.failed =>
       /\ ~t.presenting /\ t.presented = None /\ t.request = r
       /\ ~t.ui[r].callback
       /\ \A q \in Requests \ {r} : t.ui[q] = s.ui[q]

\* The presenter's callback may be the one of another request than that in
\* the container only when a failure has gone before.
Cancels(s, t, r) ==
  /\ Typed(t) /\ SameTabs(s, t) /\ t.queue = s.queue
  /\ s.failed => t.failed
  /\ s.ui[r] = NoUI => t = s
  /\ s.ui[r] # NoUI /\ ~s.ui[r].callback => NewUI(s, t, r, NoUI)
  /\ s.ui[r].callback /\ s.request = r /\ s.container =>
       IF s.ui[r].coordinator = "started"
       THEN Finishes(s, t, r, "cancellation")
       ELSE NewUI(s, t, r, [s.ui[r] EXCEPT !.reason = "cancellation"])
  /\ s.ui[r].callback /\ s.request = r /\ ~s.container => CancelsUnshown(s, t, r)
  /\ s.ui[r].callback /\ s.request # r =>
       \/ SameCoordinators(s, t)
       \/ HasUI(s, s.request) /\ s.ui[s.request].coordinator = "started"

LEMMA CancelUnshownEffect ==
  ASSUME NEW s, Typed(s), s.context, ~s.container, NEW r \in Requests,
         s.request = r, s.ui[r].callback
  PROVE  CancelsUnshown(s, RunDismissalCallback(
                             [s EXCEPT !.ui[r].reason = "cancellation"]), r)
<1> DEFINE next == [s EXCEPT !.ui[r].reason = "cancellation"]
           u == [s.ui[r] EXCEPT !.reason = "cancellation"]
           t == RunDismissalCallback(next)
           reason == "cancellation"
<1>1. s.ui[r] # NoUI /\ reason \in Reasons
  BY DEF NoUI, Reasons
<1>2. u.callback /\ u.reason = reason /\ u.coordinator = s.ui[r].coordinator
  BY <1>1 DEF Typed, OverlayStates, UIStates
<1>3. NewUI(s, next, r, u)
  BY <1>1, ReasonEffect
<1>4. u # NoUI
  BY <1>2 DEF NoUI
<1> HIDE DEF next, u, t
<1>5. CallbackRan(next, t, r)
  BY <1>2, <1>3, <1>4, CallbackRanEffect
     DEF NewUI, SamePresenter, SameTabs, t
<1>6. Typed(t) /\ SameTabs(s, t) /\ (s.failed => t.failed)
  BY <1>3, <1>5 DEF CallbackRan, NewUI, SamePresenter, SameTabs
<1>7. NothingNext(t, r) /\ next.ui[r].reason = reason
  BY <1>2, <1>3, <1>6 DEF NothingNext, SameTabs, NewUI
<1>8. /\ t.ui[r] = [u EXCEPT !.callback = FALSE]
      /\ \A q \in Requests \ {r} : t.ui[q] = s.ui[q]
  BY <1>3, <1>5, <1>7 DEF CallbackRan, PresentsNone, NewUI
<1>9. /\ [u EXCEPT !.callback = FALSE].coordinator = s.ui[r].coordinator
      /\ ~[u EXCEPT !.callback = FALSE].callback
  BY <1>1 DEF Typed, OverlayStates, UIStates, u
<1>10. /\ t.queue = s.queue
       /\ ~t.failed => /\ ~t.presenting /\ t.presented = None /\ t.request = r
  BY <1>3, <1>5, <1>7
     DEF CallbackRan, PresentsNone, QueueAfter, NewUI, SamePresenter
<1>11. CancelsUnshown(s, t, r)
  BY <1>6, <1>8, <1>9, <1>10 DEF CancelsUnshown, SameCoordinators
<1> QED
  BY <1>11 DEF t, next

LEMMA CancelEffect ==
  ASSUME NEW s, Typed(s), s.context, NEW r \in Requests
  PROVE  Cancels(s, CancelOverlayUI(s, r), r)
<1> DEFINE t == CancelOverlayUI(s, r)
           q == s.request
<1>0. r # None /\ "cancellation" \in Reasons /\ ~NoUI.callback
      /\ "cancellation" # "user"
  BY NoneAssumption DEF Reasons, NoUI
<1>1. CASE s.ui[r] = NoUI
  <2>1. t = s
    BY <1>1 DEF CancelOverlayUI, HasUI
  <2> QED
    BY <1>0, <1>1, <2>1 DEF Cancels, SameTabs
<1>2. CASE s.ui[r] # NoUI /\ ~s.ui[r].callback
  <2>1. t = Erase(s, r)
    BY <1>0, <1>2 DEF CancelOverlayUI, HasUI, HasCallback
  <2>2. NewUI(s, t, r, NoUI)
    BY <2>1, EraseEffect
  <2> QED
    BY <1>2, <2>2 DEF Cancels, NewUI, SamePresenter
<1>3. CASE s.ui[r].callback /\ s.container
  <2>1. t = DismissPresentedUI(s, "cancellation")
    BY <1>0, <1>3 DEF CancelOverlayUI, HasUI, HasCallback
  <2> DEFINE shown == s.ui[q].coordinator = "started"
             u == [s.ui[q] EXCEPT !.reason = "cancellation"]
  <2> HIDE DEF t
  <2>2. /\ ~HasUI(s, q) => HasFailed(s, t)
        /\ HasUI(s, q) =>
             /\ shown => FailsOr(s, t, s.ui[q].callback)
             /\ shown /\ s.ui[q].callback => Finishes(s, t, q, "cancellation")
             /\ ~shown => NewUI(s, t, q, u)
    BY <1>0, <2>1, DismissPresentedEffect
  <2>3. Typed(t) /\ SameTabs(s, t) /\ (s.failed => t.failed)
        /\ t.queue = s.queue
    BY <1>0, <2>2 DEF HasFailed, FailsOr, NewUI, SamePresenter, Finishes,
                      QueueAfter
  <2>4. CASE q = r
    <3>1. HasUI(s, q)
      BY <1>0, <1>3, <2>4 DEF HasUI
    <3> QED
      BY <1>0, <1>3, <2>2, <2>3, <2>4, <3>1 DEF Cancels, t
  <2>5. CASE q # r
    <3>1. HasFailed(s, t) => SameCoordinators(s, t)
      BY DEF HasFailed, SameCoordinators
    <3>2. HasUI(s, q) /\ NewUI(s, t, q, u) => SameCoordinators(s, t)
      <4>1. HasUI(s, q) => u.coordinator = s.ui[q].coordinator
        BY DEF HasUI, Typed, OverlayStates, UIStates
      <4> QED
        BY <4>1 DEF NewUI, SameCoordinators
    <3>3. SameCoordinators(s, t) \/ (HasUI(s, q) /\ shown)
      BY <2>2, <3>1, <3>2
    <3> QED
      BY <1>0, <1>3, <2>3, <2>5, <3>3 DEF Cancels, t
  <2> QED
    BY <2>4, <2>5
<1>4. CASE s.ui[r].callback /\ ~s.container /\ q = r
  <2>1. t = RunDismissalCallback([s EXCEPT !.ui[r].reason = "cancellation"])
    BY <1>0, <1>4 DEF CancelOverlayUI, HasUI, HasCallback
  <2>2. CancelsUnshown(s, t, r)
    BY <1>4, <2>1, CancelUnshownEffect
  <2> QED
    BY <1>0, <1>4, <2>2 DEF Cancels, CancelsUnshown
<1>5. CASE s.ui[r].callback /\ ~s.container /\ q # r
  <2>1. t = Fail(s)
    BY <1>0, <1>5 DEF CancelOverlayUI, HasUI, HasCallback
  <2>2. HasFailed(s, t)
    BY <2>1, FailEffect
  <2> QED
    BY <1>0, <1>5, <2>2
       DEF Cancels, HasFailed, SameCoordinators, SamePresenter
<1> QED
  BY <1>1, <1>2, <1>3, <1>4, <1>5

-----------------------------------------------------------------------------
(* Only the current request has a dismissal callback or is on screen, and  *)
(* it is on screen only as the active tab's, until a DCHECK fails.         *)

OnlyCurrentHasCallback(s) ==
  \A r \in Requests : s.ui[r].callback => r = s.request

ShownIsCurrent(s) ==
  \A r \in Requests : s.ui[r].coordinator = "started" =>
    r = s.request /\ s.ui[r].callback /\ s.container

ShownIsPresented(s) ==
  \A r \in Requests : s.ui[r].coordinator = "started" =>
    r = GetActiveRequest(s) /\ r = s.presented /\ s.presenting

Current(s) == OnlyCurrentHasCallback(s) /\ ShownIsCurrent(s)

Consistent(s) == s.failed \/ (Current(s) /\ ShownIsPresented(s))

NoneShown(s) == \A r \in Requests : s.ui[r].coordinator # "started"

(***************************************************************************)
(* Presenting when nothing is on screen.                                   *)
(***************************************************************************)
LEMMA PresentConsistent ==
  ASSUME NEW s, Typed(s), ~s.failed => Current(s) /\ NoneShown(s)
  PROVE  LET t == PresentOverlayForActiveRequest(s) IN
         Typed(t) /\ SameTabs(s, t) /\ t.queue = s.queue /\ Consistent(t)
<1> DEFINE t == PresentOverlayForActiveRequest(s)
           a == GetActiveRequest(s)
<1>1. TriesToPresent(s, t)
  BY PresentEffect
<1> HIDE DEF t
<1>2. Typed(t) /\ SameTabs(s, t) /\ t.queue = s.queue /\ (s.failed => t.failed)
  BY <1>1 DEF TriesToPresent
<1>3. ASSUME ~t.failed PROVE Current(t) /\ ShownIsPresented(t)
  <2>1. ~s.failed /\ Current(s) /\ NoneShown(s) /\ ~s.presenting
    BY <1>1, <1>2, <1>3 DEF TriesToPresent, HasFailed
  <2>2. CASE Blocked(s)
    <3>1. t = s
      BY <1>1, <2>1, <2>2 DEF TriesToPresent
    <3> QED
      BY <2>1, <3>1 DEF NoneShown, ShownIsPresented
  <2>3. CASE ~Blocked(s)
    <3>1. a \in Requests /\ ~s.ui[a].callback /\ (s.request = a \/ Settled(s))
          /\ Presents(s, t, a) /\ s.container
      BY <1>1, <1>3, <2>1, <2>3 DEF TriesToPresent, Blocked
    <3>2. GetActiveRequest(t) = a
      BY <1>2, SameFront DEF SameTabs
    <3> HIDE DEF a
    <3>3. \A q \in Requests \ {a} :
            ~t.ui[q].callback /\ t.ui[q].coordinator # "started"
      BY <2>1, <3>1, NoneAssumption
         DEF Presents, NoUI, Current, OnlyCurrentHasCallback, NoneShown,
             Settled, HasCallback
    <3> QED
      BY <1>2, <3>1, <3>2, <3>3
         DEF Presents, Current, OnlyCurrentHasCallback, ShownIsCurrent,
             ShownIsPresented, SameTabs
  <2> QED
    BY <2>2, <2>3
<1> QED
  BY <1>2, <1>3 DEF Consistent, t

(***************************************************************************)
(* The end of a dismissal of the current request.                          *)
(***************************************************************************)
OffAndConsistent(s, t, r) ==
  /\ Typed(t) /\ SameTabs(s, t)
  /\ s.failed => t.failed
  /\ ~t.failed =>
       /\ Current(t) /\ ShownIsPresented(t)
       /\ t.ui[r].coordinator # "started"

LEMMA FinishConsistent ==
  ASSUME NEW s, Typed(s), NEW r \in Requests, s.request = r,
         ~s.failed => Current(s), NEW reason, NEW t, Finishes(s, t, r, reason)
  PROVE  OffAndConsistent(s, t, r)
<1>1. Typed(t) /\ SameTabs(s, t) /\ (s.failed => t.failed)
  BY DEF Finishes
<1>2. ASSUME ~t.failed
      PROVE  /\ Current(t) /\ ShownIsPresented(t)
             /\ t.ui[r].coordinator # "started"
  <2>1. /\ Expected(s, r, reason) /\ Current(s)
        /\ NothingNext(t, r) => ShowsNone(s, t, r)
        /\ ~NothingNext(t, r) => ShowsNext(s, t, r)
    BY <1>1, <1>2 DEF Finishes
  <2>2. \A q \in Requests \ {r} :
          ~s.ui[q].callback /\ s.ui[q].coordinator # "started"
    BY <2>1 DEF Current, OnlyCurrentHasCallback, ShownIsCurrent
  <2>3. OffScreen(s, t, r) =>
          ~t.ui[r].callback /\ t.ui[r].coordinator # "started"
    BY <2>1 DEF OffScreen, Current, ShownIsCurrent
  <2>4. CASE NothingNext(t, r)
    <3>1. \A q \in Requests :
            ~t.ui[q].callback /\ t.ui[q].coordinator # "started"
      BY <2>1, <2>2, <2>3, <2>4 DEF ShowsNone
    <3> QED
      BY <3>1 DEF Current, OnlyCurrentHasCallback, ShownIsCurrent,
                  ShownIsPresented
  <2>5. CASE ~NothingNext(t, r)
    <3> DEFINE a == GetActiveRequest(t)
    <3>1. /\ a \in Requests \ {r} /\ t.container
          /\ t.presenting /\ t.presented = a /\ t.request = a
          /\ t.ui[a].callback
          /\ \A q \in Requests \ {a} :
               ~t.ui[q].callback /\ t.ui[q].coordinator # "started"
      BY <1>2, <2>1, <2>2, <2>3, <2>5 DEF ShowsNext
    <3> QED
      BY <3>1 DEF Current, OnlyCurrentHasCallback, ShownIsCurrent,
                  ShownIsPresented
  <2> QED
    BY <2>4, <2>5
<1> QED
  BY <1>1, <1>2 DEF OffAndConsistent

LEMMA HideConsistent ==
  ASSUME NEW s, Typed(s), s.context, NEW r \in Requests, ~s.failed => Current(s)
  PROVE  /\ OffAndConsistent(s, HideOverlayUI(s, r), r)
         /\ HideOverlayUI(s, r).queue = s.queue
<1> DEFINE t == HideOverlayUI(s, r)
           u == [s.ui[r] EXCEPT !.reason = "hiding"]
<1>1. Hides(s, t, r)
  BY HideEffect
<1> HIDE DEF t
<1>2. Typed(t) /\ SameTabs(s, t) /\ (s.failed => t.failed)
  BY <1>1 DEF Hides, FailsOr
<1>3. CASE ~(s.request = r /\ s.ui[r].callback)
  BY <1>1, <1>2, <1>3 DEF Hides, FailsOr, OffAndConsistent, t
<1>4. CASE s.request = r /\ s.ui[r].callback
           /\ ~(s.container /\ s.ui[r].coordinator # "started")
  <2>1. Finishes(s, t, r, "hiding")
    BY <1>1, <1>4 DEF Hides
  <2>2. t.queue = s.queue
    BY <2>1 DEF Finishes, QueueAfter
  <2> QED
    BY <1>4, <2>1, <2>2, FinishConsistent DEF t
<1>5. CASE s.request = r /\ s.ui[r].callback
           /\ s.container /\ s.ui[r].coordinator # "started"
  <2>1. NewUI(s, t, r, u)
    BY <1>1, <1>5 DEF Hides
  <2>2. s.ui[r] # NoUI
    BY <1>5 DEF NoUI
  <2>3. u.coordinator # "started" /\ u.callback
    BY <1>5, <2>2 DEF Typed, OverlayStates, UIStates
  <2>4. ASSUME ~t.failed
        PROVE  /\ Current(t) /\ ShownIsPresented(t)
               /\ t.ui[r].coordinator # "started"
    <3>1. Current(s) /\ t.ui[r] = u /\ t.request = r
          /\ \A q \in Requests \ {r} : t.ui[q] = s.ui[q]
      BY <1>2, <1>5, <2>1, <2>4 DEF NewUI
    <3> HIDE DEF u
    <3> QED
      BY <1>5, <2>3, <3>1 DEF Current, OnlyCurrentHasCallback, ShownIsCurrent,
                              ShownIsPresented
  <2> QED
    BY <1>2, <2>1, <2>4 DEF OffAndConsistent, NewUI, SamePresenter, t
<1> QED
  BY <1>3, <1>4, <1>5

(***************************************************************************)
(* Cancelling a request: its dialog is off, and what else is on screen is  *)
(* either left alone or consistent again.                                  *)
(***************************************************************************)
LeftAlone(s, t, r) ==
  /\ r # s.request
  /\ t.presented = s.presented /\ t.presenting = s.presenting
  /\ t.request = s.request
  /\ \A q \in Requests \ {r} : t.ui[q] = s.ui[q]

LEMMA CancelConsistent ==
  ASSUME NEW s, Typed(s), s.context, NEW r \in Requests,
         ~s.failed => Current(s)
  PROVE  LET t == CancelOverlayUI(s, r) IN
         /\ Typed(t) /\ SameTabs(s, t) /\ t.queue = s.queue
         /\ s.failed => t.failed
         /\ ~t.failed =>
              /\ Current(t) /\ t.ui[r].coordinator # "started"
              /\ ShownIsPresented(t) \/ LeftAlone(s, t, r)
<1> DEFINE t == CancelOverlayUI(s, r)
           u == [s.ui[r] EXCEPT !.reason = "cancellation"]
<1>1. Cancels(s, t, r)
  BY CancelEffect
<1> HIDE DEF t
<1>2. Typed(t) /\ SameTabs(s, t) /\ t.queue = s.queue /\ (s.failed => t.failed)
  BY <1>1 DEF Cancels
<1>3. ASSUME ~t.failed
      PROVE  /\ Current(t) /\ t.ui[r].coordinator # "started"
             /\ ShownIsPresented(t) \/ LeftAlone(s, t, r)
  <2>0. ~s.failed /\ Current(s) /\ ~NoUI.callback /\ NoUI.coordinator = "none"
    BY <1>2, <1>3 DEF NoUI
  <2>1. CASE s.ui[r] = NoUI
    <3>1. t = s
      BY <1>1, <2>1 DEF Cancels
    <3>2. r # s.request \/ NoneShown(t)
      BY <2>0, <2>1, <3>1 DEF NoneShown, Current, ShownIsCurrent
    <3> QED
      BY <2>0, <2>1, <3>1, <3>2 DEF LeftAlone, ShownIsPresented, NoneShown
  <2>2. CASE s.ui[r] # NoUI /\ ~s.ui[r].callback
    <3>1. NewUI(s, t, r, NoUI)
      BY <1>1, <2>2 DEF Cancels
    <3>2. r # s.request \/ NoneShown(t)
      BY <2>0, <2>2, <3>1 DEF NoneShown, Current, ShownIsCurrent, NewUI
    <3>3. Current(t)
      BY <2>0, <3>1 DEF NewUI, Current, ShownIsCurrent, OnlyCurrentHasCallback,
                        SamePresenter, SameTabs
    <3> QED
      BY <2>0, <3>1, <3>2, <3>3
         DEF LeftAlone, ShownIsPresented, NoneShown, NewUI, SamePresenter
  <2>3. CASE s.ui[r].callback
    <3>1. s.request = r
      BY <2>0, <2>3 DEF Current, OnlyCurrentHasCallback
    <3>2. CASE s.container /\ s.ui[r].coordinator = "started"
      <4>1. Finishes(s, t, r, "cancellation")
        BY <1>1, <2>3, <3>1, <3>2 DEF Cancels
      <4> QED
        BY <1>3, <2>0, <3>1, <4>1, FinishConsistent DEF OffAndConsistent
    <3>3. CASE s.container /\ s.ui[r].coordinator # "started"
      <4>1. NewUI(s, t, r, u)
        BY <1>1, <2>3, <3>1, <3>3 DEF Cancels
      <4>2. u.coordinator # "started" /\ u.callback
        BY <2>0, <2>3, <3>3 DEF Typed, OverlayStates, UIStates
      <4> HIDE DEF u
      <4>3. NoneShown(t) /\ OnlyCurrentHasCallback(t)
        BY <2>0, <3>1, <4>1, <4>2
           DEF NewUI, NoneShown, Current, ShownIsCurrent, OnlyCurrentHasCallback
      <4> QED
        BY <4>3 DEF NoneShown, Current, ShownIsCurrent, ShownIsPresented
    <3>4. CASE ~s.container
      <4>1. CancelsUnshown(s, t, r)
        BY <1>1, <2>3, <3>1, <3>4 DEF Cancels
      <4>2. NoneShown(t) /\ OnlyCurrentHasCallback(t)
        BY <1>3, <2>0, <3>1, <3>4, <4>1
           DEF CancelsUnshown, SameCoordinators, NoneShown, Current,
               ShownIsCurrent, OnlyCurrentHasCallback
      <4> QED
        BY <4>2 DEF NoneShown, Current, ShownIsCurrent, ShownIsPresented
    <3> QED
      BY <3>2, <3>3, <3>4
  <2> QED
    BY <2>0, <2>1, <2>2, <2>3
<1> QED
  BY <1>2, <1>3 DEF t

(***************************************************************************)
(* The presenter's handler, for a request of any tab.                      *)
(***************************************************************************)
LEMMA CancelledConsistent ==
  ASSUME NEW s, Typed(s), s.context, NEW r \in Requests, Consistent(s)
  PROVE  LET t == QueuedRequestCancelled(s, r) IN
         /\ Typed(t) /\ SameTabs(s, t) /\ t.queue = s.queue
         /\ s.failed => t.failed
         /\ Consistent(t)
         /\ ~t.failed => t.ui[r].coordinator # "started"
<1> DEFINE b == IF s.presented = r THEN [s EXCEPT !.presented = None] ELSE s
           t == CancelOverlayUI(b, r)
<1>1. /\ Typed(b) /\ SameTabs(s, b) /\ b.queue = s.queue
      /\ b.presenting = s.presenting /\ b.request = s.request /\ b.ui = s.ui
      /\ b.failed = s.failed
      /\ b.presented = IF s.presented = r THEN None ELSE s.presented
  BY DEF Typed, OverlayStates, SameTabs
<1>2. QueuedRequestCancelled(s, r) = t
  BY DEF QueuedRequestCancelled
<1> HIDE DEF b
<1>3. ~s.failed => Current(s) /\ ShownIsPresented(s)
  BY DEF Consistent
<1>4. ~b.failed => Current(b)
  BY <1>1, <1>3 DEF Current, OnlyCurrentHasCallback, ShownIsCurrent, SameTabs
<1>5. b.context
  BY <1>1 DEF SameTabs
<1> HIDE DEF t
<1>6. /\ Typed(t) /\ SameTabs(b, t) /\ t.queue = b.queue
      /\ b.failed => t.failed
      /\ ~t.failed =>
           /\ Current(t) /\ t.ui[r].coordinator # "started"
           /\ ShownIsPresented(t) \/ LeftAlone(b, t, r)
  BY <1>1, <1>4, <1>5, CancelConsistent DEF t
<1>7. ASSUME ~t.failed, LeftAlone(b, t, r) PROVE ShownIsPresented(t)
  <2> SUFFICES ASSUME NEW q \in Requests, t.ui[q].coordinator = "started"
               PROVE  q = GetActiveRequest(t) /\ q = t.presented /\ t.presenting
    BY DEF ShownIsPresented
  <2>1. q # r /\ s.ui[q].coordinator = "started"
    BY <1>1, <1>6, <1>7 DEF LeftAlone
  <2>2. ~s.failed /\ ShownIsPresented(s)
    BY <1>1, <1>3, <1>6, <1>7
  <2>3. q = GetActiveRequest(s) /\ q = s.presented /\ s.presenting
    BY <2>1, <2>2 DEF ShownIsPresented
  <2>4. GetActiveRequest(t) = GetActiveRequest(s)
    BY <1>1, <1>6, SameFront DEF SameTabs
  <2> QED
    BY <1>1, <1>7, <2>1, <2>3, <2>4 DEF LeftAlone
<1> QED
  BY <1>1, <1>2, <1>6, <1>7 DEF SameTabs, Consistent

-----------------------------------------------------------------------------
(* A request leaves its queue.                                             *)

LEMMA WithoutEffect ==
  ASSUME NEW queue \in Seq(Requests), NEW r \in ToSet(queue)
  PROVE  /\ Without(queue, r) \in Seq(Requests)
         /\ ToSet(Without(queue, r)) \subseteq ToSet(queue)
         /\ Head(queue) # r =>
              Without(queue, r) # << >> /\ Head(Without(queue, r)) = Head(queue)
         /\ IsInjective(queue) =>
              /\ ToSet(Without(queue, r)) = ToSet(queue) \ {r}
              /\ IsInjective(Without(queue, r))
<1> DEFINE i == CHOOSE j \in DOMAIN queue : queue[j] = r
           t == RemoveAt(queue, i)
<1>1. i \in 1 .. Len(queue) /\ queue[i] = r /\ Without(queue, r) = t
  BY DEF ToSet, Without
<1> HIDE DEF i, t
<1>2. /\ t \in Seq(Requests) /\ Len(t) = Len(queue) - 1
      /\ \A j \in 1 .. Len(queue) - 1 :
           t[j] = IF j < i THEN queue[j] ELSE queue[j + 1]
  BY <1>1, RemoveAtProperties DEF t
<1>3. ASSUME Head(queue) # r PROVE t # << >> /\ Head(t) = Head(queue)
  <2>1. Len(queue) \in Nat /\ Head(queue) = queue[1]
    BY <1>1
  <2>2. i > 1 /\ 1 \in 1 .. Len(queue) - 1
    BY <1>1, <1>3, <2>1
  <2>3. t[1] = queue[1] /\ Len(t) >= 1
    BY <1>2, <2>1, <2>2
  <2> QED
    BY <1>2, <2>1, <2>3
<1>4. IsInjective(queue) => ToSet(t) = ToSet(queue) \ {r} /\ IsInjective(t)
  BY <1>1, RemoveAtElements DEF t
<1>5. ToSet(t) \subseteq ToSet(queue)
  <2> SUFFICES ASSUME NEW j \in 1 .. Len(queue) - 1
               PROVE  t[j] \in ToSet(queue)
    BY <1>2 DEF ToSet
  <2>1. j \in 1 .. Len(queue) /\ j + 1 \in 1 .. Len(queue)
    BY <1>1
  <2> QED
    BY <1>2, <2>1 DEF ToSet
<1> QED
  BY <1>1, <1>2, <1>3, <1>4, <1>5

Dequeued(w, t, r) == [t EXCEPT !.queue[w] = Without(@, r)]

LEMMA DequeuedEffect ==
  ASSUME NEW t, Typed(t), NEW w \in WebStates, NEW r \in ToSet(t.queue[w])
  PROVE  LET d == Dequeued(w, t, r) IN
         /\ Typed(d) /\ SameTabs(t, d)
         /\ d.presenting = t.presenting /\ d.presented = t.presented
         /\ d.request = t.request /\ d.ui = t.ui /\ d.failed = t.failed
         /\ d.queue[w] = Without(t.queue[w], r)
         /\ \A v \in WebStates \ {w} : d.queue[v] = t.queue[v]
<1>1. t.queue[w] \in Seq(Requests)
  BY DEF Typed, OverlayStates
<1>2. Without(t.queue[w], r) \in Seq(Requests)
  BY <1>1, WithoutEffect
<1> QED
  BY <1>1, <1>2 DEF Typed, OverlayStates, SameTabs, Dequeued

(***************************************************************************)
(* The active tab's front request stays in front if it is not the one.     *)
(***************************************************************************)
LEMMA DequeuedFront ==
  ASSUME NEW t, Typed(t), NEW w \in WebStates, NEW r \in ToSet(t.queue[w]),
         w # t.active \/ GetActiveRequest(t) # r
  PROVE  GetActiveRequest(Dequeued(w, t, r)) = GetActiveRequest(t)
<1> DEFINE d == Dequeued(w, t, r)
<1>1. /\ d.active = t.active
      /\ d.queue[w] = Without(t.queue[w], r)
      /\ \A v \in WebStates \ {w} : d.queue[v] = t.queue[v]
  BY DequeuedEffect DEF SameTabs
<1> HIDE DEF d
<1>2. t.active \in WebStates \union {None} /\ t.queue[w] \in Seq(Requests)
      /\ w # None
  BY NoneAssumption DEF Typed, OverlayStates
<1>3. CASE w # t.active
  BY <1>1, <1>2, <1>3 DEF GetActiveRequest, FrontRequest, d
<1>4. CASE w = t.active
  <2>1. t.queue[w] # << >>
    BY <1>2 DEF ToSet
  <2>2. GetActiveRequest(t) = Head(t.queue[w]) /\ Head(t.queue[w]) # r
    BY <1>2, <1>4, <2>1 DEF GetActiveRequest, FrontRequest
  <2>3. d.queue[w] # << >> /\ Head(d.queue[w]) = Head(t.queue[w])
    BY <1>1, <1>2, <2>2, WithoutEffect
  <2> QED
    BY <1>1, <1>2, <1>4, <2>2, <2>3 DEF GetActiveRequest, FrontRequest, d
<1> QED
  BY <1>3, <1>4

Shrinks(s, t) ==
  \A w \in WebStates : ToSet(t.queue[w]) \subseteq ToSet(s.queue[w])

LEMMA CancelledInConsistent ==
  ASSUME NEW s, Typed(s), s.context, Consistent(s), NEW w \in WebStates,
         NEW r \in Requests, Observed(w) \/ w # s.active
  PROVE  LET t == CancelledIn(w, s, r) IN
         Typed(t) /\ SameTabs(s, t) /\ Consistent(t) /\ Shrinks(s, t)
<1> DEFINE told == IF Observed(w) THEN QueuedRequestCancelled(s, r) ELSE s
           d == Dequeued(w, told, r)
<1>1. /\ Typed(told) /\ SameTabs(s, told) /\ told.queue = s.queue
      /\ Consistent(told)
      /\ ~told.failed => \/ told.ui[r].coordinator # "started"
                         \/ w # s.active
  BY CancelledConsistent DEF SameTabs
<1>2. CASE r \notin ToSet(s.queue[w])
  <2>1. CancelledIn(w, s, r) = s
    BY <1>2 DEF CancelledIn
  <2> QED
    BY <2>1 DEF SameTabs, Shrinks
<1>3. CASE r \in ToSet(s.queue[w])
  <2>1. CancelledIn(w, s, r) = d
    BY <1>3 DEF CancelledIn, Dequeued
  <2> HIDE DEF told
  <2>2. /\ Typed(d) /\ SameTabs(told, d)
        /\ d.presenting = told.presenting /\ d.presented = told.presented
        /\ d.request = told.request /\ d.ui = told.ui /\ d.failed = told.failed
        /\ d.queue[w] = Without(s.queue[w], r)
        /\ \A v \in WebStates \ {w} : d.queue[v] = s.queue[v]
    BY <1>1, <1>3, DequeuedEffect
  <2>5. s.queue[w] \in Seq(Requests)
    BY DEF Typed, OverlayStates
  <2>6. Shrinks(s, d)
    BY <1>3, <2>2, <2>5, WithoutEffect DEF Shrinks
  <2>3. ASSUME NEW q \in Requests, ~told.failed,
               told.ui[q].coordinator = "started"
        PROVE  q = GetActiveRequest(d)
    <3>1. q = GetActiveRequest(told)
      BY <1>1, <2>3 DEF Consistent, ShownIsPresented
    <3>2. w # told.active \/ q # r
      BY <1>1, <2>3 DEF SameTabs
    <3> QED
      BY <1>1, <1>3, <3>1, <3>2, DequeuedFront
  <2> HIDE DEF d
  <2>4. Consistent(d)
    BY <1>1, <2>2, <2>3
       DEF Consistent, Current, ShownIsPresented, ShownIsCurrent,
           OnlyCurrentHasCallback, SameTabs
  <2> QED
    BY <1>1, <2>1, <2>2, <2>4, <2>6 DEF SameTabs
<1> QED
  BY <1>2, <1>3

-----------------------------------------------------------------------------
(* The loops: the states between the calls, from the first to the last.    *)

CancelSteps(w, s, rs, after) ==
  /\ after[0] = s
  /\ \A k \in 1 .. Len(rs) : after[k] = CancelledIn(w, after[k - 1], rs[k])

LEMMA CancelledAllSteps ==
  ASSUME NEW w, NEW s, NEW rs \in Seq(Requests)
  PROVE  \E after : /\ CancelSteps(w, s, rs, after)
                    /\ CancelledAll(w, s, rs) = after[Len(rs)]
<1> DEFINE n == Len(rs)
           Upto(m, f) ==
             f = [k \in 0 .. m |-> IF k = 0 THEN s
                                   ELSE CancelledIn(w, f[k - 1], rs[k])]
           Missing == {m \in 0 .. n : ~\E f : Upto(m, f)}
<1>1. n \in Nat
  OBVIOUS
<1>2. Missing = {}
  <2> SUFFICES ASSUME Missing # {} PROVE FALSE
    OBVIOUS
  <2>0. Missing \in SUBSET Nat
    BY <1>1
  <2> HIDE DEF Missing
  <2>1. PICK m \in Missing : \A x \in Missing : m <= x
    BY <2>0, NatHasLeast
  <2> USE DEF Missing
  <2>2. m \in 0 .. n /\ ~\E f : Upto(m, f)
    BY <2>1
  <2>3. CASE m = 0
    <3> DEFINE f == [k \in 0 .. m |-> s]
    <3>1. Upto(m, f)
      BY <2>3
    <3> QED
      BY <2>2, <3>1
  <2>4. CASE m # 0
    <3>1. m - 1 \in 0 .. n /\ ~(m <= m - 1)
      BY <1>1, <2>2, <2>4
    <3>2. PICK f : Upto(m - 1, f)
      BY <2>1, <3>1
    <3> DEFINE g == [k \in 0 .. m |->
                       IF k = m THEN CancelledIn(w, f[m - 1], rs[m]) ELSE f[k]]
    <3>3. /\ f[0] = s
          /\ \A k \in 0 .. m - 1 :
               f[k] = IF k = 0 THEN s ELSE CancelledIn(w, f[k - 1], rs[k])
      BY <1>1, <2>2, <2>4, <3>2
    <3>4. \A k \in 0 .. m :
            g[k] = IF k = 0 THEN s ELSE CancelledIn(w, g[k - 1], rs[k])
      <4> SUFFICES ASSUME NEW k \in 0 .. m
                   PROVE  g[k] = IF k = 0 THEN s
                                 ELSE CancelledIn(w, g[k - 1], rs[k])
        OBVIOUS
      <4>1. CASE k = m
        <5>1. k - 1 \in 0 .. m /\ k - 1 # m /\ k # 0
          BY <2>2, <2>4, <4>1
        <5>2. g[k - 1] = f[m - 1] /\ g[k] = CancelledIn(w, f[m - 1], rs[m])
          BY <4>1, <5>1
        <5> QED
          BY <4>1, <5>1, <5>2
      <4>2. CASE k = 0
        BY <2>4, <3>3, <4>2
      <4>3. CASE k # 0 /\ k # m
        <5>1. k \in 0 .. m - 1 /\ k - 1 \in 0 .. m /\ k - 1 # m
          BY <2>2, <4>3
        <5>2. g[k - 1] = f[k - 1] /\ g[k] = f[k]
          BY <4>3, <5>1
        <5> QED
          BY <3>3, <4>3, <5>1, <5>2
      <4> QED
        BY <4>1, <4>2, <4>3
    <3>5. Upto(m, g)
      <4> DEFINE h == [k \in 0 .. m |-> IF k = 0 THEN s
                                        ELSE CancelledIn(w, g[k - 1], rs[k])]
      <4>1. \A k \in 0 .. m : g[k] = h[k]
        BY <3>4
      <4>2. g = h
        BY <4>1
      <4> QED
        BY <4>2
    <3> QED
      BY <2>2, <3>5
  <2> QED
    BY <2>3, <2>4
<1> DEFINE after == CHOOSE f : Upto(n, f)
<1>3. Upto(n, after)
  <2>1. n \in 0 .. n
    BY <1>1
  <2>2. \E f : Upto(n, f)
    BY <1>2, <2>1
  <2> QED
    BY <2>2
<1>4. CancelledAll(w, s, rs) = after[n]
  BY DEF CancelledAll
<1> HIDE DEF after
<1>5. CancelSteps(w, s, rs, after)
  <2>1. after[0] = s
    BY <1>1, <1>3
  <2>2. ASSUME NEW k \in 1 .. n
        PROVE  after[k] = CancelledIn(w, after[k - 1], rs[k])
    BY <1>1, <1>3
  <2> QED
    BY <2>1, <2>2 DEF CancelSteps
<1> QED
  BY <1>4, <1>5

(***************************************************************************)
(* What each call keeps, the loop keeps.                                   *)
(***************************************************************************)
LEMMA CancelledAllKeeps ==
  ASSUME NEW w, NEW s, NEW rs \in Seq(Requests), NEW G, s \in G,
         \A t \in G : \A r \in Requests : CancelledIn(w, t, r) \in G
  PROVE  CancelledAll(w, s, rs) \in G
<1>1. PICK after : /\ CancelSteps(w, s, rs, after)
                   /\ CancelledAll(w, s, rs) = after[Len(rs)]
  BY CancelledAllSteps
<1> DEFINE n == Len(rs)
           Bad == {k \in 0 .. n : after[k] \notin G}
<1>2. n \in Nat /\ \A k \in 1 .. n : rs[k] \in Requests
  OBVIOUS
<1>3. /\ after[0] \in G
      /\ \A k \in 1 .. n : after[k - 1] \in G => after[k] \in G
  BY <1>1, <1>2 DEF CancelSteps
<1>4. Bad = {}
  <2> SUFFICES ASSUME Bad # {} PROVE FALSE
    OBVIOUS
  <2>1. Bad \in SUBSET Nat
    BY <1>2
  <2> HIDE DEF Bad
  <2>2. PICK m \in Bad : \A x \in Bad : m <= x
    BY <2>1, NatHasLeast
  <2> USE DEF Bad
  <2>3. m \in 0 .. n /\ after[m] \notin G /\ m # 0
    BY <1>3, <2>2
  <2>4. m \in 1 .. n /\ m - 1 \in 0 .. n /\ ~(m <= m - 1)
    BY <1>2, <2>3
  <2>5. after[m - 1] \in G
    BY <2>2, <2>4
  <2> QED
    BY <1>3, <2>3, <2>4, <2>5
<1> QED
  BY <1>1, <1>2, <1>4

CancelFront(t, w) == CancelOverlayUI(t, FrontRequest(t, w))

ShutdownSteps(s, ws, after) ==
  /\ after[0] = s
  /\ \A k \in 1 .. Len(ws) : after[k] = CancelFront(after[k - 1], ws[k])

LEMMA CancelAllSteps ==
  ASSUME NEW s, NEW ws, Len(ws) \in Nat
  PROVE  \E after : /\ ShutdownSteps(s, ws, after)
                    /\ CancelAllOverlayUI(s, ws) = after[Len(ws)]
<1> DEFINE n == Len(ws)
           Upto(m, f) ==
             f = [k \in 0 .. m |-> IF k = 0 THEN s
                                   ELSE CancelFront(f[k - 1], ws[k])]
           Missing == {m \in 0 .. n : ~\E f : Upto(m, f)}
<1>1. n \in Nat
  OBVIOUS
<1>2. Missing = {}
  <2> SUFFICES ASSUME Missing # {} PROVE FALSE
    OBVIOUS
  <2>0. Missing \in SUBSET Nat
    BY <1>1
  <2> HIDE DEF Missing
  <2>1. PICK m \in Missing : \A x \in Missing : m <= x
    BY <2>0, NatHasLeast
  <2> USE DEF Missing
  <2>2. m \in 0 .. n /\ ~\E f : Upto(m, f)
    BY <2>1
  <2>3. CASE m = 0
    <3> DEFINE f == [k \in 0 .. m |-> s]
    <3>1. Upto(m, f)
      BY <2>3
    <3> QED
      BY <2>2, <3>1
  <2>4. CASE m # 0
    <3>1. m - 1 \in 0 .. n /\ ~(m <= m - 1)
      BY <1>1, <2>2, <2>4
    <3>2. PICK f : Upto(m - 1, f)
      BY <2>1, <3>1
    <3> DEFINE g == [k \in 0 .. m |->
                       IF k = m THEN CancelFront(f[m - 1], ws[m]) ELSE f[k]]
    <3>3. /\ f[0] = s
          /\ \A k \in 0 .. m - 1 :
               f[k] = IF k = 0 THEN s ELSE CancelFront(f[k - 1], ws[k])
      BY <1>1, <2>2, <2>4, <3>2
    <3>4. \A k \in 0 .. m :
            g[k] = IF k = 0 THEN s ELSE CancelFront(g[k - 1], ws[k])
      <4> SUFFICES ASSUME NEW k \in 0 .. m
                   PROVE  g[k] = IF k = 0 THEN s
                                 ELSE CancelFront(g[k - 1], ws[k])
        OBVIOUS
      <4>1. CASE k = m
        <5>1. k - 1 \in 0 .. m /\ k - 1 # m /\ k # 0
          BY <2>2, <2>4, <4>1
        <5>2. g[k - 1] = f[m - 1] /\ g[k] = CancelFront(f[m - 1], ws[m])
          BY <4>1, <5>1
        <5> QED
          BY <4>1, <5>1, <5>2
      <4>2. CASE k = 0
        BY <2>4, <3>3, <4>2
      <4>3. CASE k # 0 /\ k # m
        <5>1. k \in 0 .. m - 1 /\ k - 1 \in 0 .. m /\ k - 1 # m
          BY <2>2, <4>3
        <5>2. g[k - 1] = f[k - 1] /\ g[k] = f[k]
          BY <4>3, <5>1
        <5> QED
          BY <3>3, <4>3, <5>1, <5>2
      <4> QED
        BY <4>1, <4>2, <4>3
    <3>5. Upto(m, g)
      <4> DEFINE h == [k \in 0 .. m |-> IF k = 0 THEN s
                                        ELSE CancelFront(g[k - 1], ws[k])]
      <4>1. \A k \in 0 .. m : g[k] = h[k]
        BY <3>4
      <4>2. g = h
        BY <4>1
      <4> QED
        BY <4>2
    <3> QED
      BY <2>2, <3>5
  <2> QED
    BY <2>3, <2>4
<1> DEFINE after == CHOOSE f : Upto(n, f)
<1>3. Upto(n, after)
  <2>1. n \in 0 .. n
    BY <1>1
  <2>2. \E f : Upto(n, f)
    BY <1>2, <2>1
  <2> QED
    BY <2>2
<1>4. CancelAllOverlayUI(s, ws) = after[n]
  BY DEF CancelAllOverlayUI, CancelFront
<1> HIDE DEF after
<1>5. ShutdownSteps(s, ws, after)
  <2>1. after[0] = s
    BY <1>1, <1>3
  <2>2. ASSUME NEW k \in 1 .. n
        PROVE  after[k] = CancelFront(after[k - 1], ws[k])
    BY <1>1, <1>3
  <2> QED
    BY <2>1, <2>2 DEF ShutdownSteps
<1> QED
  BY <1>4, <1>5

(***************************************************************************)
(* What a cancellation leaves is consistent if it was before, and so is    *)
(* what a loop of them leaves.                                             *)
(***************************************************************************)
LEMMA CancelKeepsConsistent ==
  ASSUME NEW s, Typed(s), s.context, NEW r \in Requests \union {None},
         Consistent(s)
  PROVE  LET t == CancelOverlayUI(s, r) IN
         /\ Typed(t) /\ SameTabs(s, t) /\ t.queue = s.queue
         /\ s.failed => t.failed
         /\ Consistent(t)
         /\ ~t.failed /\ r \in Requests => t.ui[r].coordinator # "started"
<1> DEFINE t == CancelOverlayUI(s, r)
<1>1. CASE r \notin Requests
  <2>1. t = s
    BY <1>1 DEF CancelOverlayUI, HasUI
  <2> QED
    BY <1>1, <2>1 DEF SameTabs
<1>2. CASE r \in Requests
  <2>1. ~s.failed => Current(s) /\ ShownIsPresented(s)
    BY DEF Consistent
  <2> HIDE DEF t
  <2>2. /\ Typed(t) /\ SameTabs(s, t) /\ t.queue = s.queue
        /\ s.failed => t.failed
        /\ ~t.failed =>
             /\ Current(t) /\ t.ui[r].coordinator # "started"
             /\ ShownIsPresented(t) \/ LeftAlone(s, t, r)
    BY <1>2, <2>1, CancelConsistent DEF t
  <2>3. ASSUME ~t.failed, LeftAlone(s, t, r) PROVE ShownIsPresented(t)
    <3>1. GetActiveRequest(t) = GetActiveRequest(s)
      BY <2>2, SameFront DEF SameTabs
    <3> QED
      BY <2>1, <2>2, <2>3, <3>1 DEF ShownIsPresented, LeftAlone
  <2> QED
    BY <2>2, <2>3 DEF Consistent, t
<1> QED
  BY <1>1, <1>2

LEMMA CancelledAllConsistent ==
  ASSUME NEW s, Typed(s), s.context, Consistent(s), NEW w \in WebStates,
         NEW rs \in Seq(Requests), Observed(w) \/ w # s.active
  PROVE  LET t == CancelledAll(w, s, rs) IN
         Typed(t) /\ SameTabs(s, t) /\ Consistent(t) /\ Shrinks(s, t)
<1> DEFINE G == {t \in OverlayStates :
                   Typed(t) /\ SameTabs(s, t) /\ Consistent(t) /\ Shrinks(s, t)}
<1>1. s \in G
  BY DEF Typed, SameTabs, Shrinks
<1>2. ASSUME NEW t \in G, NEW r \in Requests
      PROVE  CancelledIn(w, t, r) \in G
  <2>1. Typed(t) /\ SameTabs(s, t) /\ Consistent(t) /\ Shrinks(s, t)
    OBVIOUS
  <2>2. t.context /\ t.active = s.active
    BY <2>1 DEF SameTabs
  <2> DEFINE c == CancelledIn(w, t, r)
  <2>3. Typed(c) /\ SameTabs(t, c) /\ Consistent(c) /\ Shrinks(t, c)
    BY <2>1, <2>2, CancelledInConsistent
  <2> HIDE DEF c
  <2>4. SameTabs(s, c) /\ Shrinks(s, c) /\ c \in OverlayStates
    BY <2>1, <2>3 DEF SameTabs, Shrinks, Typed
  <2> QED
    BY <2>3, <2>4 DEF c
<1> HIDE DEF G
<1>3. CancelledAll(w, s, rs) \in G
  BY <1>1, <1>2, CancelledAllKeeps
<1> QED
  BY <1>3 DEF G

-----------------------------------------------------------------------------
(* The presenter's shutdown.                                               *)

(***************************************************************************)
(* The tabs of a finite set, one after the other.                          *)
(***************************************************************************)
LEMMA SetToSeqElements ==
  ASSUME NEW S, IsFiniteSet(S)
  PROVE  /\ SetToSeq(S) \in [1 .. Cardinality(S) -> S] /\ Cardinality(S) \in Nat
         /\ Len(SetToSeq(S)) = Cardinality(S)
         /\ \A x \in S : \E k \in 1 .. Cardinality(S) : SetToSeq(S)[k] = x
<1> DEFINE n == Cardinality(S)
           f == SetToSeq(S)
<1>1. n \in Nat /\ ExistsBijection(1 .. n, S)
  BY FS_CardinalityType
<1>2. \E g \in [1 .. n -> S] : IsInjective(g)
  BY <1>1 DEF ExistsBijection, Bijection, Injection
<1>3. f \in [1 .. n -> S] /\ IsInjective(f)
  BY <1>2 DEF SetToSeq
<1> HIDE DEF f
<1>4. f \in Injection(1 .. n, S)
  BY <1>3 DEF Injection
<1>5. IsFiniteSet(1 .. n) /\ Cardinality(1 .. n) = n
  <2>1. 1 \in Int /\ n \in Int
    BY <1>1
  <2> QED
    BY <1>1, <2>1, FS_Interval
<1>6. f \in Surjection(1 .. n, S)
  BY <1>4, <1>5, FS_Injection
<1>7. \A x \in S : \E k \in 1 .. n : f[k] = x
  BY <1>6 DEF Surjection
<1>8. Len(f) = n
  BY <1>1, <1>3
<1> QED
  BY <1>1, <1>3, <1>7, <1>8 DEF f

(***************************************************************************)
(* Cancelling shows nothing when nothing is shown, failures or not.        *)
(***************************************************************************)
LEMMA CancelShowsNothing ==
  ASSUME NEW s, Typed(s), s.context, NEW r \in Requests \union {None},
         NoneShown(s)
  PROVE  LET t == CancelOverlayUI(s, r) IN
         Typed(t) /\ SameTabs(s, t) /\ t.queue = s.queue /\ NoneShown(t)
<1> DEFINE t == CancelOverlayUI(s, r)
           u == [s.ui[r] EXCEPT !.reason = "cancellation"]
<1>1. CASE r \notin Requests
  <2>1. t = s
    BY <1>1 DEF CancelOverlayUI, HasUI
  <2> QED
    BY <2>1 DEF SameTabs
<1>2. CASE r \in Requests
  <2>1. Cancels(s, t, r)
    BY <1>2, CancelEffect
  <2> HIDE DEF t
  <2>2. Typed(t) /\ SameTabs(s, t) /\ t.queue = s.queue
    BY <2>1 DEF Cancels
  <2>3. CASE ~s.ui[r].callback
    <3>1. t = s \/ NewUI(s, t, r, NoUI)
      BY <2>1, <2>3 DEF Cancels
    <3>2. NoUI.coordinator # "started"
      BY DEF NoUI
    <3>3. NoneShown(t)
      BY <1>2, <3>1, <3>2 DEF NoneShown, NewUI
    <3> QED
      BY <2>2, <3>3 DEF t
  <2>4. CASE s.ui[r].callback
    <3>1. s.ui[r] # NoUI
      BY <2>4 DEF NoUI
    <3>2. u.coordinator # "started"
      BY <1>2, <3>1 DEF NoneShown, Typed, OverlayStates, UIStates
    <3>3. SameCoordinators(s, t) \/ NewUI(s, t, r, u)
      BY <1>2, <2>1, <2>4
         DEF Cancels, NoneShown, CancelsUnshown, HasUI, Typed, OverlayStates
    <3> HIDE DEF u
    <3>4. NoneShown(t)
      BY <1>2, <3>2, <3>3 DEF NoneShown, NewUI, SameCoordinators
    <3> QED
      BY <2>2, <3>4 DEF t
  <2> QED
    BY <2>3, <2>4
<1> QED
  BY <1>1, <1>2

(***************************************************************************)
(* Cancelling the front request of a tab: if the active tab's dialog is    *)
(* on screen, it is still, or nothing is.                                  *)
(***************************************************************************)
StillShown(s, t, w) == ~t.failed /\ Consistent(t) /\ w # s.active

LEMMA CancelFrontShows ==
  ASSUME NEW s, Typed(s), s.context, NEW w \in WebStates,
         ~s.failed, Consistent(s)
  PROVE  LET t == CancelFront(s, w) IN
         /\ Typed(t) /\ SameTabs(s, t) /\ t.queue = s.queue
         /\ NoneShown(t) \/ StillShown(s, t, w)
<1> DEFINE r == FrontRequest(s, w)
           t == CancelFront(s, w)
<1>1. r \in Requests \union {None} /\ t = CancelOverlayUI(s, r)
  BY FrontType DEF Typed, CancelFront
<1> HIDE DEF r, t
<1>2. Typed(t) /\ SameTabs(s, t) /\ t.queue = s.queue /\ Consistent(t)
  BY <1>1, CancelKeepsConsistent
<1>3. CASE NoneShown(s)
  <2>1. NoneShown(t)
    BY <1>1, <1>3, CancelShowsNothing
  <2> QED
    BY <1>2, <2>1 DEF t
<1>4. ASSUME NEW q \in Requests, s.ui[q].coordinator = "started"
      PROVE  NoneShown(t) \/ StillShown(s, t, w)
  <2>1. /\ q = s.request /\ q = s.presented /\ q = GetActiveRequest(s)
        /\ s.ui[q].callback /\ s.presenting /\ s.container
        /\ OnlyCurrentHasCallback(s) /\ ShownIsCurrent(s)
    BY <1>4 DEF Consistent, Current, ShownIsCurrent, ShownIsPresented
  <2>2. q # None
    BY NoneAssumption
  <2>3. CASE r = q
    <3>1. Finishes(s, t, q, "cancellation")
      BY <1>1, <1>4, <2>1, <2>3, CancelEffect DEF Cancels
    <3>2. Expected(s, q, "cancellation") /\ GetActiveRequest(t) = q
      BY <1>2, <2>1, <2>2, SameFront DEF Expected, SameTabs
    <3>3. ShowsNone(s, t, q)
      BY <3>1, <3>2 DEF Finishes, NothingNext
    <3>4. NoneShown(t)
      BY <1>4, <2>1, <3>3
         DEF ShowsNone, OffScreen, NoneShown, ShownIsCurrent
    <3> QED
      BY <3>4
  <2>4. CASE r # q
    <3>1. w # s.active
      BY <2>1, <2>4 DEF GetActiveRequest, r
    <3>2. CASE r \notin Requests
      <4>1. t = s
        BY <1>1, <3>2 DEF CancelOverlayUI, HasUI
      <4> QED
        BY <1>2, <3>1, <4>1 DEF StillShown
    <3>3. CASE r \in Requests
      <4>1. ~s.ui[r].callback
        BY <2>1, <2>4, <3>3 DEF OnlyCurrentHasCallback
      <4>2. t = s \/ NewUI(s, t, r, NoUI)
        BY <1>1, <3>3, <4>1, CancelEffect DEF Cancels
      <4> QED
        BY <1>2, <3>1, <4>2 DEF StillShown, NewUI
    <3> QED
      BY <3>2, <3>3
  <2> QED
    BY <2>3, <2>4
<1> QED
  BY <1>2, <1>3, <1>4 DEF NoneShown, t


LEMMA ShutdownShowsNothing ==
  ASSUME NEW s, Typed(s), s.context, ~s.failed, Consistent(s),
         NEW S \in SUBSET WebStates, IsFiniteSet(S), s.active \in S \union {None}
  PROVE  LET t == CancelAllOverlayUI(s, SetToSeq(S)) IN
         Typed(t) /\ SameTabs(s, t) /\ t.queue = s.queue /\ NoneShown(t)
<1> DEFINE ws == SetToSeq(S)
           n == Cardinality(S)
<1>1. /\ ws \in [1 .. n -> S] /\ n \in Nat /\ Len(ws) = n
      /\ \A x \in S : \E k \in 1 .. n : ws[k] = x
  BY SetToSeqElements
<1> HIDE DEF ws, n
<1>2. PICK after : /\ ShutdownSteps(s, ws, after)
                   /\ CancelAllOverlayUI(s, ws) = after[n]
  BY <1>1, CancelAllSteps
<1> DEFINE Good(k) ==
             /\ Typed(after[k]) /\ SameTabs(s, after[k])
             /\ after[k].queue = s.queue
             /\ \/ NoneShown(after[k])
                \/ /\ ~after[k].failed /\ Consistent(after[k])
                   /\ \A j \in 1 .. k : ws[j] # s.active
           Bad == {k \in 0 .. n : ~Good(k)}
<1>3. Good(0)
  <2>1. after[0] = s /\ ~\E j \in 1 .. 0 : TRUE
    BY <1>2 DEF ShutdownSteps
  <2> QED
    BY <2>1 DEF SameTabs
<1>4. ASSUME NEW k \in 1 .. n, Good(k - 1) PROVE Good(k)
  <2> DEFINE b == after[k - 1]
             w == ws[k]
  <2>1. /\ after[k] = CancelFront(b, w)
        /\ w \in WebStates /\ k \in Nat /\ Typed(b) /\ SameTabs(s, b)
        /\ b.queue = s.queue
    BY <1>1, <1>2, <1>4 DEF ShutdownSteps
  <2> HIDE DEF b, w
  <2>2. b.context /\ b.active = s.active
    BY <2>1 DEF SameTabs
  <2>3. CASE NoneShown(b)
    <3>1. after[k] = CancelOverlayUI(b, FrontRequest(b, w))
      BY <2>1 DEF CancelFront
    <3>2. FrontRequest(b, w) \in Requests \union {None}
      BY <2>1, FrontType DEF Typed
    <3>3. /\ Typed(after[k]) /\ SameTabs(b, after[k])
          /\ after[k].queue = b.queue /\ NoneShown(after[k])
      BY <2>1, <2>2, <2>3, <3>1, <3>2, CancelShowsNothing
    <3> QED
      BY <2>1, <3>3 DEF SameTabs
  <2>4. CASE ~NoneShown(b)
    <3>1. ~b.failed /\ Consistent(b) /\ \A j \in 1 .. k - 1 : ws[j] # s.active
      BY <1>4, <2>4 DEF b
    <3>2. /\ Typed(after[k]) /\ SameTabs(b, after[k])
          /\ after[k].queue = b.queue
          /\ NoneShown(after[k]) \/ StillShown(b, after[k], w)
      BY <2>1, <2>2, <3>1, CancelFrontShows
    <3>3. ASSUME w # s.active, NEW j \in 1 .. k PROVE ws[j] # s.active
      <4>1. j = k \/ j \in 1 .. k - 1
        BY <2>1
      <4> QED
        BY <3>1, <3>3, <4>1 DEF w
    <3> QED
      BY <2>1, <2>2, <3>2, <3>3 DEF SameTabs, StillShown
  <2> QED
    BY <2>3, <2>4
<1>5. Bad = {}
  <2> SUFFICES ASSUME Bad # {} PROVE FALSE
    OBVIOUS
  <2>1. Bad \in SUBSET Nat
    BY <1>1
  <2> HIDE DEF Bad
  <2>2. PICK m \in Bad : \A x \in Bad : m <= x
    BY <2>1, NatHasLeast
  <2> USE DEF Bad
  <2> HIDE DEF Good
  <2>3. m \in 0 .. n /\ ~Good(m) /\ m # 0
    BY <1>3, <2>2
  <2>4. m \in 1 .. n /\ m - 1 \in 0 .. n /\ ~(m <= m - 1)
    BY <1>1, <2>3
  <2>5. Good(m - 1)
    BY <2>2, <2>4
  <2> QED
    BY <1>4, <2>3, <2>4, <2>5
<1>6. Good(n)
  BY <1>1, <1>5
<1> DEFINE t == after[n]
<1>7. NoneShown(t)
  <2> SUFFICES ASSUME NEW r \in Requests, t.ui[r].coordinator = "started",
                      ~t.failed, Consistent(t),
                      \A j \in 1 .. n : ws[j] # s.active
               PROVE  FALSE
    BY <1>6 DEF NoneShown
  <2>1. s.active = None
    BY <1>1
  <2>2. r = GetActiveRequest(t) /\ t.active = s.active
    BY <1>6 DEF Consistent, ShownIsPresented, SameTabs
  <2> QED
    BY <2>1, <2>2, NoneAssumption DEF GetActiveRequest, FrontRequest
<1> QED
  BY <1>2, <1>6, <1>7 DEF ws


-----------------------------------------------------------------------------
(* The presenter's handlers.                                               *)

NotPresented(s) == Current(s) /\ NoneShown(s)

LEMMA IdleShowsNone ==
  ASSUME NEW s, ~s.failed, Consistent(s), ~s.presenting
  PROVE  NotPresented(s)
BY DEF Consistent, ShownIsPresented, NotPresented, NoneShown

(***************************************************************************)
(* Once the active tab's dialog is hidden or cancelled, nothing is shown   *)
(* that another tab could be left with.                                    *)
(***************************************************************************)
LEMMA SetActiveConsistent ==
  ASSUME NEW s, Typed(s), s.context, ~s.failed, Consistent(s),
         NEW w \in WebStates \union {None}, NEW cancel \in BOOLEAN
  PROVE  LET t == SetActiveWebState(s, w, cancel) IN
         /\ Typed(t) /\ t.context /\ t.active = w /\ t.container = s.container
         /\ t.queue = s.queue /\ Consistent(t)
<1> DEFINE b == [s EXCEPT !.active = w]
           p == GetActiveRequest(s)
           t == SetActiveWebState(s, w, cancel)
<1>1. /\ Typed(b) /\ b.context /\ b.active = w /\ b.container = s.container
      /\ b.queue = s.queue /\ b.presenting = s.presenting
      /\ b.presented = s.presented /\ b.request = s.request
      /\ b.ui = s.ui /\ ~b.failed
  BY DEF Typed, OverlayStates
<1>2. Current(s) /\ ShownIsPresented(s)
  BY DEF Consistent
<1>3. Current(b)
  BY <1>1, <1>2 DEF Current, OnlyCurrentHasCallback, ShownIsCurrent
<1>4. \A q \in Requests : b.ui[q].coordinator = "started" => q = p
  BY <1>1, <1>2 DEF ShownIsPresented
<1>5. p \in Requests \union {None}
  BY ActiveRequestType
<1>6. t = IF s.active = w THEN b
          ELSE IF ~s.presenting THEN PresentOverlayForActiveRequest(b)
          ELSE IF p = None THEN Fail(b)
          ELSE IF cancel THEN CancelOverlayUI(b, p)
          ELSE HideOverlayUI(b, p)
  BY DEF SetActiveWebState
<1> HIDE DEF b, t, p
<1>7. CASE s.active = w
  <2>1. GetActiveRequest(b) = GetActiveRequest(s)
    BY <1>1, <1>7, SameFront
  <2>2. ShownIsPresented(b)
    BY <1>1, <1>2, <2>1 DEF ShownIsPresented
  <2> QED
    BY <1>1, <1>3, <1>6, <1>7, <2>2 DEF Consistent, t
<1>8. CASE s.active # w /\ ~s.presenting
  <2>1. NoneShown(b)
    BY <1>1, <1>8, IdleShowsNone DEF NotPresented, NoneShown
  <2>2. /\ Typed(t) /\ SameTabs(b, t) /\ t.queue = b.queue /\ Consistent(t)
    BY <1>1, <1>3, <1>6, <1>8, <2>1, PresentConsistent
  <2> QED
    BY <1>1, <2>2 DEF SameTabs, t
<1>9. CASE s.active # w /\ s.presenting /\ p = None
  <2>1. HasFailed(b, t)
    BY <1>1, <1>6, <1>9, FailEffect
  <2> QED
    BY <1>1, <2>1 DEF HasFailed, SamePresenter, SameTabs, Consistent, t
<1>10. CASE s.active # w /\ s.presenting /\ p # None /\ cancel
  <2>1. /\ Typed(t) /\ SameTabs(b, t) /\ t.queue = b.queue
        /\ ~t.failed =>
             /\ Current(t) /\ t.ui[p].coordinator # "started"
             /\ ShownIsPresented(t) \/ LeftAlone(b, t, p)
    BY <1>1, <1>3, <1>5, <1>6, <1>10, CancelConsistent
  <2>2. ~t.failed /\ LeftAlone(b, t, p) => ShownIsPresented(t)
    BY <1>4, <2>1 DEF LeftAlone, ShownIsPresented
  <2> QED
    BY <1>1, <2>1, <2>2 DEF SameTabs, Consistent, t
<1>11. CASE s.active # w /\ s.presenting /\ p # None /\ ~cancel
  <2>1. OffAndConsistent(b, t, p) /\ t.queue = b.queue
    BY <1>1, <1>3, <1>5, <1>6, <1>11, HideConsistent
  <2> QED
    BY <1>1, <2>1 DEF OffAndConsistent, SameTabs, Consistent, t
<1> QED
  BY <1>7, <1>8, <1>9, <1>10, <1>11

(***************************************************************************)
(* A request is inserted: if the active tab's dialog is on screen and its  *)
(* request no longer in front, it is the one behind the new front request, *)
(* and makes room.                                                         *)
(***************************************************************************)
Inserted(o, w, r, i) == [o EXCEPT !.queue[w] = InsertAt(@, i, r)]

LEMMA InsertedEffect ==
  ASSUME NEW o, Typed(o), NEW w \in WebStates, NEW r \in Requests,
         NEW i \in 1 .. Len(o.queue[w]) + 1
  PROVE  LET s == Inserted(o, w, r, i) IN
         /\ Typed(s) /\ SameTabs(o, s)
         /\ s.presenting = o.presenting /\ s.presented = o.presented
         /\ s.request = o.request /\ s.ui = o.ui /\ s.failed = o.failed
         /\ s.queue[w] = InsertAt(o.queue[w], i, r)
         /\ \A v \in WebStates \ {w} : s.queue[v] = o.queue[v]
<1>1. o.queue[w] \in Seq(Requests)
  BY DEF Typed, OverlayStates
<1>2. InsertAt(o.queue[w], i, r) \in Seq(Requests)
  BY <1>1, InsertAtProperties
<1> QED
  BY <1>1, <1>2 DEF Typed, OverlayStates, SameTabs, Inserted

LEMMA InsertedFront ==
  ASSUME NEW o, Typed(o), NEW w \in WebStates, NEW r \in Requests,
         NEW i \in 1 .. Len(o.queue[w]) + 1,
         \A v \in WebStates : r \notin ToSet(o.queue[v])
  PROVE  LET s == Inserted(o, w, r, i)
             a == GetActiveRequest(o) IN
         \/ GetActiveRequest(s) = a /\ a # r
         \/ /\ GetActiveRequest(s) = r /\ w = o.active
            /\ a # None => Len(s.queue[w]) > 1 /\ s.queue[w][2] = a
<1> DEFINE s == Inserted(o, w, r, i)
           a == GetActiveRequest(o)
           queue == o.queue[w]
<1>1. /\ s.active = o.active /\ s.queue[w] = InsertAt(queue, i, r)
      /\ \A v \in WebStates \ {w} : s.queue[v] = o.queue[v]
  BY InsertedEffect DEF SameTabs
<1>2. /\ \A v \in WebStates : o.queue[v] \in Seq(Requests)
      /\ o.active \in WebStates \union {None} /\ None \notin WebStates
      /\ r # None
  BY NoneAssumption DEF Typed, OverlayStates
<1> HIDE DEF s
<1>3. /\ Len(s.queue[w]) = Len(queue) + 1 /\ s.queue[w] \in Seq(Requests)
      /\ \A j \in 1 .. Len(queue) + 1 :
           s.queue[w][j] = IF j < i THEN queue[j]
                           ELSE IF j = i THEN r ELSE queue[j - 1]
  <2>1. queue \in Seq(Requests) /\ i \in 1 .. Len(queue) + 1
    BY <1>2
  <2> HIDE DEF queue
  <2> QED
    BY <1>1, <2>1, InsertAtProperties
<1>4. \A v \in WebStates : o.queue[v] # << >> =>
        Head(o.queue[v]) = o.queue[v][1] /\ Head(o.queue[v]) # r
        /\ 1 \in 1 .. Len(o.queue[v])
  BY <1>2 DEF ToSet
<1>5. CASE w # o.active
  BY <1>1, <1>2, <1>4, <1>5 DEF GetActiveRequest, FrontRequest, s
<1>6. CASE w = o.active
  <2>1. /\ GetActiveRequest(s) = s.queue[w][1]
        /\ a = IF queue = << >> THEN None ELSE queue[1]
    BY <1>1, <1>2, <1>3, <1>4, <1>6 DEF GetActiveRequest, FrontRequest
  <2>2. Len(queue) \in Nat /\ (queue = << >> <=> Len(queue) = 0)
        /\ i \in 1 .. Len(queue) + 1
    BY <1>2
  <2> HIDE DEF queue, a
  <2>3. CASE i = 1
    <3>1. s.queue[w][1] = r
      BY <1>3, <2>2, <2>3
    <3>2. a # None => Len(s.queue[w]) > 1 /\ s.queue[w][2] = a
      BY <1>3, <2>1, <2>2, <2>3
    <3> QED
      BY <1>6, <2>1, <3>1, <3>2 DEF s, a
  <2>4. CASE i # 1
    <3>1. queue # << >> /\ s.queue[w][1] = queue[1]
      BY <1>3, <2>2, <2>4
    <3>2. queue[1] # r
      BY <1>4, <3>1 DEF queue
    <3> QED
      BY <2>1, <3>1, <3>2 DEF s, a
  <2> QED
    BY <2>3, <2>4
<1> QED
  BY <1>5, <1>6

LEMMA InsertConsistent ==
  ASSUME NEW o, Typed(o), o.context, ~o.failed, Consistent(o),
         NEW w \in WebStates, NEW r \in Requests,
         NEW i \in 1 .. Len(o.queue[w]) + 1,
         \A v \in WebStates : r \notin ToSet(o.queue[v])
  PROVE  LET s == Inserted(o, w, r, i)
             t == RequestAddedToQueue(s, w, r) IN
         /\ Typed(s) /\ SameTabs(o, s)
         /\ w # o.active => Consistent(s)
         /\ Typed(t) /\ SameTabs(o, t) /\ t.queue = s.queue /\ Consistent(t)
<1> DEFINE s == Inserted(o, w, r, i)
           t == RequestAddedToQueue(s, w, r)
           a == GetActiveRequest(o)
<1>1. /\ Typed(s) /\ SameTabs(o, s)
      /\ s.presenting = o.presenting /\ s.presented = o.presented
      /\ s.request = o.request /\ s.ui = o.ui /\ s.failed = o.failed
  BY InsertedEffect
<1>2. \/ GetActiveRequest(s) = a /\ a # r
      \/ /\ GetActiveRequest(s) = r /\ w = o.active
         /\ a # None => Len(s.queue[w]) > 1 /\ s.queue[w][2] = a
  BY InsertedFront
<1>3. Current(o) /\ ShownIsPresented(o)
  BY DEF Consistent
<1> HIDE DEF s
<1>4. Current(s)
  BY <1>1, <1>3 DEF Current, OnlyCurrentHasCallback, ShownIsCurrent, SameTabs
<1>5. GetActiveRequest(s) # r => Consistent(s)
  BY <1>1, <1>2, <1>3, <1>4 DEF Consistent, ShownIsPresented
<1>6. w # o.active => Consistent(s)
  BY <1>2, <1>5
<1>7. CASE GetActiveRequest(s) # r
  <2>1. t = s
    BY <1>7 DEF RequestAddedToQueue
  <2> QED
    BY <1>1, <1>5, <1>7, <2>1 DEF s
<1>8. CASE GetActiveRequest(s) = r /\ ~s.presenting
  <2>1. t = PresentOverlayForActiveRequest(s)
    BY <1>8 DEF RequestAddedToQueue
  <2>2. NoneShown(s)
    BY <1>1, <1>8, IdleShowsNone DEF NotPresented, NoneShown
  <2> HIDE DEF t
  <2>3. Typed(t) /\ SameTabs(s, t) /\ t.queue = s.queue /\ Consistent(t)
    BY <1>1, <1>4, <2>1, <2>2, PresentConsistent
  <2> QED
    BY <1>1, <1>6, <2>3 DEF SameTabs, s, t
<1>9. CASE GetActiveRequest(s) = r /\ s.presenting
  <2> DEFINE inserted == /\ s.presented # None /\ Len(s.queue[w]) > 1
                         /\ s.queue[w][2] = s.presented
  <2>1. t = IF inserted THEN HideOverlayUI(s, s.presented) ELSE s
    BY <1>9 DEF RequestAddedToQueue
  <2>2. \A q \in Requests : s.ui[q].coordinator = "started" =>
          q = s.presented /\ q = a /\ q # None
    BY <1>1, <1>3, NoneAssumption DEF ShownIsPresented
  <2> HIDE DEF t
  <2>3. CASE inserted
    <3>1. s.presented \in Requests /\ s.context
      BY <1>1, <2>3 DEF Typed, OverlayStates, SameTabs
    <3>2. OffAndConsistent(s, t, s.presented) /\ t.queue = s.queue
      BY <1>1, <1>4, <2>1, <2>3, <3>1, HideConsistent
    <3> QED
      BY <1>1, <1>6, <3>2 DEF OffAndConsistent, SameTabs, Consistent, s, t
  <2>4. CASE ~inserted
    <3>1. NoneShown(s)
      BY <1>2, <1>9, <2>2, <2>4 DEF NoneShown
    <3>2. Consistent(s)
      BY <1>4, <3>1 DEF Consistent, ShownIsPresented, NoneShown
    <3> QED
      BY <1>1, <2>1, <2>4, <3>2 DEF s, t
  <2> QED
    BY <2>3, <2>4
<1> QED
  BY <1>7, <1>8, <1>9


(***************************************************************************)
(* The container comes or goes.                                            *)
(***************************************************************************)
Contained(s, on) == [s EXCEPT !.container = on]

LEMMA ContainedEffect ==
  ASSUME NEW s, Typed(s), NEW on \in BOOLEAN
  PROVE  LET t == Contained(s, on) IN
         /\ Typed(t) /\ t.container = on /\ t.active = s.active
         /\ t.context = s.context /\ t.queue = s.queue
         /\ t.presenting = s.presenting /\ t.presented = s.presented
         /\ t.request = s.request /\ t.ui = s.ui /\ t.failed = s.failed
BY DEF Typed, OverlayStates, Contained

LEMMA CoordinatorConsistent ==
  ASSUME NEW s, Typed(s), s.context, ~s.failed, Consistent(s),
         NEW on \in BOOLEAN
  PROVE  LET t == UpdateForCoordinator(s, on) IN
         /\ Typed(t) /\ t.context /\ t.active = s.active /\ t.queue = s.queue
         /\ Consistent(t)
<1> DEFINE t == UpdateForCoordinator(s, on)
           r == GetActiveRequest(s)
           will == IF ~s.presenting THEN s
                   ELSE IF r = None THEN Fail(s)
                   ELSE IF on THEN s
                   ELSE HideOverlayUI(s, r)
           c == Contained(will, on)
<1>1. t = IF c.presenting THEN c ELSE PresentOverlayForActiveRequest(c)
  BY DEF UpdateForCoordinator, Contained
<1>2. Current(s) /\ ShownIsPresented(s)
  BY DEF Consistent
<1>3. r \in Requests \union {None}
  BY ActiveRequestType
<1>4. /\ Typed(will) /\ SameTabs(s, will) /\ will.queue = s.queue
      /\ ~will.failed =>
           /\ Current(will)
           /\ NoneShown(will) \/ (on /\ s.presenting /\ will = s)
  <2>1. CASE ~s.presenting
    <3>1. NoneShown(s) /\ will = s
      BY <2>1, IdleShowsNone DEF NotPresented
    <3> QED
      BY <1>2, <3>1 DEF SameTabs
  <2>2. CASE s.presenting /\ r = None
    <3>1. will = Fail(s)
      BY <2>2
    <3>2. HasFailed(s, will)
      BY <3>1, FailEffect
    <3> QED
      BY <3>2 DEF HasFailed, SamePresenter
  <2>3. CASE s.presenting /\ r # None /\ on
    <3>1. will = s
      BY <2>3
    <3> QED
      BY <1>2, <2>3, <3>1 DEF SameTabs
  <2>4. CASE s.presenting /\ r # None /\ ~on
    <3>1. will = HideOverlayUI(s, r)
      BY <2>4
    <3> HIDE DEF will
    <3>2. OffAndConsistent(s, will, r) /\ will.queue = s.queue
      BY <1>2, <1>3, <2>4, <3>1, HideConsistent
    <3>3. GetActiveRequest(will) = r
      BY <3>2, SameFront DEF OffAndConsistent, SameTabs
    <3> QED
      BY <3>2, <3>3 DEF OffAndConsistent, ShownIsPresented, NoneShown
  <2> QED
    BY <2>1, <2>2, <2>3, <2>4
<1> HIDE DEF will, t, r
<1>5. /\ Typed(c) /\ c.container = on /\ c.active = s.active /\ c.context
      /\ c.queue = s.queue /\ c.presenting = will.presenting
      /\ c.presented = will.presented /\ c.request = will.request
      /\ c.ui = will.ui /\ c.failed = will.failed
  <2>1. /\ Typed(c) /\ c.container = on /\ c.active = will.active
        /\ c.context = will.context /\ c.queue = will.queue
        /\ c.presenting = will.presenting /\ c.presented = will.presented
        /\ c.request = will.request /\ c.ui = will.ui /\ c.failed = will.failed
    BY <1>4, ContainedEffect
  <2> HIDE DEF c
  <2> QED
    BY <1>4, <2>1 DEF SameTabs
<1> HIDE DEF c
<1>6. ~c.failed => Current(c)
  BY <1>4, <1>5
     DEF Current, OnlyCurrentHasCallback, ShownIsCurrent, NoneShown
<1>7. GetActiveRequest(c) = GetActiveRequest(s)
  BY <1>5, SameFront
<1>8. CASE c.presenting
  <2>1. Consistent(c)
    BY <1>2, <1>4, <1>5, <1>6, <1>7 DEF Consistent, ShownIsPresented, NoneShown
  <2> QED
    BY <1>1, <1>5, <1>8, <2>1 DEF t
<1>9. CASE ~c.presenting
  <2>1. ~c.failed => NoneShown(c)
    BY <1>4, <1>5, <1>9 DEF NoneShown
  <2>2. Typed(t) /\ SameTabs(c, t) /\ t.queue = c.queue /\ Consistent(t)
    BY <1>1, <1>5, <1>6, <1>9, <2>1, PresentConsistent
  <2> QED
    BY <1>5, <2>2 DEF SameTabs, t
<1> QED
  BY <1>8, <1>9

(***************************************************************************)
(* The queue of a tab that is not active goes.                             *)
(***************************************************************************)
LEMMA DestroyedEffect ==
  ASSUME NEW s, Typed(s), NEW w \in WebStates
  PROVE  LET t == Destroyed(s, w) IN
         /\ Typed(t) /\ SameTabs(s, t)
         /\ t.presenting = s.presenting /\ t.presented = s.presented
         /\ t.request = s.request /\ t.ui = s.ui /\ t.failed = s.failed
         /\ t.queue[w] = << >>
         /\ \A v \in WebStates \ {w} : t.queue[v] = s.queue[v]
<1>1. << >> \in Seq(Requests)
  OBVIOUS
<1> QED
  BY <1>1 DEF Typed, OverlayStates, SameTabs, Destroyed

LEMMA DestroyedConsistent ==
  ASSUME NEW s, Typed(s), Consistent(s), NEW w \in WebStates, w # s.active
  PROVE  LET t == Destroyed(s, w) IN
         Typed(t) /\ SameTabs(s, t) /\ Consistent(t) /\ Shrinks(s, t)
<1> DEFINE t == Destroyed(s, w)
<1>1. /\ Typed(t) /\ SameTabs(s, t)
      /\ t.presenting = s.presenting /\ t.presented = s.presented
      /\ t.request = s.request /\ t.ui = s.ui /\ t.failed = s.failed
      /\ t.queue[w] = << >>
      /\ \A v \in WebStates \ {w} : t.queue[v] = s.queue[v]
  BY DestroyedEffect
<1> HIDE DEF t
<1>2. GetActiveRequest(t) = GetActiveRequest(s)
  BY <1>1, NoneAssumption
     DEF GetActiveRequest, FrontRequest, SameTabs, Typed, OverlayStates
<1>3. Consistent(t)
  BY <1>1, <1>2 DEF Consistent, Current, OnlyCurrentHasCallback,
                    ShownIsCurrent, ShownIsPresented, SameTabs
<1>4. ToSet(<< >>) = {}
  BY DEF ToSet
<1>5. Shrinks(s, t)
  BY <1>1, <1>4 DEF Shrinks
<1> QED
  BY <1>1, <1>3, <1>5 DEF t

(***************************************************************************)
(* The answered dialog of r has gone: its request leaves its queue.        *)
(***************************************************************************)
LEMMA QueueAfterShrinks ==
  ASSUME NEW s, Typed(s), NEW r \in Requests, NEW reason, NEW w \in WebStates
  PROVE  ToSet(QueueAfter(s, r, reason)[w]) \subseteq ToSet(s.queue[w])
<1>1. s.queue[w] \in Seq(Requests)
  BY DEF Typed, OverlayStates
<1>2. CASE reason = "user" /\ FrontRequest(s, w) = r
  <2>1. s.queue[w] # << >>
    BY <1>2, NoneAssumption DEF FrontRequest
  <2>2. \A j \in 1 .. Len(s.queue[w]) - 1 :
          /\ Tail(s.queue[w])[j] = s.queue[w][j + 1]
          /\ j + 1 \in 1 .. Len(s.queue[w])
    BY <1>1, <2>1
  <2>3. DOMAIN Tail(s.queue[w]) = 1 .. Len(s.queue[w]) - 1
    BY <1>1, <2>1
  <2>4. ToSet(Tail(s.queue[w])) \subseteq ToSet(s.queue[w])
    BY <1>1, <2>2, <2>3 DEF ToSet
  <2> QED
    BY <1>2, <2>4 DEF QueueAfter
<1>3. CASE ~(reason = "user" /\ FrontRequest(s, w) = r)
  BY <1>3 DEF QueueAfter
<1> QED
  BY <1>2, <1>3

LEMMA FinishKeepsConsistent ==
  ASSUME NEW s, Typed(s), s.context, ~s.failed, Consistent(s),
         NEW r \in Requests, s.ui[r].coordinator = "leaving"
  PROVE  LET t == OverlayUIDidFinishDismissal(s, r) IN
         Typed(t) /\ SameTabs(s, t) /\ Consistent(t) /\ Shrinks(s, t)
<1> DEFINE t == OverlayUIDidFinishDismissal(s, r)
<1>1. s.ui[r] # NoUI
  BY DEF NoUI
<1>2. /\ FailsOr(s, t, s.request = r /\ s.ui[r].callback)
      /\ s.request = r /\ s.ui[r].callback =>
           Finishes(s, t, r, s.ui[r].reason)
  BY <1>1, FinishEffect
<1> HIDE DEF t
<1>3. CASE ~(s.request = r /\ s.ui[r].callback)
  BY <1>2, <1>3 DEF FailsOr, Consistent, Shrinks, t
<1>4. CASE s.request = r /\ s.ui[r].callback
  <2>1. Finishes(s, t, r, s.ui[r].reason) /\ Current(s)
    BY <1>2, <1>4 DEF Consistent
  <2>2. OffAndConsistent(s, t, r)
    BY <1>4, <2>1, FinishConsistent
  <2>3. t.queue = s.queue \/ t.queue = QueueAfter(s, r, s.ui[r].reason)
    BY <2>1 DEF Finishes
  <2>4. Shrinks(s, t)
    BY <2>3, QueueAfterShrinks DEF Shrinks
  <2> QED
    BY <2>2, <2>4 DEF OffAndConsistent, Consistent, t
<1> QED
  BY <1>3, <1>4

(***************************************************************************)
(* The user answers: the coordinator is stopped.                           *)
(***************************************************************************)
LEMMA AnsweredConsistent ==
  ASSUME NEW s, Typed(s), ~s.failed, Consistent(s), NEW r \in Requests,
         s.ui[r].coordinator = "started"
  PROVE  LET t == [s EXCEPT !.ui[r].coordinator = "leaving"] IN
         /\ NewUI(s, t, r, [s.ui[r] EXCEPT !.coordinator = "leaving"])
         /\ Consistent(t)
<1> DEFINE t == [s EXCEPT !.ui[r].coordinator = "leaving"]
           u == [s.ui[r] EXCEPT !.coordinator = "leaving"]
<1>1. s.ui[r] # NoUI
  BY DEF NoUI
<1>2. NewUI(s, t, r, u)
  BY <1>1, CoordinatorEffect
<1>3. /\ u.coordinator # "started" /\ u.callback = s.ui[r].callback
      /\ Current(s)
  BY <1>1 DEF Typed, OverlayStates, UIStates, Consistent
<1> HIDE DEF u, t
<1>4. NoneShown(t) /\ OnlyCurrentHasCallback(t)
  BY <1>2, <1>3 DEF NewUI, NoneShown, Current, OnlyCurrentHasCallback,
                    ShownIsCurrent
<1>5. Consistent(t)
  BY <1>4 DEF Consistent, Current, NoneShown, ShownIsCurrent, ShownIsPresented
<1> QED
  BY <1>2, <1>5 DEF t, u


-----------------------------------------------------------------------------
(* The invariant of every behaviour, whatever interferes.                  *)

QueuedWereAsked ==
  \A w \in WebStates : ToSet(overlays.queue[w]) \subseteq ToSet(asked)

SafeInv ==
  /\ TypeOK
  /\ IsFiniteSet(Open)
  /\ QueuedWereAsked
  /\ overlays.context =>
       Consistent(overlays) /\ overlays.active \in Open \union {None}
  /\ ~overlays.context => NoneShown(overlays)

LEMMA SafeFacts ==
  ASSUME SafeInv, Running
  PROVE  /\ Typed(overlays) /\ overlays.context /\ ~overlays.failed
         /\ Consistent(overlays)
         /\ overlays.active \in Open \union {None}
         /\ \A w \in WebStates : Observed(w) \/ w # overlays.active
BY NoneAssumption DEF SafeInv, TypeOK, Typed, Running, Observed, Open

(***************************************************************************)
(* The queues only lose requests, and the active tab is open.              *)
(***************************************************************************)
LEMMA KeepsSafe ==
  ASSUME SafeInv,
         tabs' \in [WebStates -> {"new", "open", "gone"}],
         NEW w \in WebStates, Open' \subseteq Open \union {w},
         asked' = asked, interference' = interference,
         answered' \subseteq ToSet(asked),
         Typed(overlays'), overlays'.context, Consistent(overlays'),
         Shrinks(overlays, overlays'), overlays'.active \in Open' \union {None}
  PROVE  SafeInv'
<1>1. TypeOK'
  BY DEF SafeInv, TypeOK, Typed
<1>2. IsFiniteSet(Open')
  <2>1. IsFiniteSet(Open \union {w})
    BY FS_AddElement DEF SafeInv
  <2> QED
    BY <2>1, FS_Subset
<1>3. QueuedWereAsked'
  BY DEF SafeInv, QueuedWereAsked, Shrinks
<1> QED
  BY <1>1, <1>2, <1>3 DEF SafeInv

(***************************************************************************)
(* The tabs stay as they are.                                              *)
(***************************************************************************)
LEMMA KeepsSafeWithTabs ==
  ASSUME SafeInv, Running, UNCHANGED << tabs, asked, interference >>,
         answered' \subseteq ToSet(asked),
         Typed(overlays'), overlays'.context, Consistent(overlays'),
         Shrinks(overlays, overlays'), overlays'.active \in Open \union {None}
  PROVE  SafeInv'
<1>1. Open' = Open
  BY DEF Open
<1>2. /\ TypeOK' /\ QueuedWereAsked' /\ IsFiniteSet(Open')
  BY <1>1 DEF SafeInv, TypeOK, Typed, QueuedWereAsked, Shrinks
<1> QED
  BY <1>1, <1>2 DEF SafeInv

LEMMA InitSafe == Init => SafeInv
<1> SUFFICES ASSUME Init PROVE SafeInv
  OBVIOUS
<1>1. Typed(overlays)
  <2>1. << >> \in Seq(Requests)
    OBVIOUS
  <2> QED
    BY <2>1, NoneAssumption DEF Init, Typed, OverlayStates
<1>2. TypeOK
  BY <1>1, InterferenceAssumption DEF Init, TypeOK, Typed
<1>3. Open = {}
  BY DEF Init, Open
<1>4. IsFiniteSet(Open)
  BY <1>3, FS_EmptySet
<1>5. QueuedWereAsked
  BY DEF Init, QueuedWereAsked
<1>6. Consistent(overlays) /\ overlays.active = None
  BY DEF Init, Consistent, Current, OnlyCurrentHasCallback, ShownIsCurrent,
         ShownIsPresented, NoUI
<1> QED
  BY <1>2, <1>4, <1>5, <1>6 DEF SafeInv, Init

LEMMA AppendAdds ==
  ASSUME NEW queue \in Seq(Requests), NEW r \in Requests
  PROVE  /\ Append(queue, r) \in Seq(Requests)
         /\ ToSet(Append(queue, r)) = ToSet(queue) \union {r}
<1>1. /\ Append(queue, r) \in Seq(Requests)
      /\ Len(Append(queue, r)) = Len(queue) + 1
      /\ \A j \in 1 .. Len(queue) : Append(queue, r)[j] = queue[j]
      /\ Append(queue, r)[Len(queue) + 1] = r
  OBVIOUS
<1>2. 1 .. Len(queue) + 1 = (1 .. Len(queue)) \union {Len(queue) + 1}
  OBVIOUS
<1> QED
  BY <1>1, <1>2 DEF ToSet

LEMMA InsertSafe ==
  ASSUME SafeInv, NEW w \in WebStates, NEW r \in Requests,
         NEW i \in 1 .. Len(overlays.queue[w]) + 1, InsertRequest(w, r, i)
  PROVE  SafeInv'
<1> DEFINE s == Inserted(overlays, w, r, i)
           t == RequestAddedToQueue(s, w, r)
<1>1. Running /\ r \notin ToSet(asked) /\ asked' = Append(asked, r)
      /\ overlays' = (IF Observed(w) THEN t ELSE s)
      /\ UNCHANGED << tabs, answered, interference >>
  BY DEF InsertRequest, Inserted
<1>2. /\ Typed(overlays) /\ overlays.context /\ ~overlays.failed
      /\ Consistent(overlays) /\ overlays.active \in Open \union {None}
      /\ Observed(w) \/ w # overlays.active
  BY <1>1, SafeFacts
<1>3. \A v \in WebStates : r \notin ToSet(overlays.queue[v])
  BY <1>1 DEF SafeInv, QueuedWereAsked
<1>4. /\ Typed(s) /\ SameTabs(overlays, s)
      /\ w # overlays.active => Consistent(s)
      /\ Typed(t) /\ SameTabs(overlays, t) /\ t.queue = s.queue /\ Consistent(t)
  BY <1>2, <1>3, InsertConsistent
<1>5. /\ s.queue[w] = InsertAt(overlays.queue[w], i, r)
      /\ \A v \in WebStates \ {w} : s.queue[v] = overlays.queue[v]
  BY <1>2, InsertedEffect
<1> HIDE DEF s, t
<1>6. /\ Typed(overlays') /\ SameTabs(overlays, overlays')
      /\ overlays'.queue = s.queue /\ Consistent(overlays')
  BY <1>1, <1>2, <1>4
<1>7. asked' \in Seq(Requests) /\ ToSet(asked') = ToSet(asked) \union {r}
  BY <1>1, AppendAdds DEF SafeInv, TypeOK
<1>8. ToSet(s.queue[w]) \subseteq ToSet(overlays.queue[w]) \union {r}
  <2>1. overlays.queue[w] \in Seq(Requests)
    BY <1>2 DEF Typed, OverlayStates
  <2> QED
    BY <1>5, <2>1, InsertAtAdds
<1>9. QueuedWereAsked'
  BY <1>5, <1>6, <1>7, <1>8 DEF SafeInv, QueuedWereAsked
<1>10. Open' = Open
  BY <1>1 DEF Open
<1>11. TypeOK'
  BY <1>1, <1>6, <1>7 DEF SafeInv, TypeOK, Typed
<1> QED
  BY <1>2, <1>6, <1>9, <1>10, <1>11 DEF SafeInv, SameTabs


LEMMA ReverseType ==
  ASSUME NEW queue \in Seq(Requests)
  PROVE  Reverse(queue) \in Seq(Requests) /\ ToSet(Reverse(queue)) = ToSet(queue)
<1> DEFINE n == Len(queue)
           t == Reverse(queue)
<1>1. n \in Nat /\ DOMAIN queue = 1 .. n /\ \A j \in 1 .. n : queue[j] \in Requests
  OBVIOUS
<1>2. t = [j \in 1 .. n |-> queue[n - j + 1]]
  BY DEF Reverse
<1> HIDE DEF t, n
<1>3. ASSUME NEW j \in 1 .. n
      PROVE  n - j + 1 \in 1 .. n /\ n - (n - j + 1) + 1 = j
  BY <1>1
<1>4. \A j \in 1 .. n : t[j] = queue[n - j + 1]
  BY <1>2
<1>5. t \in [1 .. n -> Requests] /\ DOMAIN t = 1 .. n
  BY <1>1, <1>2, <1>3
<1>6. t \in Seq(Requests)
  BY <1>1, <1>5
<1>7. ToSet(t) \subseteq ToSet(queue)
  BY <1>1, <1>3, <1>4, <1>5 DEF ToSet
<1>8. ASSUME NEW j \in 1 .. n PROVE queue[j] \in ToSet(t)
  <2>1. t[n - j + 1] = queue[j]
    BY <1>3, <1>4
  <2> QED
    BY <1>3, <1>5, <2>1 DEF ToSet
<1>9. ToSet(queue) \subseteq ToSet(t)
  BY <1>1, <1>8 DEF ToSet
<1> QED
  BY <1>6, <1>7, <1>9 DEF t

(***************************************************************************)
(* Every way of cancelling the requests of a tab.                          *)
(***************************************************************************)
LEMMA CancelledSafe ==
  ASSUME SafeInv, Running, NEW w \in WebStates, NEW rs \in Seq(Requests),
         overlays' = CancelledAll(w, overlays, rs),
         UNCHANGED << tabs, asked, answered, interference >>
  PROVE  SafeInv'
<1>1. /\ Typed(overlays) /\ overlays.context /\ Consistent(overlays)
      /\ overlays.active \in Open \union {None}
      /\ Observed(w) \/ w # overlays.active
  BY SafeFacts
<1>2. /\ Typed(overlays') /\ SameTabs(overlays, overlays')
      /\ Consistent(overlays') /\ Shrinks(overlays, overlays')
  BY <1>1, CancelledAllConsistent
<1>3. answered' \subseteq ToSet(asked)
  BY DEF SafeInv, TypeOK
<1> QED
  BY <1>1, <1>2, <1>3, KeepsSafeWithTabs DEF SameTabs

LEMMA CancelSafe ==
  ASSUME SafeInv, NEW w \in WebStates, NEW r \in Requests, CancelRequest(w, r)
  PROVE  SafeInv'
<1>1. /\ Running /\ overlays' = CancelledIn(w, overlays, r)
      /\ UNCHANGED << tabs, asked, answered, interference >>
  BY DEF CancelRequest
<1>2. /\ Typed(overlays) /\ overlays.context /\ Consistent(overlays)
      /\ overlays.active \in Open \union {None}
      /\ Observed(w) \/ w # overlays.active
  BY <1>1, SafeFacts
<1>3. /\ Typed(overlays') /\ SameTabs(overlays, overlays')
      /\ Consistent(overlays') /\ Shrinks(overlays, overlays')
  BY <1>1, <1>2, CancelledInConsistent
<1>4. answered' \subseteq ToSet(asked)
  BY <1>1 DEF SafeInv, TypeOK
<1> QED
  BY <1>1, <1>2, <1>3, <1>4, KeepsSafeWithTabs DEF SameTabs

LEMMA NavigationSafe ==
  ASSUME SafeInv, NEW w \in WebStates, DidFinishNavigation(w)
  PROVE  SafeInv'
<1>1. asked \in Seq(Requests)
  BY DEF SafeInv, TypeOK
<1> QED
  BY <1>1, CancelledSafe DEF DidFinishNavigation

LEMMA CancelAllSafe ==
  ASSUME SafeInv, NEW w \in WebStates, CancelAllRequests(w)
  PROVE  SafeInv'
<1>1. overlays.queue[w] \in Seq(Requests)
  BY DEF SafeInv, TypeOK, OverlayStates
<1>2. Reverse(overlays.queue[w]) \in Seq(Requests)
  BY <1>1, ReverseType
<1> QED
  BY <1>2, CancelledSafe DEF CancelAllRequests

(***************************************************************************)
(* What is on screen is in the active tab's queue, and so was asked.       *)
(***************************************************************************)
LEMMA FrontIsQueued ==
  ASSUME NEW s, Typed(s), NEW w \in WebStates \union {None},
         FrontRequest(s, w) # None
  PROVE  w \in WebStates /\ FrontRequest(s, w) \in ToSet(s.queue[w])
<1>1. w \in WebStates /\ s.queue[w] # << >> /\ s.queue[w] \in Seq(Requests)
  BY DEF FrontRequest, Typed, OverlayStates
<1>2. FrontRequest(s, w) = s.queue[w][1] /\ 1 \in 1 .. Len(s.queue[w])
  BY <1>1, NoneAssumption DEF FrontRequest
<1> QED
  BY <1>1, <1>2 DEF ToSet

LEMMA StopSafe ==
  ASSUME SafeInv, NEW r \in Requests, StopOverlayForMediator(r)
  PROVE  SafeInv'
<1>1. /\ Running /\ overlays.ui[r].coordinator = "started"
      /\ overlays' = [overlays EXCEPT !.ui[r].coordinator = "leaving"]
      /\ answered' = answered \union {r}
      /\ UNCHANGED << tabs, asked, interference >>
  BY DEF StopOverlayForMediator
<1>2. /\ Typed(overlays) /\ overlays.context /\ ~overlays.failed
      /\ Consistent(overlays) /\ overlays.active \in Open \union {None}
  BY <1>1, SafeFacts
<1>3. /\ NewUI(overlays, overlays', r,
               [overlays.ui[r] EXCEPT !.coordinator = "leaving"])
      /\ Consistent(overlays')
  BY <1>1, <1>2, AnsweredConsistent
<1>4. r = GetActiveRequest(overlays) /\ r # None
  BY <1>1, <1>2, NoneAssumption DEF Consistent, ShownIsPresented
<1>5. r \in ToSet(asked)
  <2>1. overlays.active \in WebStates
        /\ r \in ToSet(overlays.queue[overlays.active])
    BY <1>2, <1>4, FrontIsQueued DEF GetActiveRequest, Open
  <2> QED
    BY <2>1 DEF SafeInv, QueuedWereAsked
<1>6. answered' \subseteq ToSet(asked)
  BY <1>1, <1>5 DEF SafeInv, TypeOK
<1> QED
  BY <1>1, <1>2, <1>3, <1>6, KeepsSafeWithTabs
     DEF NewUI, SamePresenter, SameTabs, Shrinks

LEMMA DismissSafe ==
  ASSUME SafeInv, NEW r \in Requests, ContainedPresenterDidDismiss(r)
  PROVE  SafeInv'
<1>1. /\ Running /\ overlays.ui[r].coordinator = "leaving"
      /\ overlays' = OverlayUIDidFinishDismissal(overlays, r)
      /\ UNCHANGED << tabs, asked, answered, interference >>
  BY DEF ContainedPresenterDidDismiss, Leaving
<1>2. /\ Typed(overlays) /\ overlays.context /\ ~overlays.failed
      /\ Consistent(overlays) /\ overlays.active \in Open \union {None}
  BY <1>1, SafeFacts
<1>3. /\ Typed(overlays') /\ SameTabs(overlays, overlays')
      /\ Consistent(overlays') /\ Shrinks(overlays, overlays')
  BY <1>1, <1>2, FinishKeepsConsistent
<1>4. answered' \subseteq ToSet(asked)
  BY <1>1 DEF SafeInv, TypeOK
<1> QED
  BY <1>1, <1>2, <1>3, <1>4, KeepsSafeWithTabs DEF SameTabs


LEMMA SameQueuesShrink ==
  ASSUME NEW s, NEW t, t.queue = s.queue
  PROVE  Shrinks(s, t)
BY DEF Shrinks

LEMMA InsertedTabSafe ==
  ASSUME SafeInv, NEW w \in WebStates, NEW activating \in BOOLEAN,
         WebStateInserted(w, activating)
  PROVE  SafeInv'
<1> DEFINE t == SetActiveWebState(overlays, w, FALSE)
<1>1. /\ Running /\ tabs[w] = "new" /\ tabs' = [tabs EXCEPT ![w] = "open"]
      /\ overlays' = (IF activating THEN t ELSE overlays)
      /\ UNCHANGED << asked, answered, interference >>
  BY DEF WebStateInserted
<1>2. /\ Typed(overlays) /\ overlays.context /\ ~overlays.failed
      /\ Consistent(overlays) /\ overlays.active \in Open \union {None}
  BY <1>1, SafeFacts
<1>3. /\ Typed(t) /\ t.context /\ t.active = w /\ t.queue = overlays.queue
      /\ Consistent(t)
  <2>1. w \in WebStates \union {None} /\ FALSE \in BOOLEAN
    OBVIOUS
  <2> QED
    BY <1>2, <2>1, SetActiveConsistent
<1> HIDE DEF t
<1>4. /\ Typed(overlays') /\ overlays'.context /\ Consistent(overlays')
      /\ overlays'.queue = overlays.queue
      /\ overlays'.active \in {overlays.active, w}
  BY <1>1, <1>2, <1>3
<1>5. /\ tabs' \in [WebStates -> {"new", "open", "gone"}]
      /\ Open' = Open \union {w}
  BY <1>1 DEF SafeInv, TypeOK, Open
<1>6. answered' \subseteq ToSet(asked)
  BY <1>1 DEF SafeInv, TypeOK
<1> QED
  BY <1>1, <1>2, <1>4, <1>5, <1>6, SameQueuesShrink, KeepsSafe

LEMMA ActivatedSafe ==
  ASSUME SafeInv, NEW w \in WebStates, WebStateActivated(w)
  PROVE  SafeInv'
<1> DEFINE t == SetActiveWebState(overlays, w, FALSE)
<1>1. /\ Running /\ w \in Open /\ overlays' = t
      /\ UNCHANGED << tabs, asked, answered, interference >>
  BY DEF WebStateActivated
<1>2. /\ Typed(overlays) /\ overlays.context /\ ~overlays.failed
      /\ Consistent(overlays)
  BY <1>1, SafeFacts
<1>3. /\ Typed(t) /\ t.context /\ t.active = w /\ t.queue = overlays.queue
      /\ Consistent(t)
  BY <1>2, SetActiveConsistent
<1> HIDE DEF t
<1>4. answered' \subseteq ToSet(asked)
  BY <1>1 DEF SafeInv, TypeOK
<1> QED
  BY <1>1, <1>3, <1>4, SameQueuesShrink, KeepsSafeWithTabs

(***************************************************************************)
(* A tab is detached and destroyed: another tab is active by then, or the  *)
(* UI of its front request is cancelled.                                   *)
(***************************************************************************)
LEMMA DetachedConsistent ==
  ASSUME SafeInv, Running, NEW w \in Open, NEW next \in WebStates \union {None},
         next # w,
         overlays' = Destroyed(
           IF w = overlays.active THEN SetActiveWebState(overlays, next, TRUE)
           ELSE CancelOverlayUI(overlays, FrontRequest(overlays, w)), w)
  PROVE  /\ Typed(overlays') /\ overlays'.context /\ Consistent(overlays')
         /\ Shrinks(overlays, overlays')
         /\ overlays'.active
            = IF w = overlays.active THEN next ELSE overlays.active
<1> DEFINE t == IF w = overlays.active
                THEN SetActiveWebState(overlays, next, TRUE)
                ELSE CancelOverlayUI(overlays, FrontRequest(overlays, w))
<1>1. /\ Typed(overlays) /\ overlays.context /\ ~overlays.failed
      /\ Consistent(overlays) /\ w \in WebStates
  BY SafeFacts DEF Open
<1>2. /\ Typed(t) /\ t.context /\ t.queue = overlays.queue /\ Consistent(t)
      /\ t.active = IF w = overlays.active THEN next ELSE overlays.active
  <2>1. CASE w = overlays.active
    <3>1. t = SetActiveWebState(overlays, next, TRUE)
      BY <2>1
    <3> HIDE DEF t
    <3> QED
      BY <1>1, <2>1, <3>1, SetActiveConsistent
  <2>2. CASE w # overlays.active
    <3>1. FrontRequest(overlays, w) \in Requests \union {None}
      BY <1>1, FrontType DEF Typed
    <3>2. t = CancelOverlayUI(overlays, FrontRequest(overlays, w))
      BY <2>2
    <3> HIDE DEF t
    <3>3. /\ Typed(t) /\ SameTabs(overlays, t) /\ t.queue = overlays.queue
          /\ Consistent(t)
      BY <1>1, <3>1, <3>2, CancelKeepsConsistent
    <3> QED
      BY <1>1, <2>2, <3>3 DEF SameTabs
  <2> QED
    BY <2>1, <2>2
<1> HIDE DEF t
<1>3. overlays' = Destroyed(t, w) /\ w # t.active
  BY <1>2 DEF t
<1>4. /\ Typed(overlays') /\ SameTabs(t, overlays') /\ Consistent(overlays')
      /\ Shrinks(t, overlays')
  BY <1>1, <1>2, <1>3, DestroyedConsistent
<1> QED
  BY <1>2, <1>4 DEF SameTabs, Shrinks

LEMMA ClosedSafe ==
  ASSUME SafeInv, NEW w \in WebStates, WebStateClosed(w)
  PROVE  SafeInv'
<1>1. /\ Running /\ w \in Open /\ tabs' = [tabs EXCEPT ![w] = "gone"]
      /\ UNCHANGED << asked, answered, interference >>
  BY DEF WebStateClosed
<1>2. \E next \in (Open \ {w}) \union {None} :
        overlays' = Destroyed(
          IF w = overlays.active THEN SetActiveWebState(overlays, next, TRUE)
          ELSE CancelOverlayUI(overlays, FrontRequest(overlays, w)), w)
  BY DEF WebStateClosed
<1>3. PICK next \in (Open \ {w}) \union {None} :
        overlays' = Destroyed(
          IF w = overlays.active THEN SetActiveWebState(overlays, next, TRUE)
          ELSE CancelOverlayUI(overlays, FrontRequest(overlays, w)), w)
  BY <1>2
<1>4. next \in WebStates \union {None} /\ next # w
  BY NoneAssumption DEF Open
<1>5. /\ Typed(overlays') /\ overlays'.context /\ Consistent(overlays')
      /\ Shrinks(overlays, overlays')
      /\ overlays'.active
         = IF w = overlays.active THEN next ELSE overlays.active
  BY <1>1, <1>3, <1>4, DetachedConsistent
<1>6. overlays.active \in Open \union {None}
  BY <1>1, SafeFacts
<1>7. /\ tabs' \in [WebStates -> {"new", "open", "gone"}]
      /\ Open' = Open \ {w}
  BY <1>1 DEF SafeInv, TypeOK, Open
<1>8. answered' \subseteq ToSet(asked)
  BY <1>1 DEF SafeInv, TypeOK
<1>9. overlays'.active \in Open' \union {None} /\ Open' \subseteq Open \union {w}
  BY <1>5, <1>6, <1>7
<1> QED
  BY <1>1, <1>5, <1>7, <1>8, <1>9, KeepsSafe

LEMMA ReplacedSafe ==
  ASSUME SafeInv, NEW w \in WebStates, NEW new \in WebStates,
         WebStateReplaced(w, new)
  PROVE  SafeInv'
<1>1. /\ Running /\ w \in Open /\ tabs[new] = "new"
      /\ tabs' = [tabs EXCEPT ![w] = "gone", ![new] = "open"]
      /\ UNCHANGED << asked, answered, interference >>
      /\ overlays' = Destroyed(
           IF w = overlays.active THEN SetActiveWebState(overlays, new, TRUE)
           ELSE CancelOverlayUI(overlays, FrontRequest(overlays, w)), w)
  BY DEF WebStateReplaced
<1>2. new # w
  BY <1>1 DEF Open
<1>3. /\ Typed(overlays') /\ overlays'.context /\ Consistent(overlays')
      /\ Shrinks(overlays, overlays')
      /\ overlays'.active
         = IF w = overlays.active THEN new ELSE overlays.active
  BY <1>1, <1>2, DetachedConsistent
<1>4. overlays.active \in Open \union {None}
  BY <1>1, SafeFacts
<1>5. /\ tabs' \in [WebStates -> {"new", "open", "gone"}]
      /\ Open' = (Open \ {w}) \union {new}
  BY <1>1, <1>2 DEF SafeInv, TypeOK, Open
<1>6. answered' \subseteq ToSet(asked)
  BY <1>1 DEF SafeInv, TypeOK
<1>7. overlays'.active \in Open' \union {None}
      /\ Open' \subseteq Open \union {new}
  BY <1>3, <1>4, <1>5
<1> QED
  BY <1>1, <1>3, <1>5, <1>6, <1>7, KeepsSafe

LEMMA CoordinatorSafe ==
  ASSUME SafeInv, Running, NEW on \in BOOLEAN,
         overlays' = UpdateForCoordinator(overlays, on),
         UNCHANGED << tabs, asked, answered, interference >>
  PROVE  SafeInv'
<1>1. /\ Typed(overlays) /\ overlays.context /\ ~overlays.failed
      /\ Consistent(overlays) /\ overlays.active \in Open \union {None}
  BY SafeFacts
<1>2. /\ Typed(overlays') /\ overlays'.context
      /\ overlays'.active = overlays.active
      /\ overlays'.queue = overlays.queue /\ Consistent(overlays')
  BY <1>1, CoordinatorConsistent
<1>3. answered' \subseteq ToSet(asked)
  BY DEF SafeInv, TypeOK
<1> QED
  BY <1>1, <1>2, <1>3, SameQueuesShrink, KeepsSafeWithTabs

(***************************************************************************)
(* The shutdown: the dialogs of all tabs are cancelled.                    *)
(***************************************************************************)
LEMMA ShutdownSafe ==
  ASSUME SafeInv, BrowserDestroyed
  PROVE  SafeInv'
<1> DEFINE s == CancelAllOverlayUI(overlays, SetToSeq(Open))
           b == WithoutContext(overlays)
<1>1. /\ Running /\ UNCHANGED << tabs, asked, answered, interference >>
      /\ overlays' = SetActiveWebState(b, None, FALSE)
  BY DEF BrowserDestroyed
<1>2. /\ Typed(overlays) /\ overlays.context /\ ~overlays.failed
      /\ Consistent(overlays) /\ overlays.active \in Open \union {None}
      /\ Open \in SUBSET WebStates /\ IsFiniteSet(Open)
  BY <1>1, SafeFacts DEF SafeInv, Open
<1>3. Typed(s) /\ s.queue = overlays.queue /\ NoneShown(s)
  BY <1>2, ShutdownShowsNothing
<1>4. b = [s EXCEPT !.context = FALSE, !.presenting = FALSE, !.presented = None]
  BY DEF WithoutContext
<1> HIDE DEF s, b
<1>5. /\ Typed(b) /\ ~b.context /\ b.queue = overlays.queue /\ NoneShown(b)
  BY <1>3, <1>4 DEF Typed, OverlayStates, NoneShown
<1>6. overlays' = [b EXCEPT !.active = None]
  BY <1>1, <1>5 DEF SetActiveWebState
<1>7. /\ Typed(overlays') /\ ~overlays'.context /\ NoneShown(overlays')
      /\ overlays'.queue = overlays.queue
  BY <1>5, <1>6 DEF Typed, OverlayStates, NoneShown
<1>8. Open' = Open
  BY <1>1 DEF Open
<1>9. TypeOK' /\ QueuedWereAsked' /\ IsFiniteSet(Open')
  BY <1>1, <1>7, <1>8 DEF SafeInv, TypeOK, Typed, QueuedWereAsked
<1> QED
  BY <1>7, <1>9 DEF SafeInv

LEMMA UnchangedSafe ==
  ASSUME SafeInv, UNCHANGED vars
  PROVE  SafeInv'
<1>1. Open' = Open
  BY DEF vars, Open
<1> QED
  BY <1>1 DEF vars, SafeInv, TypeOK, QueuedWereAsked

LEMMA NextSafe ==
  ASSUME SafeInv, [Next]_vars
  PROVE  SafeInv'
<1>1. ASSUME NEW w \in WebStates, NEW r \in Requests,
             NEW i \in 1 .. Len(overlays.queue[w]) + 1, InsertRequest(w, r, i)
      PROVE  SafeInv'
  BY <1>1, InsertSafe
<1>2. ASSUME NEW w \in WebStates, NEW r \in Requests, CancelRequest(w, r)
      PROVE  SafeInv'
  BY <1>2, CancelSafe
<1>3. ASSUME NEW w \in WebStates, DidFinishNavigation(w) PROVE SafeInv'
  BY <1>3, NavigationSafe
<1>4. ASSUME NEW w \in WebStates, CancelAllRequests(w) PROVE SafeInv'
  BY <1>4, CancelAllSafe
<1>5. ASSUME NEW w \in WebStates, NEW activating \in BOOLEAN,
             WebStateInserted(w, activating)
      PROVE  SafeInv'
  BY <1>5, InsertedTabSafe
<1>6. ASSUME NEW w \in WebStates, WebStateActivated(w) PROVE SafeInv'
  BY <1>6, ActivatedSafe
<1>7. ASSUME NEW w \in WebStates, WebStateClosed(w) PROVE SafeInv'
  BY <1>7, ClosedSafe
<1>8. ASSUME NEW w \in WebStates, NEW new \in WebStates,
             WebStateReplaced(w, new)
      PROVE  SafeInv'
  BY <1>8, ReplacedSafe
<1>9. ASSUME NEW r \in Requests, StopOverlayForMediator(r) PROVE SafeInv'
  BY <1>9, StopSafe
<1>10. ASSUME NEW r \in Requests, ContainedPresenterDidDismiss(r)
       PROVE  SafeInv'
  BY <1>10, DismissSafe
<1>11. CASE SetCoordinator
  <2>1. (~overlays.container) \in BOOLEAN
    BY DEF SafeInv, TypeOK, OverlayStates
  <2> QED
    BY <1>11, <2>1, CoordinatorSafe DEF SetCoordinator
<1>12. CASE WindowDidChange
  BY <1>12, CoordinatorSafe DEF WindowDidChange
<1>13. CASE BrowserDestroyed
  BY <1>13, ShutdownSafe
<1>14. CASE Ended \/ UNCHANGED vars
  BY <1>14, UnchangedSafe DEF Ended
<1> QED
  BY <1>1, <1>2, <1>3, <1>4, <1>5, <1>6, <1>7, <1>8, <1>9, <1>10, <1>11, <1>12,
     <1>13, <1>14 DEF Next

LEMMA Safe == Spec => []SafeInv
<1>1. SafeInv /\ [Next]_vars => SafeInv'
  BY NextSafe
<1> QED
  BY <1>1, InitSafe, PTL DEF Spec

(***************************************************************************)
(* The fields of presenter and context have their types in every           *)
(* behaviour, and presented_request_ is reset with presenting_.            *)
(***************************************************************************)
THEOREM TypeCorrect == Spec => []TypeOK
<1>1. SafeInv => TypeOK
  BY DEF SafeInv
<1> QED
  BY <1>1, Safe, PTL

(***************************************************************************)
(* Whatever interferes, and until a DCHECK fails, at most one dialog is on *)
(* screen, that of the active tab's front request: however tabs are        *)
(* switched, closed and replaced, and requests inserted and cancelled.     *)
(***************************************************************************)
THEOREM OneDialogOnScreen == Spec => []DialogIsOfActiveTab
<1>1. SafeInv => DialogIsOfActiveTab
  BY DEF SafeInv, DialogIsOfActiveTab, OnScreen, Consistent, ShownIsPresented,
         NoneShown
<1> QED
  BY <1>1, Safe, PTL

(***************************************************************************)
(* SetPresentationContext(nullptr) takes every dialog off the screen.      *)
(***************************************************************************)
THEOREM ShutdownLeavesNothing == Spec => []NothingShownAfterShutdown
<1>1. SafeInv => NothingShownAfterShutdown
  BY DEF SafeInv, NothingShownAfterShutdown, OnScreen, NoneShown
<1> QED
  BY <1>1, Safe, PTL


-----------------------------------------------------------------------------
(* While tabs and container wait for a dialog that animates out, the       *)
(* presenter has exactly the context's request presented, and every        *)
(* dismissal is one it expects.                                            *)

QuietUI(s, q) ==
  ~s.ui[q].callback /\ s.ui[q].coordinator \in {"none", "stopped"}

Quiet(s) == \A q \in Requests \ {s.request} : QuietUI(s, q)

\* The dismissal of the current request is one the presenter expects.
AwaitsDismissal(s) ==
  \/ s.presented = s.request
  \/ /\ s.presented = None
     /\ s.ui[s.request].reason = "cancellation"
     /\ s.ui[s.request].coordinator = "leaving"

\* The current request is in the container.
IsContained(s) ==
  /\ s.container /\ s.ui[s.request].callback
  /\ s.ui[s.request].coordinator \in {"started", "leaving"}

Steady(s) ==
  /\ ~s.failed /\ Quiet(s)
  /\ s.presenting <=> s.request # None
  /\ s.presenting => IsContained(s) /\ AwaitsDismissal(s)

Idle(s) ==
  /\ ~s.failed /\ ~s.presenting /\ s.request = None
  /\ \A q \in Requests : QuietUI(s, q)

LEMMA SteadyOfFields ==
  ASSUME NEW s, NEW t, Steady(s), t.presenting = s.presenting,
         t.presented = s.presented, t.request = s.request, t.ui = s.ui,
         t.failed = s.failed, t.container = s.container
  PROVE  Steady(t)
BY DEF Steady, Quiet, QuietUI, IsContained, AwaitsDismissal

LEMMA SteadyRequest ==
  ASSUME NEW s, Typed(s), Steady(s), s.presenting
  PROVE  s.request \in Requests /\ s.ui[s.request] # NoUI
BY DEF Steady, IsContained, Typed, OverlayStates, NoUI

LEMMA SteadyIdle ==
  ASSUME NEW s, Steady(s), ~s.presenting
  PROVE  Idle(s)
BY NoneAssumption DEF Steady, Quiet, Idle

LEMMA IdleSteady ==
  ASSUME NEW s, Idle(s)
  PROVE  Steady(s)
BY DEF Steady, Quiet, Idle

LEMMA PresentSteady ==
  ASSUME NEW s, Typed(s), Idle(s)
  PROVE  Steady(PresentOverlayForActiveRequest(s))
<1> DEFINE t == PresentOverlayForActiveRequest(s)
           a == GetActiveRequest(s)
<1>1. TriesToPresent(s, t)
  BY PresentEffect
<1> HIDE DEF t
<1>2. CASE Blocked(s)
  <2>1. t = s
    BY <1>1, <1>2 DEF TriesToPresent, Idle
  <2> QED
    BY <2>1, IdleSteady DEF t
<1>3. CASE ~Blocked(s)
  <2>1. /\ a \in Requests /\ s.container /\ SameTabs(s, t)
        /\ t.failed <=> (s.failed \/ s.ui[a].callback
                                  \/ (s.request # a /\ ~Settled(s)))
        /\ ~t.failed => Presents(s, t, a)
    BY <1>1, <1>3 DEF TriesToPresent, Idle, Blocked
  <2> HIDE DEF a
  <2>2. ~t.failed /\ Presents(s, t, a) /\ a # None
    BY <2>1, NoneAssumption DEF Idle, Settled, QuietUI
  <2>3. \A q \in Requests \ {a} : t.ui[q] = s.ui[q]
    BY <2>2, NoneAssumption DEF Presents, Idle
  <2>4. Quiet(t)
    BY <2>2, <2>3 DEF Presents, Quiet, QuietUI, Idle
  <2>5. t.request = a /\ t.presenting /\ IsContained(t) /\ AwaitsDismissal(t)
    BY <2>1, <2>2 DEF Presents, IsContained, AwaitsDismissal, Idle, SameTabs
  <2> QED
    BY <2>2, <2>4, <2>5 DEF Steady, t
<1> QED
  BY <1>2, <1>3

(***************************************************************************)
(* The end of a dismissal the presenter expects.                           *)
(***************************************************************************)
LEMMA FinishSteady ==
  ASSUME NEW s, ~s.failed, s.container, Quiet(s),
         NEW r \in Requests, s.request = r, NEW reason, Expected(s, r, reason),
         NEW t, Finishes(s, t, r, reason)
  PROVE  Steady(t) /\ Typed(t) /\ SameTabs(s, t)
<1>1. /\ Typed(t) /\ SameTabs(s, t)
      /\ NothingNext(t, r) => ShowsNone(s, t, r)
      /\ ~NothingNext(t, r) => ShowsNext(s, t, r)
  BY DEF Finishes
<1>2. OffScreen(s, t, r) => QuietUI(t, r)
  BY DEF OffScreen, QuietUI
<1>3. \A q \in Requests \ {r} : QuietUI(s, q)
  BY DEF Quiet
<1>4. CASE NothingNext(t, r)
  <2>1. ShowsNone(s, t, r)
    BY <1>1, <1>4
  <2>2. Idle(t)
    BY <1>2, <1>3, <2>1 DEF ShowsNone, Idle, QuietUI
  <2> QED
    BY <1>1, <2>2, IdleSteady
<1>5. CASE ~NothingNext(t, r)
  <2> DEFINE a == GetActiveRequest(t)
  <2>1. /\ a \in Requests \ {r} /\ t.container
        /\ t.failed <=> (s.failed \/ s.ui[a].callback)
        /\ ~t.failed =>
             /\ t.presenting /\ t.presented = a /\ t.request = a
             /\ t.ui[a].callback /\ t.ui[a].reason = "user"
             /\ t.ui[a].coordinator = "started"
             /\ OffScreen(s, t, r)
             /\ \A q \in Requests \ {r, a} : t.ui[q] = s.ui[q]
    BY <1>1, <1>5 DEF ShowsNext
  <2> HIDE DEF a
  <2>2. ~t.failed /\ a # None
    BY <1>3, <2>1, NoneAssumption DEF QuietUI
  <2>3. Quiet(t)
    BY <1>2, <1>3, <2>1, <2>2 DEF Quiet, QuietUI
  <2> QED
    BY <1>1, <2>1, <2>2, <2>3 DEF Steady, IsContained, AwaitsDismissal
<1> QED
  BY <1>4, <1>5

(***************************************************************************)
(* Hiding the presented request, and cancelling any.                       *)
(***************************************************************************)
LEMMA HideSteady ==
  ASSUME NEW s, Typed(s), s.context, ~s.failed, Quiet(s), IsContained(s),
         s.presenting, s.request \in Requests, s.presented = s.request
  PROVE  LET t == HideOverlayUI(s, s.request) IN
         Steady(t) /\ Typed(t) /\ SameTabs(s, t)
<1> DEFINE r == s.request
           t == HideOverlayUI(s, r)
           u == [s.ui[r] EXCEPT !.reason = "hiding"]
<1>1. Hides(s, t, r) /\ r # None /\ s.ui[r].callback /\ s.container
  BY HideEffect, NoneAssumption DEF IsContained
<1> HIDE DEF t
<1>2. CASE s.ui[r].coordinator = "started"
  <2>1. Finishes(s, t, r, "hiding") /\ Expected(s, r, "hiding")
    BY <1>1, <1>2 DEF Hides, Expected
  <2> QED
    BY <1>1, <2>1, FinishSteady DEF t
<1>3. CASE s.ui[r].coordinator # "started"
  <2>1. NewUI(s, t, r, u)
    BY <1>1, <1>3 DEF Hides
  <2>2. u.callback /\ u.coordinator = s.ui[r].coordinator
    BY <1>1 DEF Typed, OverlayStates, UIStates, NoUI
  <2> HIDE DEF u
  <2>3. Quiet(t) /\ IsContained(t) /\ AwaitsDismissal(t)
    BY <1>1, <2>1, <2>2 DEF NewUI, SamePresenter, SameTabs, Quiet, QuietUI,
                            IsContained, AwaitsDismissal
  <2> QED
    BY <1>1, <2>1, <2>3 DEF NewUI, SamePresenter, Steady, t
<1> QED
  BY <1>2, <1>3

LEMMA CancelSteady ==
  ASSUME NEW s, Typed(s), s.context, NEW r \in Requests \union {None},
         ~s.failed, Quiet(s), s.presenting <=> s.request # None,
         s.presenting => /\ IsContained(s)
                         /\ \/ AwaitsDismissal(s)
                            \/ r = s.request /\ s.presented = None
  PROVE  LET t == CancelOverlayUI(s, r) IN
         Steady(t) /\ Typed(t) /\ SameTabs(s, t)
<1> DEFINE t == CancelOverlayUI(s, r)
           u == [s.ui[r] EXCEPT !.reason = "cancellation"]
<1>0. /\ ~NoUI.callback /\ NoUI.coordinator = "none"
      /\ s.request \in Requests \union {None}
  BY DEF NoUI, Typed, OverlayStates
<1>1. CASE r = None \/ s.ui[r] = NoUI
  <2>1. t = s
    BY <1>1 DEF CancelOverlayUI, HasUI
  <2>2. s.presenting => AwaitsDismissal(s)
    BY <1>0, <1>1 DEF IsContained
  <2>3. Steady(s)
    BY <2>2 DEF Steady
  <2> QED
    BY <2>1, <2>3 DEF SameTabs
<1>2. CASE r \in Requests /\ s.ui[r] # NoUI /\ ~s.ui[r].callback
  <2>1. NewUI(s, t, r, NoUI)
    BY <1>2, CancelEffect DEF Cancels
  <2> HIDE DEF t
  <2>2. r # s.request
    BY <1>2, NoneAssumption DEF IsContained
  <2>3. s.presenting => IsContained(s) /\ AwaitsDismissal(s)
    BY <2>2
  <2>4. Quiet(t)
    BY <1>0, <2>1 DEF NewUI, Quiet, QuietUI
  <2>5. s.presenting => t.ui[s.request] = s.ui[s.request]
    BY <1>0, <2>1, <2>2 DEF NewUI
  <2>6. t.presenting => IsContained(t) /\ AwaitsDismissal(t)
    BY <2>1, <2>3, <2>5 DEF NewUI, SamePresenter, SameTabs, IsContained,
                            AwaitsDismissal
  <2> QED
    BY <2>1, <2>4, <2>6 DEF NewUI, SamePresenter, Steady, t
<1>3. CASE r \in Requests /\ s.ui[r].callback
  <2>1. r = s.request /\ r # None
    BY <1>3, NoneAssumption DEF Quiet, QuietUI
  <2>2. s.presenting /\ IsContained(s) /\ s.container
    BY <2>1 DEF IsContained
  <2>3. Cancels(s, t, r)
    BY <1>3, CancelEffect
  <2> HIDE DEF t
  <2>4. CASE s.ui[r].coordinator = "started"
    <3>1. Finishes(s, t, r, "cancellation")
      BY <1>3, <2>1, <2>2, <2>3, <2>4 DEF Cancels
    <3>2. Expected(s, r, "cancellation")
      BY <2>1, <2>2 DEF Expected, AwaitsDismissal
    <3> QED
      BY <1>3, <2>1, <2>2, <3>1, <3>2, FinishSteady DEF t
  <2>5. CASE s.ui[r].coordinator # "started"
    <3>1. NewUI(s, t, r, u)
      BY <1>3, <2>1, <2>2, <2>3, <2>5 DEF Cancels
    <3>2. /\ u.callback /\ u.coordinator = "leaving"
          /\ u.reason = "cancellation"
      BY <1>0, <1>3, <2>1, <2>2, <2>5
         DEF IsContained, Typed, OverlayStates, UIStates
    <3> HIDE DEF u
    <3>3. s.presented \in {r, None}
      BY <2>1, <2>2 DEF AwaitsDismissal
    <3>4. Quiet(t) /\ IsContained(t) /\ AwaitsDismissal(t)
      BY <2>1, <2>2, <3>1, <3>2, <3>3
         DEF NewUI, SamePresenter, SameTabs, Quiet, QuietUI, IsContained,
             AwaitsDismissal
    <3> QED
      BY <2>1, <2>2, <3>1, <3>4 DEF NewUI, SamePresenter, Steady, t
  <2> QED
    BY <2>4, <2>5
<1> QED
  BY <1>1, <1>2, <1>3


LEMMA QueuedCancelSteady ==
  ASSUME NEW s, Typed(s), s.context, NEW r \in Requests, Steady(s)
  PROVE  LET t == QueuedRequestCancelled(s, r) IN
         Steady(t) /\ Typed(t) /\ SameTabs(s, t)
<1> DEFINE b == IF s.presented = r THEN [s EXCEPT !.presented = None] ELSE s
           t == CancelOverlayUI(b, r)
<1>1. /\ Typed(b) /\ SameTabs(s, b)
      /\ b.presenting = s.presenting /\ b.request = s.request /\ b.ui = s.ui
      /\ b.failed = s.failed
      /\ b.presented = IF s.presented = r THEN None ELSE s.presented
  BY DEF Typed, OverlayStates, SameTabs
<1>2. QueuedRequestCancelled(s, r) = t
  BY DEF QueuedRequestCancelled
<1> HIDE DEF b
<1>3. /\ ~b.failed /\ Quiet(b) /\ b.context
      /\ b.presenting <=> b.request # None
  BY <1>1 DEF Steady, Quiet, QuietUI, SameTabs
<1>4. ASSUME b.presenting
      PROVE  /\ IsContained(b)
             /\ \/ AwaitsDismissal(b)
                \/ r = b.request /\ b.presented = None
  <2>1. IsContained(s) /\ AwaitsDismissal(s)
    BY <1>1, <1>4 DEF Steady
  <2>2. IsContained(b)
    BY <1>1, <2>1 DEF IsContained, SameTabs
  <2>3. CASE s.presented = r
    <3>1. r # None
      BY NoneAssumption
    <3> QED
      BY <1>1, <2>1, <2>2, <2>3, <3>1 DEF AwaitsDismissal
  <2>4. CASE s.presented # r
    BY <1>1, <2>1, <2>2, <2>4 DEF AwaitsDismissal
  <2> QED
    BY <2>3, <2>4
<1> HIDE DEF t
<1>5. Steady(t) /\ Typed(t) /\ SameTabs(b, t)
  BY <1>1, <1>3, <1>4, CancelSteady DEF t
<1> QED
  BY <1>1, <1>2, <1>5 DEF SameTabs

LEMMA CancelledInSteady ==
  ASSUME NEW s, Typed(s), s.context, Steady(s), NEW w \in WebStates,
         NEW r \in Requests
  PROVE  LET t == CancelledIn(w, s, r) IN
         Steady(t) /\ Typed(t) /\ SameTabs(s, t)
<1> DEFINE told == IF Observed(w) THEN QueuedRequestCancelled(s, r) ELSE s
           d == Dequeued(w, told, r)
<1>1. Steady(told) /\ Typed(told) /\ SameTabs(s, told)
  BY QueuedCancelSteady DEF SameTabs
<1>2. CASE r \notin ToSet(s.queue[w])
  <2>1. CancelledIn(w, s, r) = s
    BY <1>2 DEF CancelledIn
  <2> QED
    BY <2>1 DEF SameTabs
<1>3. CASE r \in ToSet(s.queue[w])
  <2>1. CancelledIn(w, s, r) = d
    BY <1>3 DEF CancelledIn, Dequeued
  <2>2. told.queue = s.queue
    <3>1. CASE Observed(w)
      <4>1. told = CancelOverlayUI(
                     IF s.presented = r THEN [s EXCEPT !.presented = None]
                     ELSE s, r)
        BY <3>1 DEF QueuedRequestCancelled
      <4> DEFINE b == IF s.presented = r THEN [s EXCEPT !.presented = None]
                      ELSE s
      <4>2. Typed(b) /\ b.queue = s.queue /\ b.context
        BY DEF Typed, OverlayStates
      <4> HIDE DEF b
      <4>3. CancelOverlayUI(b, r).queue = b.queue
        BY <4>2, CancelEffect DEF Cancels
      <4> QED
        BY <4>1, <4>2, <4>3 DEF b
    <3>2. CASE ~Observed(w)
      BY <3>2
    <3> QED
      BY <3>1, <3>2
  <2> HIDE DEF told
  <2>3. /\ Typed(d) /\ SameTabs(told, d)
        /\ d.presenting = told.presenting /\ d.presented = told.presented
        /\ d.request = told.request /\ d.ui = told.ui /\ d.failed = told.failed
    BY <1>1, <1>3, <2>2, DequeuedEffect
  <2> HIDE DEF d
  <2>4. Steady(d)
    BY <1>1, <2>3, SteadyOfFields DEF SameTabs
  <2> QED
    BY <1>1, <2>1, <2>3, <2>4 DEF SameTabs
<1> QED
  BY <1>2, <1>3

LEMMA CancelledAllSteady ==
  ASSUME NEW s, Typed(s), s.context, Steady(s), NEW w \in WebStates,
         NEW rs \in Seq(Requests)
  PROVE  Steady(CancelledAll(w, s, rs)) /\ SameTabs(s, CancelledAll(w, s, rs))
<1> DEFINE G == {t \in OverlayStates :
                   Typed(t) /\ SameTabs(s, t) /\ Steady(t)}
<1>1. s \in G
  BY DEF Typed, SameTabs
<1>2. ASSUME NEW t \in G, NEW r \in Requests
      PROVE  CancelledIn(w, t, r) \in G
  <2>1. Typed(t) /\ SameTabs(s, t) /\ Steady(t)
    OBVIOUS
  <2> DEFINE c == CancelledIn(w, t, r)
  <2>2. Typed(c) /\ SameTabs(t, c) /\ Steady(c)
    BY <2>1, CancelledInSteady DEF SameTabs
  <2> HIDE DEF c
  <2>3. SameTabs(s, c) /\ c \in OverlayStates
    BY <2>1, <2>2 DEF SameTabs, Typed
  <2> QED
    BY <2>2, <2>3 DEF c
<1> HIDE DEF G
<1>3. CancelledAll(w, s, rs) \in G
  BY <1>1, <1>2, CancelledAllKeeps
<1> QED
  BY <1>3 DEF G

(***************************************************************************)
(* The presenter's shutdown fails no assertion either.                     *)
(***************************************************************************)
LEMMA ShutdownSteady ==
  ASSUME NEW s, Typed(s), s.context, Steady(s),
         NEW S \in SUBSET WebStates, IsFiniteSet(S)
  PROVE  ~CancelAllOverlayUI(s, SetToSeq(S)).failed
<1> DEFINE ws == SetToSeq(S)
           n == Cardinality(S)
<1>1. /\ ws \in [1 .. n -> S] /\ n \in Nat /\ Len(ws) = n
  BY SetToSeqElements
<1> HIDE DEF ws, n
<1>2. PICK after : /\ ShutdownSteps(s, ws, after)
                   /\ CancelAllOverlayUI(s, ws) = after[n]
  BY <1>1, CancelAllSteps
<1> DEFINE Good(k) == Typed(after[k]) /\ SameTabs(s, after[k]) /\ Steady(after[k])
           Bad == {k \in 0 .. n : ~Good(k)}
<1>3. Good(0)
  BY <1>2 DEF ShutdownSteps, SameTabs
<1>4. ASSUME NEW k \in 1 .. n, Good(k - 1) PROVE Good(k)
  <2> DEFINE b == after[k - 1]
             w == ws[k]
  <2>1. /\ after[k] = CancelOverlayUI(b, FrontRequest(b, w))
        /\ w \in WebStates /\ Typed(b) /\ SameTabs(s, b) /\ Steady(b)
    BY <1>1, <1>2, <1>4 DEF ShutdownSteps, CancelFront
  <2> HIDE DEF b, w
  <2>2. b.context /\ FrontRequest(b, w) \in Requests \union {None}
    BY <2>1, FrontType DEF SameTabs, Typed
  <2>3. Typed(after[k]) /\ SameTabs(b, after[k]) /\ Steady(after[k])
    BY <2>1, <2>2, CancelSteady DEF Steady
  <2> QED
    BY <2>1, <2>3 DEF SameTabs
<1>5. Bad = {}
  <2> SUFFICES ASSUME Bad # {} PROVE FALSE
    OBVIOUS
  <2>1. Bad \in SUBSET Nat
    BY <1>1
  <2> HIDE DEF Bad
  <2>2. PICK m \in Bad : \A x \in Bad : m <= x
    BY <2>1, NatHasLeast
  <2> USE DEF Bad
  <2> HIDE DEF Good
  <2>3. m \in 0 .. n /\ ~Good(m) /\ m # 0
    BY <1>3, <2>2
  <2>4. m \in 1 .. n /\ m - 1 \in 0 .. n /\ ~(m <= m - 1)
    BY <1>1, <2>3
  <2>5. Good(m - 1)
    BY <2>2, <2>4
  <2> QED
    BY <1>4, <2>3, <2>4, <2>5
<1>6. Good(n)
  BY <1>1, <1>5
<1> QED
  BY <1>2, <1>6 DEF Steady, ws


NoneLeaving(s) == \A r \in Requests : s.ui[r].coordinator # "leaving"

LEMMA PresentedIsActive ==
  ASSUME NEW s, Typed(s), Steady(s), Consistent(s), s.presenting, NoneLeaving(s)
  PROVE  /\ s.request \in Requests /\ IsContained(s) /\ Quiet(s) /\ ~s.failed
         /\ s.request = GetActiveRequest(s) /\ s.presented = s.request
<1>1. s.request \in Requests
  BY SteadyRequest
<1>2. IsContained(s) /\ Quiet(s) /\ ~s.failed
  BY DEF Steady
<1>3. s.ui[s.request].coordinator = "started"
  BY <1>1, <1>2 DEF IsContained, NoneLeaving
<1> QED
  BY <1>1, <1>2, <1>3 DEF Consistent, ShownIsPresented

LEMMA SetActiveSteady ==
  ASSUME NEW s, Typed(s), s.context, Steady(s), Consistent(s), NoneLeaving(s),
         NEW w \in WebStates \union {None}, NEW cancel \in BOOLEAN
  PROVE  Steady(SetActiveWebState(s, w, cancel))
<1> DEFINE b == [s EXCEPT !.active = w]
           p == GetActiveRequest(s)
           t == SetActiveWebState(s, w, cancel)
<1>1. /\ Typed(b) /\ b.context /\ b.container = s.container
      /\ b.presenting = s.presenting
      /\ b.presented = s.presented /\ b.request = s.request
      /\ b.ui = s.ui /\ b.failed = s.failed
  BY DEF Typed, OverlayStates
<1>2. t = IF s.active = w THEN b
          ELSE IF ~s.presenting THEN PresentOverlayForActiveRequest(b)
          ELSE IF p = None THEN Fail(b)
          ELSE IF cancel THEN CancelOverlayUI(b, p)
          ELSE HideOverlayUI(b, p)
  BY DEF SetActiveWebState
<1> HIDE DEF b, t, p
<1>3. Steady(b)
  BY <1>1, SteadyOfFields
<1>4. CASE s.active = w
  BY <1>2, <1>3, <1>4 DEF t
<1>5. CASE s.active # w /\ ~s.presenting
  BY <1>1, <1>2, <1>3, <1>5, SteadyIdle, PresentSteady DEF t
<1>6. CASE s.active # w /\ s.presenting
  <2>1. /\ s.request \in Requests /\ s.request = p /\ s.presented = p
        /\ p # None
    BY <1>6, PresentedIsActive, NoneAssumption DEF p
  <2>2. /\ ~b.failed /\ Quiet(b) /\ IsContained(b) /\ AwaitsDismissal(b)
        /\ b.presenting /\ b.presenting <=> b.request # None
    BY <1>1, <1>3, <1>6 DEF Steady
  <2>3. CASE cancel
    BY <1>1, <1>2, <1>6, <2>1, <2>2, <2>3, CancelSteady DEF t
  <2>4. CASE ~cancel
    BY <1>1, <1>2, <1>6, <2>1, <2>2, <2>4, HideSteady DEF t
  <2> QED
    BY <2>3, <2>4
<1> QED
  BY <1>4, <1>5, <1>6

LEMMA InsertSteady ==
  ASSUME NEW o, Typed(o), o.context, Steady(o),
         NEW w \in WebStates, NEW r \in Requests,
         NEW i \in 1 .. Len(o.queue[w]) + 1
  PROVE  LET s == Inserted(o, w, r, i) IN
         Steady(s) /\ Steady(RequestAddedToQueue(s, w, r))
<1> DEFINE s == Inserted(o, w, r, i)
           t == RequestAddedToQueue(s, w, r)
           inserted == /\ s.presented # None /\ Len(s.queue[w]) > 1
                       /\ s.queue[w][2] = s.presented
<1>1. /\ Typed(s) /\ SameTabs(o, s)
      /\ s.presenting = o.presenting /\ s.presented = o.presented
      /\ s.request = o.request /\ s.ui = o.ui /\ s.failed = o.failed
  BY InsertedEffect
<1>2. t = IF r # GetActiveRequest(s) THEN s
          ELSE IF ~s.presenting THEN PresentOverlayForActiveRequest(s)
          ELSE IF inserted THEN HideOverlayUI(s, s.presented)
          ELSE s
  BY DEF RequestAddedToQueue
<1> HIDE DEF s, t
<1>3. Steady(s)
  BY <1>1, SteadyOfFields DEF SameTabs
<1>4. CASE r # GetActiveRequest(s) \/ (s.presenting /\ ~inserted)
  BY <1>2, <1>3, <1>4 DEF s, t
<1>5. CASE r = GetActiveRequest(s) /\ ~s.presenting
  <2>1. Steady(t)
    BY <1>1, <1>2, <1>3, <1>5, SteadyIdle, PresentSteady
  <2> QED
    BY <1>3, <2>1 DEF s, t
<1>6. CASE r = GetActiveRequest(s) /\ s.presenting /\ inserted
  <2>1. /\ s.request \in Requests /\ s.presented = s.request
        /\ ~s.failed /\ Quiet(s) /\ IsContained(s) /\ s.context
    BY <1>1, <1>3, <1>6, SteadyRequest DEF Steady, AwaitsDismissal, SameTabs
  <2>2. Steady(t)
    BY <1>1, <1>2, <1>6, <2>1, HideSteady
  <2> QED
    BY <1>3, <2>2 DEF s, t
<1> QED
  BY <1>4, <1>5, <1>6

LEMMA CoordinatorSteady ==
  ASSUME NEW s, Typed(s), s.context, Steady(s), Consistent(s), NoneLeaving(s),
         NEW on \in BOOLEAN
  PROVE  Steady(UpdateForCoordinator(s, on))
<1> DEFINE t == UpdateForCoordinator(s, on)
           r == GetActiveRequest(s)
           will == IF ~s.presenting THEN s
                   ELSE IF r = None THEN Fail(s)
                   ELSE IF on THEN s
                   ELSE HideOverlayUI(s, r)
           c == Contained(will, on)
<1>1. t = IF c.presenting THEN c ELSE PresentOverlayForActiveRequest(c)
  BY DEF UpdateForCoordinator, Contained
<1>2. /\ Typed(will) /\ Steady(will)
      /\ will.presenting => on
  <2>1. CASE ~s.presenting
    BY <2>1
  <2>2. CASE s.presenting
    <3>1. /\ s.request \in Requests /\ IsContained(s) /\ Quiet(s) /\ ~s.failed
          /\ s.request = r /\ s.presented = s.request /\ r # None
      BY <2>2, PresentedIsActive, NoneAssumption
    <3>2. CASE on
      <4>1. will = s
        BY <2>2, <3>1, <3>2
      <4> QED
        BY <3>2, <4>1
    <3>3. CASE ~on
      <4>1. will = HideOverlayUI(s, r)
        BY <2>2, <3>1, <3>3
      <4> HIDE DEF will, r
      <4>2. Steady(will) /\ Typed(will)
        BY <2>2, <3>1, <4>1, HideSteady
      <4>3. Finishes(s, will, r, "hiding")
        <5>1. s.ui[r].coordinator = "started"
          BY <3>1 DEF IsContained, NoneLeaving
        <5> QED
          BY <3>1, <4>1, <5>1, HideEffect DEF Hides, IsContained
      <4>4. Expected(s, r, "hiding")
        BY <3>1 DEF Expected
      <4>5. GetActiveRequest(will) = r
        <5>1. will.queue = s.queue /\ will.active = s.active
          BY <4>3, <4>4 DEF Finishes, QueueAfter, SameTabs
        <5> QED
          BY <5>1, SameFront DEF r
      <4>6. ~will.presenting
        BY <4>3, <4>4, <4>5 DEF Finishes, NothingNext, ShowsNone
      <4> QED
        BY <4>2, <4>6
    <3> QED
      BY <3>2, <3>3
  <2> QED
    BY <2>1, <2>2
<1> HIDE DEF will, t, r
<1>3. /\ Typed(c) /\ c.container = on
      /\ c.presenting = will.presenting
      /\ c.presented = will.presented /\ c.request = will.request
      /\ c.ui = will.ui /\ c.failed = will.failed
  BY <1>2, ContainedEffect
<1> HIDE DEF c
<1>4. Steady(c)
  BY <1>2, <1>3 DEF Steady, Quiet, QuietUI, IsContained, AwaitsDismissal
<1>5. CASE c.presenting
  BY <1>1, <1>4, <1>5 DEF t
<1>6. CASE ~c.presenting
  BY <1>1, <1>3, <1>4, <1>6, SteadyIdle, PresentSteady DEF t
<1> QED
  BY <1>5, <1>6

LEMMA AnsweredSteady ==
  ASSUME NEW s, Typed(s), Steady(s), Consistent(s), NEW r \in Requests,
         s.ui[r].coordinator = "started"
  PROVE  Steady([s EXCEPT !.ui[r].coordinator = "leaving"])
<1> DEFINE t == [s EXCEPT !.ui[r].coordinator = "leaving"]
           u == [s.ui[r] EXCEPT !.coordinator = "leaving"]
<1>1. s.ui[r] # NoUI
  BY DEF NoUI
<1>2. NewUI(s, t, r, u)
  BY <1>1, CoordinatorEffect
<1>3. u.coordinator = "leaving" /\ u.callback = s.ui[r].callback
  BY <1>1 DEF Typed, OverlayStates, UIStates
<1> HIDE DEF t, u
<1>4. r = s.request /\ r = s.presented /\ s.presenting
  BY DEF Consistent, Current, ShownIsCurrent, ShownIsPresented, Steady
<1>5. Quiet(t) /\ IsContained(t) /\ AwaitsDismissal(t)
  BY <1>2, <1>3, <1>4
     DEF Steady, NewUI, SamePresenter, SameTabs, Quiet, QuietUI, IsContained,
         AwaitsDismissal
<1> QED
  BY <1>2, <1>4, <1>5 DEF Steady, NewUI, SamePresenter, t

LEMMA LeavingIsPresented ==
  ASSUME NEW s, Typed(s), Steady(s), NEW r \in Requests,
         s.ui[r].coordinator = "leaving"
  PROVE  /\ r = s.request /\ s.presenting /\ IsContained(s)
         /\ Expected(s, r, s.ui[r].reason)
<1>1. r = s.request
  BY DEF Steady, Quiet, QuietUI
<1>2. s.presenting /\ IsContained(s) /\ AwaitsDismissal(s) /\ r # None
  BY <1>1, NoneAssumption DEF Steady
<1> QED
  BY <1>1, <1>2 DEF Expected, AwaitsDismissal

LEMMA EndSteady ==
  ASSUME NEW s, Typed(s), s.context, Steady(s), NEW r \in Requests,
         s.ui[r].coordinator = "leaving"
  PROVE  Steady(OverlayUIDidFinishDismissal(s, r))
<1> DEFINE t == OverlayUIDidFinishDismissal(s, r)
<1>1. /\ r = s.request /\ IsContained(s) /\ Expected(s, r, s.ui[r].reason)
  BY LeavingIsPresented
<1>2. s.ui[r] # NoUI
  BY DEF NoUI
<1>3. Finishes(s, t, r, s.ui[r].reason)
  BY <1>1, <1>2, FinishEffect DEF IsContained
<1> HIDE DEF t
<1> QED
  BY <1>1, <1>3, FinishSteady DEF t, IsContained, Steady


(***************************************************************************)
(* Nothing but insertions and cancellations of single requests interferes. *)
(***************************************************************************)
SteadyInv ==
  interference \subseteq {"insert", "cancel"} =>
    ~overlays.failed /\ (overlays.context => Steady(overlays))

LEMMA InitSteady == Init => SteadyInv
BY NoneAssumption DEF Init, SteadyInv, Steady, Quiet, QuietUI, NoUI

LEMMA NextSteady ==
  ASSUME SafeInv, SteadyInv, [Next]_vars
  PROVE  SteadyInv'
<1>1. interference' = interference
  BY DEF Next, vars, InsertRequest, CancelRequest, DidFinishNavigation,
         CancelAllRequests, WebStateInserted, WebStateActivated,
         WebStateClosed, WebStateReplaced, StopOverlayForMediator,
         ContainedPresenterDidDismiss, SetCoordinator, WindowDidChange,
         BrowserDestroyed, Ended
<1> SUFFICES ASSUME interference \subseteq {"insert", "cancel"}
             PROVE  ~overlays'.failed /\ (overlays'.context => Steady(overlays'))
  BY <1>1 DEF SteadyInv
<1>2. CASE overlays' = overlays
  BY <1>2 DEF SteadyInv
<1>3. ASSUME Steady(overlays')
      PROVE  ~overlays'.failed /\ (overlays'.context => Steady(overlays'))
  BY <1>3 DEF Steady
<1> SUFFICES ASSUME Running PROVE Steady(overlays') \/ BrowserDestroyed \/ overlays' = overlays
  <2>1. CASE Running /\ BrowserDestroyed
    <3> DEFINE s == CancelAllOverlayUI(overlays, SetToSeq(Open))
               b == WithoutContext(overlays)
    <3>1. /\ Typed(overlays) /\ overlays.context /\ ~overlays.failed
          /\ Consistent(overlays) /\ overlays.active \in Open \union {None}
          /\ Open \in SUBSET WebStates /\ IsFiniteSet(Open)
          /\ Steady(overlays)
      BY <2>1, SafeFacts DEF SafeInv, SteadyInv, Open
    <3>2. ~s.failed
      BY <3>1, ShutdownSteady
    <3>3. Typed(s)
      BY <3>1, ShutdownShowsNothing
    <3>4. b = [s EXCEPT !.context = FALSE, !.presenting = FALSE,
                        !.presented = None]
      BY DEF WithoutContext
    <3> HIDE DEF s, b
    <3>5. Typed(b) /\ ~b.context /\ ~b.failed
      BY <3>2, <3>3, <3>4 DEF Typed, OverlayStates
    <3>6. overlays' = [b EXCEPT !.active = None]
      BY <2>1, <3>5 DEF BrowserDestroyed, SetActiveWebState, b
    <3>7. ~overlays'.failed /\ ~overlays'.context
      BY <3>5, <3>6 DEF Typed, OverlayStates
    <3> QED
      BY <3>7
  <2>2. CASE ~Running
    <3>1. overlays' = overlays
      BY <2>2 DEF Next, vars, InsertRequest, CancelRequest, DidFinishNavigation,
         CancelAllRequests, WebStateInserted, WebStateActivated,
         WebStateClosed, WebStateReplaced, StopOverlayForMediator,
         ContainedPresenterDidDismiss, SetCoordinator, WindowDidChange,
         BrowserDestroyed, Ended
    <3> QED
      BY <1>2, <3>1
  <2> QED
    BY <1>2, <1>3, <2>1, <2>2
<1> DEFINE s == overlays
<1>4. /\ Typed(s) /\ s.context /\ ~s.failed /\ Consistent(s) /\ Steady(s)
      /\ s.active \in WebStates \union {None}
  BY SafeFacts DEF SteadyInv, Open
<1>5. /\ Allowed("switch") => NoneLeaving(s)
      /\ Allowed("container") => NoneLeaving(s)
  BY DEF Allowed, Leaving, NoneLeaving
<1>6. ASSUME NEW w \in WebStates, NEW r \in Requests,
             NEW i \in 1 .. Len(s.queue[w]) + 1, InsertRequest(w, r, i)
      PROVE  Steady(overlays')
  <2>1. overlays' = IF Observed(w)
                    THEN RequestAddedToQueue(Inserted(s, w, r, i), w, r)
                    ELSE Inserted(s, w, r, i)
    BY <1>6 DEF InsertRequest, Inserted
  <2> QED
    BY <1>4, <2>1, InsertSteady
<1>7. ASSUME NEW w \in WebStates, NEW r \in Requests, CancelRequest(w, r)
      PROVE  Steady(overlays')
  BY <1>4, <1>7, CancelledInSteady DEF CancelRequest
<1>8. ASSUME NEW w \in WebStates, DidFinishNavigation(w) \/ CancelAllRequests(w)
      PROVE  Steady(overlays')
  <2>1. PICK rs \in Seq(Requests) : overlays' = CancelledAll(w, s, rs)
    <3>1. asked \in Seq(Requests) /\ s.queue[w] \in Seq(Requests)
      BY <1>4 DEF SafeInv, TypeOK, Typed, OverlayStates
    <3>2. Reverse(s.queue[w]) \in Seq(Requests)
      BY <3>1, ReverseType
    <3> QED
      BY <1>8, <3>1, <3>2 DEF DidFinishNavigation, CancelAllRequests
  <2> QED
    BY <1>4, <2>1, CancelledAllSteady
<1>9. ASSUME NEW w \in WebStates, NEW activating \in BOOLEAN,
             WebStateInserted(w, activating)
      PROVE  Steady(overlays')
  <2>1. CASE activating
    <3>1. overlays' = SetActiveWebState(s, w, FALSE) /\ Allowed("switch")
      BY <1>9, <2>1 DEF WebStateInserted
    <3> QED
      BY <1>4, <1>5, <3>1, SetActiveSteady
  <2>2. CASE ~activating
    BY <1>4, <1>9, <2>2 DEF WebStateInserted
  <2> QED
    BY <2>1, <2>2
<1>10. ASSUME NEW w \in WebStates, WebStateActivated(w)
       PROVE  Steady(overlays')
  <2>1. overlays' = SetActiveWebState(s, w, FALSE) /\ Allowed("switch")
    BY <1>10 DEF WebStateActivated
  <2> QED
    BY <1>4, <1>5, <2>1, SetActiveSteady
<1>11. ASSUME NEW w \in WebStates, NEW next \in WebStates \union {None},
              \/ /\ overlays' = Destroyed(SetActiveWebState(s, next, TRUE), w)
                 /\ Allowed("switch")
              \/ overlays' = Destroyed(
                               CancelOverlayUI(s, FrontRequest(s, w)), w)
       PROVE  Steady(overlays')
  <2>1. PICK t : Typed(t) /\ Steady(t) /\ overlays' = Destroyed(t, w)
    <3>1. CASE /\ overlays' = Destroyed(SetActiveWebState(s, next, TRUE), w)
               /\ Allowed("switch")
      <4>1. Steady(SetActiveWebState(s, next, TRUE))
        BY <1>4, <1>5, <3>1, SetActiveSteady
      <4>2. Typed(SetActiveWebState(s, next, TRUE))
        BY <1>4, SetActiveConsistent
      <4> QED
        BY <3>1, <4>1, <4>2
    <3>2. CASE overlays' = Destroyed(CancelOverlayUI(s, FrontRequest(s, w)), w)
      <4>1. FrontRequest(s, w) \in Requests \union {None}
        BY <1>4, FrontType DEF Typed
      <4>2. /\ Steady(CancelOverlayUI(s, FrontRequest(s, w)))
            /\ Typed(CancelOverlayUI(s, FrontRequest(s, w)))
        BY <1>4, <4>1, CancelSteady DEF Steady
      <4> QED
        BY <3>2, <4>2
    <3> QED
      BY <1>11, <3>1, <3>2
  <2>2. /\ SameTabs(t, overlays')
        /\ overlays'.presenting = t.presenting
        /\ overlays'.presented = t.presented
        /\ overlays'.request = t.request /\ overlays'.ui = t.ui
        /\ overlays'.failed = t.failed
    BY <2>1, DestroyedEffect
  <2> QED
    BY <2>1, <2>2, SteadyOfFields DEF SameTabs
<1>12. ASSUME NEW w \in WebStates, WebStateClosed(w) PROVE Steady(overlays')
  <2>1. \E next \in WebStates \union {None} :
          \/ /\ overlays' = Destroyed(SetActiveWebState(s, next, TRUE), w)
             /\ Allowed("switch")
          \/ overlays' = Destroyed(CancelOverlayUI(s, FrontRequest(s, w)), w)
    BY <1>12 DEF WebStateClosed, Open
  <2> QED
    BY <1>11, <2>1
<1>13. ASSUME NEW w \in WebStates, NEW new \in WebStates,
              WebStateReplaced(w, new)
       PROVE  Steady(overlays')
  <2>1. \/ /\ overlays' = Destroyed(SetActiveWebState(s, new, TRUE), w)
           /\ Allowed("switch")
        \/ overlays' = Destroyed(CancelOverlayUI(s, FrontRequest(s, w)), w)
    BY <1>13 DEF WebStateReplaced
  <2> QED
    BY <1>11, <2>1
<1>14. ASSUME NEW r \in Requests, StopOverlayForMediator(r)
       PROVE  Steady(overlays')
  BY <1>4, <1>14, AnsweredSteady DEF StopOverlayForMediator
<1>15. ASSUME NEW r \in Requests, ContainedPresenterDidDismiss(r)
       PROVE  Steady(overlays')
  BY <1>4, <1>15, EndSteady DEF ContainedPresenterDidDismiss, Leaving
<1>16. CASE SetCoordinator \/ WindowDidChange
  <2>1. PICK on \in BOOLEAN :
          overlays' = UpdateForCoordinator(s, on) /\ Allowed("container")
    <3>1. (~s.container) \in BOOLEAN
      BY <1>4 DEF Typed, OverlayStates
    <3> QED
      BY <1>16, <3>1 DEF SetCoordinator, WindowDidChange
  <2> QED
    BY <1>4, <1>5, <2>1, CoordinatorSteady
<1>17. CASE Ended \/ UNCHANGED vars
  BY <1>17 DEF Ended, vars
<1> HIDE DEF s
<1> QED
  BY <1>6, <1>7, <1>8, <1>9, <1>10, <1>12, <1>13, <1>14, <1>15, <1>16, <1>17
     DEF Next, s

(***************************************************************************)
(* No DCHECK of presenter, context and UI states fails, whatever requests  *)
(* are inserted and cancelled and whichever tabs come and go, as long as   *)
(* tabs and container wait for a dialog that animates out.                 *)
(***************************************************************************)
THEOREM AssertionsHold == Spec => []NoAssertionFails
<1>1. Init => SafeInv /\ SteadyInv
  BY InitSafe, InitSteady
<1>2. SafeInv /\ SteadyInv /\ [Next]_vars => (SafeInv /\ SteadyInv)'
  BY NextSafe, NextSteady
<1>3. SafeInv /\ SteadyInv => NoAssertionFails
  BY DEF SteadyInv, NoAssertionFails
<1> QED
  BY <1>1, <1>2, <1>3, PTL DEF Spec


-----------------------------------------------------------------------------
(* When nothing interferes, requests are served in turn: an idle presenter *)
(* with a container has nothing to present, and an answered request is     *)
(* queued only until its dialog has gone.                                  *)

Queued(s, r) == \E w \in WebStates : r \in ToSet(s.queue[w])

QueuedOnce(s) ==
  /\ \A w \in WebStates : IsInjective(s.queue[w])
  /\ \A w, v \in WebStates :
       w # v => ToSet(s.queue[w]) \intersect ToSet(s.queue[v]) = {}

NothingForgotten(s) ==
  s.container /\ ~s.presenting => GetActiveRequest(s) = None

\* The current request is in front while it is queued, so that the end of its
\* dialog takes it out of the queue.
InLine(s) ==
  \A r \in Requests : Queued(s, r) /\ r = s.request =>
    r = GetActiveRequest(s) /\ s.ui[r].reason = "user"

\* The answered requests: only the current one is still queued.
Answered(s, ans) ==
  \A r \in ans :
    s.ui[r].coordinator # "started" /\ (Queued(s, r) => r = s.request)

Lined(s, ans) == QueuedOnce(s) /\ InLine(s) /\ Answered(s, ans)

Served(s, ans) == Lined(s, ans) /\ NothingForgotten(s)

LEMMA ServedOfFields ==
  ASSUME NEW s, NEW t, NEW ans, Served(s, ans), t.queue = s.queue,
         t.active = s.active, t.container = s.container,
         t.presenting = s.presenting, t.request = s.request, t.ui = s.ui
  PROVE  Served(t, ans)
<1>1. GetActiveRequest(t) = GetActiveRequest(s)
  BY SameFront
<1> QED
  BY <1>1 DEF Served, Lined, QueuedOnce, InLine, Answered, NothingForgotten,
              Queued

LEMMA TailOnce ==
  ASSUME NEW queue \in Seq(Requests), queue # << >>, IsInjective(queue)
  PROVE  IsInjective(Tail(queue)) /\ Head(queue) \notin ToSet(Tail(queue))
<1>1. /\ Len(queue) \in Nat /\ Len(queue) >= 1
      /\ DOMAIN queue = 1 .. Len(queue) /\ Head(queue) = queue[1]
      /\ DOMAIN Tail(queue) = 1 .. Len(queue) - 1
      /\ \A j \in 1 .. Len(queue) - 1 : Tail(queue)[j] = queue[j + 1]
  OBVIOUS
<1>2. \A j \in 1 .. Len(queue) - 1 : j + 1 \in 1 .. Len(queue) /\ j + 1 # 1
  BY <1>1
<1>3. ASSUME NEW i \in DOMAIN Tail(queue), NEW j \in DOMAIN Tail(queue),
             Tail(queue)[i] = Tail(queue)[j]
      PROVE  i = j
  <2>1. i + 1 = j + 1
    BY <1>1, <1>2, <1>3 DEF IsInjective
  <2> QED
    BY <1>1, <2>1
<1>4. ASSUME NEW j \in DOMAIN Tail(queue) PROVE Tail(queue)[j] # Head(queue)
  BY <1>1, <1>2 DEF IsInjective
<1> QED
  BY <1>3, <1>4 DEF IsInjective, ToSet

LEMMA OnceOfQueues ==
  ASSUME NEW s, NEW t, QueuedOnce(s), Shrinks(s, t),
         \A w \in WebStates : IsInjective(t.queue[w])
  PROVE  QueuedOnce(t)
BY DEF QueuedOnce, Shrinks

LEMMA QueuedShrinks ==
  ASSUME NEW s, NEW t, Shrinks(s, t), NEW r, Queued(t, r)
  PROVE  Queued(s, r)
BY DEF Shrinks, Queued

LEMMA QueueAfterOnce ==
  ASSUME NEW s, Typed(s), QueuedOnce(s), NEW r \in Requests, NEW reason, NEW t,
         t.queue = QueueAfter(s, r, reason)
  PROVE  QueuedOnce(t) /\ Shrinks(s, t)
<1>1. Shrinks(s, t)
  BY QueueAfterShrinks DEF Shrinks
<1>2. ASSUME NEW w \in WebStates PROVE IsInjective(t.queue[w])
  <2>1. IsInjective(s.queue[w]) /\ s.queue[w] \in Seq(Requests)
    BY DEF QueuedOnce, Typed, OverlayStates
  <2>2. CASE reason = "user" /\ FrontRequest(s, w) = r
    <3>1. s.queue[w] # << >>
      BY <2>2, NoneAssumption DEF FrontRequest
    <3>2. t.queue[w] = Tail(s.queue[w])
      BY <2>2 DEF QueueAfter
    <3> QED
      BY <2>1, <3>1, <3>2, TailOnce
  <2>3. CASE ~(reason = "user" /\ FrontRequest(s, w) = r)
    BY <2>1, <2>3 DEF QueueAfter
  <2> QED
    BY <2>2, <2>3
<1> QED
  BY <1>1, <1>2, OnceOfQueues

(***************************************************************************)
(* The front request of the active tab is queued nowhere else, and after   *)
(* the user's answer nowhere at all.                                       *)
(***************************************************************************)
LEMMA ActiveIsQueued ==
  ASSUME NEW s, Typed(s), GetActiveRequest(s) # None
  PROVE  /\ s.active \in WebStates
         /\ GetActiveRequest(s) \in ToSet(s.queue[s.active])
         /\ Queued(s, GetActiveRequest(s))
<1>1. s.active \in WebStates \union {None}
  BY DEF Typed, OverlayStates
<1> QED
  BY <1>1, FrontIsQueued DEF GetActiveRequest, Queued

LEMMA ActiveIsNotElsewhere ==
  ASSUME NEW s, Typed(s), QueuedOnce(s), GetActiveRequest(s) # None,
         NEW w \in WebStates, w # s.active
  PROVE  GetActiveRequest(s) \notin ToSet(s.queue[w])
BY ActiveIsQueued DEF QueuedOnce

LEMMA PoppedIsGone ==
  ASSUME NEW s, Typed(s), QueuedOnce(s), NEW r \in Requests,
         r = GetActiveRequest(s), NEW t, t.queue = QueueAfter(s, r, "user")
  PROVE  ~Queued(t, r)
<1>0. r # None /\ s.active \in WebStates
  BY ActiveIsQueued, NoneAssumption
<1>1. ASSUME NEW w \in WebStates PROVE r \notin ToSet(t.queue[w])
  <2>1. CASE w = s.active
    <3>1. /\ s.queue[w] \in Seq(Requests) /\ IsInjective(s.queue[w])
          /\ s.queue[w] # << >> /\ r = Head(s.queue[w])
      BY <1>0, <2>1 DEF GetActiveRequest, FrontRequest, QueuedOnce, Typed,
                        OverlayStates
    <3>2. t.queue[w] = Tail(s.queue[w])
      BY <2>1 DEF QueueAfter, GetActiveRequest
    <3> QED
      BY <3>1, <3>2, TailOnce
  <2>2. CASE w # s.active
    <3>1. r \notin ToSet(s.queue[w])
      BY <1>0, <2>2, ActiveIsNotElsewhere
    <3>2. FrontRequest(s, w) # r
      BY <1>0, <3>1, FrontIsQueued
    <3> QED
      BY <3>1, <3>2 DEF QueueAfter
  <2> QED
    BY <2>1, <2>2
<1> QED
  BY <1>1 DEF Queued

LEMMA PresentServed ==
  ASSUME NEW s, Typed(s), s.context, Idle(s), QueuedOnce(s),
         NEW ans, \A r \in ans : r \in Requests /\ ~Queued(s, r)
  PROVE  Served(PresentOverlayForActiveRequest(s), ans)
<1> DEFINE t == PresentOverlayForActiveRequest(s)
           a == GetActiveRequest(s)
<1>1. TriesToPresent(s, t)
  BY PresentEffect
<1> HIDE DEF t
<1>2. CASE Blocked(s)
  <2>1. t = s
    BY <1>1, <1>2 DEF TriesToPresent, Idle
  <2>2. Served(s, ans)
    BY <1>2, NoneAssumption
       DEF Served, Lined, InLine, Answered, NothingForgotten, Blocked, Idle,
           QuietUI
  <2> QED
    BY <2>1, <2>2 DEF t
<1>3. CASE ~Blocked(s)
  <2>1. /\ a \in Requests /\ SameTabs(s, t) /\ t.queue = s.queue
        /\ Presents(s, t, a)
    BY <1>1, <1>3, NoneAssumption
       DEF TriesToPresent, Idle, Settled, QuietUI
  <2>2. GetActiveRequest(t) = a /\ Queued(s, a) /\ a # None
    BY <2>1, SameFront, ActiveIsQueued, NoneAssumption DEF SameTabs
  <2> HIDE DEF a
  <2>3. \A q \in Requests \ {a} : t.ui[q] = s.ui[q]
    BY <2>1, NoneAssumption DEF Presents, Idle
  <2>4. QueuedOnce(t) /\ (\A r : Queued(t, r) <=> Queued(s, r))
    BY <2>1 DEF QueuedOnce, Queued
  <2>5. InLine(t) /\ NothingForgotten(t)
    BY <2>1, <2>2 DEF Presents, InLine, NothingForgotten
  <2>6. Answered(t, ans)
    BY <2>2, <2>3, <2>4 DEF Answered, Idle, QuietUI
  <2> QED
    BY <2>4, <2>5, <2>6 DEF Served, Lined, t
<1> QED
  BY <1>2, <1>3

(***************************************************************************)
(* The dialog of r has gone, r is not the active tab's request any more,   *)
(* and no answered request is queued.                                      *)
(***************************************************************************)
LEMMA FinishServed ==
  ASSUME NEW s, Typed(s), ~s.failed, s.container, Quiet(s), QueuedOnce(s),
         NEW r \in Requests, s.request = r, NEW reason, Expected(s, r, reason),
         NEW t, Finishes(s, t, r, reason), GetActiveRequest(t) # r,
         NEW ans,
         \A q \in ans : q \in Requests /\ ~Queued(t, q)
  PROVE  Served(t, ans)
<1>1. /\ Typed(t) /\ SameTabs(s, t) /\ t.queue = QueueAfter(s, r, reason)
      /\ NothingNext(t, r) => ShowsNone(s, t, r)
      /\ ~NothingNext(t, r) => ShowsNext(s, t, r)
  BY DEF Finishes
<1>2. QueuedOnce(t)
  BY <1>1, QueueAfterOnce
<1>3. \A q \in Requests \ {r} : QuietUI(s, q)
  BY DEF Quiet
<1>4. OffScreen(s, t, r) => QuietUI(t, r)
  BY DEF OffScreen, QuietUI
<1>5. CASE NothingNext(t, r)
  <2>1. ShowsNone(s, t, r)
    BY <1>1, <1>5
  <2>2. \A q \in Requests : QuietUI(t, q)
    BY <1>3, <1>4, <2>1 DEF ShowsNone, QuietUI
  <2>3. t.request = None
    BY <2>1 DEF ShowsNone
  <2>4. InLine(t) /\ NothingForgotten(t) /\ Answered(t, ans)
    BY <1>5, <2>2, <2>3, NoneAssumption
       DEF InLine, NothingForgotten, NothingNext, Answered, QuietUI
  <2> QED
    BY <1>2, <2>4 DEF Served, Lined
<1>6. CASE ~NothingNext(t, r)
  <2> DEFINE a == GetActiveRequest(t)
  <2>1. /\ a \in Requests \ {r} /\ ~t.failed
        /\ t.presenting /\ t.request = a /\ t.ui[a].reason = "user"
        /\ OffScreen(s, t, r)
        /\ \A q \in Requests \ {r, a} : t.ui[q] = s.ui[q]
    BY <1>1, <1>3, <1>6 DEF ShowsNext, QuietUI
  <2>2. Queued(t, a)
    BY <1>1, <2>1, ActiveIsQueued, NoneAssumption
  <2>3. InLine(t) /\ NothingForgotten(t)
    BY <2>1 DEF InLine, NothingForgotten
  <2>4. Answered(t, ans)
    BY <1>3, <1>4, <2>1, <2>2 DEF Answered, QuietUI
  <2> QED
    BY <1>2, <2>3, <2>4 DEF Served, Lined
<1> QED
  BY <1>5, <1>6


LEMMA EndServed ==
  ASSUME NEW s, Typed(s), s.context, Steady(s), NEW ans, Served(s, ans),
         ans \subseteq Requests,
         NEW r \in Requests, s.ui[r].coordinator = "leaving"
  PROVE  Served(OverlayUIDidFinishDismissal(s, r), ans)
<1> DEFINE t == OverlayUIDidFinishDismissal(s, r)
           reason == s.ui[r].reason
<1>1. /\ r = s.request /\ IsContained(s) /\ Expected(s, r, reason)
      /\ s.container /\ s.ui[r].callback /\ Quiet(s) /\ ~s.failed
  BY LeavingIsPresented DEF IsContained, Steady
<1>2. s.ui[r] # NoUI
  BY DEF NoUI
<1>3. Finishes(s, t, r, reason)
  BY <1>1, <1>2, FinishEffect
<1> HIDE DEF t
<1>4. t.queue = QueueAfter(s, r, reason) /\ Typed(t)
  BY <1>1, <1>3 DEF Finishes
<1>5. QueuedOnce(s) /\ InLine(s) /\ Answered(s, ans)
  BY DEF Served, Lined
<1>6. Shrinks(s, t)
  BY <1>4, <1>5, QueueAfterOnce
<1>7. ~Queued(t, r)
  <2>1. CASE Queued(s, r)
    <3>1. r = GetActiveRequest(s) /\ reason = "user"
      BY <1>1, <1>5, <2>1 DEF InLine
    <3> QED
      BY <1>4, <1>5, <3>1, PoppedIsGone
  <2>2. CASE ~Queued(s, r)
    BY <1>6, <2>2, QueuedShrinks
  <2> QED
    BY <2>1, <2>2
<1>8. GetActiveRequest(t) # r
  BY <1>4, <1>7, ActiveIsQueued, NoneAssumption
<1>9. \A q \in ans : q \in Requests /\ ~Queued(t, q)
  BY <1>1, <1>5, <1>6, <1>7, QueuedShrinks DEF Answered
<1> QED
  BY <1>1, <1>3, <1>5, <1>8, <1>9, FinishServed DEF t

(***************************************************************************)
(* Another tab becomes active: its request is not the one that was.        *)
(***************************************************************************)
LEMMA SetActiveServed ==
  ASSUME NEW s, Typed(s), s.context, Steady(s), Consistent(s), NoneLeaving(s),
         NEW ans, Served(s, ans), ans \subseteq Requests,
         NEW w \in WebStates \union {None}, NEW cancel \in BOOLEAN
  PROVE  Served(SetActiveWebState(s, w, cancel), ans)
<1> DEFINE b == [s EXCEPT !.active = w]
           p == GetActiveRequest(s)
           t == SetActiveWebState(s, w, cancel)
<1>1. /\ Typed(b) /\ b.context /\ b.container = s.container
      /\ b.presenting = s.presenting /\ b.active = w
      /\ b.presented = s.presented /\ b.request = s.request
      /\ b.ui = s.ui /\ b.failed = s.failed /\ b.queue = s.queue
  BY DEF Typed, OverlayStates
<1>2. t = IF s.active = w THEN b
          ELSE IF ~s.presenting THEN PresentOverlayForActiveRequest(b)
          ELSE IF p = None THEN Fail(b)
          ELSE IF cancel THEN CancelOverlayUI(b, p)
          ELSE HideOverlayUI(b, p)
  BY DEF SetActiveWebState
<1> HIDE DEF b, t, p
<1>3. Steady(b)
  BY <1>1, SteadyOfFields
<1>4. QueuedOnce(s) /\ QueuedOnce(b) /\ InLine(s) /\ Answered(s, ans)
      /\ \A q : Queued(b, q) <=> Queued(s, q)
  BY <1>1 DEF Served, Lined, QueuedOnce, Queued
<1>5. CASE s.active = w
  BY <1>1, <1>2, <1>5, ServedOfFields DEF t
<1>6. CASE s.active # w /\ ~s.presenting
  <2>1. Idle(b)
    BY <1>1, <1>3, <1>6, SteadyIdle
  <2>2. \A q \in ans : q \in Requests /\ ~Queued(b, q)
    BY <1>1, <1>4, <2>1, NoneAssumption DEF Answered, Idle
  <2> QED
    BY <1>1, <1>2, <1>4, <1>6, <2>1, <2>2, PresentServed DEF t
<1>7. CASE s.active # w /\ s.presenting
  <2>1. /\ s.request \in Requests /\ s.request = p /\ s.presented = p
        /\ p # None /\ IsContained(s) /\ ~s.failed
    BY <1>7, PresentedIsActive, NoneAssumption DEF p
  <2>2. s.ui[p].coordinator = "started" /\ s.ui[p].callback /\ s.container
    BY <2>1 DEF IsContained, NoneLeaving
  <2>3. Quiet(b) /\ ~b.failed
    BY <1>3 DEF Steady
  <2>4. PICK reason \in {"hiding", "cancellation"} : Finishes(b, t, p, reason)
    <3>1. CASE cancel
      <4>1. Cancels(b, t, p)
        BY <1>1, <1>2, <1>7, <2>1, <3>1, CancelEffect
      <4> QED
        BY <1>1, <2>1, <2>2, <4>1 DEF Cancels
    <3>2. CASE ~cancel
      <4>1. Hides(b, t, p)
        BY <1>1, <1>2, <1>7, <2>1, <3>2, HideEffect
      <4> QED
        BY <1>1, <2>1, <2>2, <4>1 DEF Hides
    <3> QED
      BY <3>1, <3>2
  <2>5. Expected(b, p, reason)
    BY <1>1, <2>1 DEF Expected
  <2>6. Typed(t) /\ t.queue = s.queue /\ t.active = w
    BY <1>1, <2>4, <2>5 DEF Finishes, QueueAfter, SameTabs
  <2>7. GetActiveRequest(t) # p
    <3> SUFFICES ASSUME GetActiveRequest(t) = p PROVE FALSE
      OBVIOUS
    <3>1. w \in WebStates /\ p \in ToSet(s.queue[w])
      BY <2>1, <2>6, ActiveIsQueued
    <3> QED
      BY <1>4, <1>7, <2>1, <3>1, ActiveIsNotElsewhere DEF p
  <2>8. ASSUME NEW q \in ans PROVE q \in Requests /\ ~Queued(t, q)
    <3>1. q # p
      BY <1>4, <2>2 DEF Answered
    <3>2. ~Queued(s, q)
      BY <1>4, <2>1, <3>1 DEF Answered
    <3> QED
      BY <2>6, <3>2 DEF Queued
  <2> QED
    BY <1>1, <1>4, <2>1, <2>2, <2>3, <2>4, <2>5, <2>7, <2>8, FinishServed DEF t
<1> QED
  BY <1>5, <1>6, <1>7

(***************************************************************************)
(* A new request takes the last place, or the front of an empty queue.     *)
(***************************************************************************)
LEMMA InsertedBehind ==
  ASSUME NEW o, Typed(o), NEW w \in WebStates, NEW r \in Requests,
         NEW i \in 1 .. Len(o.queue[w]) + 1,
         \A v \in WebStates : r \notin ToSet(o.queue[v]),
         i = 1 => o.queue[w] = << >>
  PROVE  LET s == Inserted(o, w, r, i)
             a == GetActiveRequest(o) IN
         \/ GetActiveRequest(s) = a /\ a # r
         \/ /\ GetActiveRequest(s) = r /\ w = o.active /\ a = None
            /\ Len(s.queue[w]) = 1
<1> DEFINE s == Inserted(o, w, r, i)
           a == GetActiveRequest(o)
           queue == o.queue[w]
<1>1. \/ GetActiveRequest(s) = a /\ a # r
      \/ /\ GetActiveRequest(s) = r /\ w = o.active
         /\ a # None => Len(s.queue[w]) > 1 /\ s.queue[w][2] = a
  BY InsertedFront
<1>2. CASE GetActiveRequest(s) = r /\ w = o.active
  <2>1. s.queue[w] = InsertAt(queue, i, r) /\ s.active = w
    BY <1>2, InsertedEffect DEF SameTabs
  <2>2. queue \in Seq(Requests) /\ w # None /\ i \in 1 .. Len(queue) + 1
        /\ r \notin ToSet(queue) /\ (i = 1 => queue = << >>)
    BY NoneAssumption DEF Typed, OverlayStates
  <2>3. (a = None <=> queue = << >>) /\ (queue # << >> => a = Head(queue))
    BY <1>2, <2>2, NoneAssumption DEF GetActiveRequest, FrontRequest
  <2> HIDE DEF queue, s, a
  <2>4. /\ Len(s.queue[w]) = Len(queue) + 1 /\ s.queue[w] \in Seq(Requests)
        /\ \A j \in 1 .. Len(queue) + 1 :
             s.queue[w][j] = IF j < i THEN queue[j]
                             ELSE IF j = i THEN r ELSE queue[j - 1]
    BY <2>1, <2>2, InsertAtProperties
  <2>5. CASE queue = << >>
    BY <1>2, <2>3, <2>4, <2>5 DEF s, a
  <2>6. CASE queue # << >>
    <3>1. 1 < i /\ 1 \in 1 .. Len(queue)
      BY <2>2, <2>6
    <3>2. s.queue[w][1] = queue[1] /\ s.queue[w] # << >>
      BY <2>2, <2>4, <3>1
    <3>3. GetActiveRequest(s) = s.queue[w][1]
      BY <2>1, <2>2, <2>4, <3>2 DEF GetActiveRequest, FrontRequest
    <3>4. queue[1] # r
      BY <2>2, <3>1 DEF ToSet
    <3> QED
      BY <1>2, <3>2, <3>3, <3>4
  <2> QED
    BY <2>5, <2>6
<1> QED
  BY <1>1, <1>2

LEMMA InsertServed ==
  ASSUME NEW o, Typed(o), o.context, Steady(o), Consistent(o),
         NEW w \in WebStates, NEW r \in Requests,
         NEW i \in 1 .. Len(o.queue[w]) + 1,
         \A v \in WebStates : r \notin ToSet(o.queue[v]),
         i = 1 => o.queue[w] = << >>,
         NEW ans, Served(o, ans), ans \subseteq Requests \ {r}, o.request # r
  PROVE  LET s == Inserted(o, w, r, i) IN
         /\ Served(RequestAddedToQueue(s, w, r), ans)
         /\ w # o.active => Served(s, ans)
<1> DEFINE s == Inserted(o, w, r, i)
           t == RequestAddedToQueue(s, w, r)
           a == GetActiveRequest(o)
<1>1. /\ Typed(s) /\ SameTabs(o, s)
      /\ s.presenting = o.presenting /\ s.presented = o.presented
      /\ s.request = o.request /\ s.ui = o.ui /\ s.failed = o.failed
      /\ s.queue[w] = InsertAt(o.queue[w], i, r)
      /\ \A v \in WebStates \ {w} : s.queue[v] = o.queue[v]
  BY InsertedEffect
<1>2. \/ GetActiveRequest(s) = a /\ a # r
      \/ /\ GetActiveRequest(s) = r /\ w = o.active /\ a = None
         /\ Len(s.queue[w]) = 1
  BY InsertedBehind
<1>3. QueuedOnce(o) /\ InLine(o) /\ Answered(o, ans) /\ NothingForgotten(o)
  BY DEF Served, Lined
<1>4. ToSet(s.queue[w]) = ToSet(o.queue[w]) \union {r} /\ IsInjective(s.queue[w])
  <2>1. o.queue[w] \in Seq(Requests) /\ IsInjective(o.queue[w])
    BY <1>3 DEF QueuedOnce, Typed, OverlayStates
  <2> HIDE DEF s
  <2> QED
    BY <1>1, <2>1, InsertAtElements
<1> HIDE DEF s
<1>a. \A v \in WebStates :
        ToSet(s.queue[v]) = IF v = w THEN ToSet(o.queue[v]) \union {r}
                            ELSE ToSet(o.queue[v])
  BY <1>1, <1>4
<1>5. QueuedOnce(s) /\ \A q : q # r => (Queued(s, q) <=> Queued(o, q))
  <2>1. \A v \in WebStates : IsInjective(s.queue[v])
    BY <1>1, <1>3, <1>4 DEF QueuedOnce
  <2>2. ASSUME NEW u \in WebStates, NEW v \in WebStates, u # v
        PROVE  ToSet(s.queue[u]) \intersect ToSet(s.queue[v]) = {}
    <3>1. ToSet(o.queue[u]) \intersect ToSet(o.queue[v]) = {}
      BY <1>3, <2>2 DEF QueuedOnce
    <3>2. r \notin ToSet(o.queue[u]) /\ r \notin ToSet(o.queue[v])
      OBVIOUS
    <3>3. u # w \/ v # w
      BY <2>2
    <3> QED
      BY <1>a, <3>1, <3>2, <3>3
  <2>3. \A q : q # r => (Queued(s, q) <=> Queued(o, q))
    BY <1>a DEF Queued
  <2> QED
    BY <2>1, <2>2, <2>3 DEF QueuedOnce
<1>6. Steady(s)
  BY <1>1, SteadyOfFields DEF SameTabs
<1>7. Answered(s, ans)
  BY <1>1, <1>3, <1>5 DEF Answered
<1>8. CASE GetActiveRequest(s) = a /\ a # r
  <2>1. t = s
    BY <1>8 DEF RequestAddedToQueue
  <2>2. InLine(s) /\ NothingForgotten(s)
    BY <1>1, <1>3, <1>5, <1>8 DEF InLine, NothingForgotten, SameTabs
  <2> QED
    BY <1>5, <1>7, <2>1, <2>2 DEF Served, Lined, s, t
<1>9. CASE GetActiveRequest(s) = r /\ w = o.active /\ a = None
           /\ Len(s.queue[w]) = 1
  <2>1. ~Queued(s, s.request) \/ s.request = None
    BY <1>1, <1>3, <1>5, <1>9, NoneAssumption
       DEF InLine, Typed, OverlayStates
  <2>2. CASE s.presenting
    <3>1. t = s
      BY <1>9, <2>2 DEF RequestAddedToQueue
    <3>2. InLine(s) /\ NothingForgotten(s)
      BY <2>1, <2>2, NoneAssumption DEF InLine, NothingForgotten
    <3> QED
      BY <1>5, <1>7, <1>9, <3>1, <3>2 DEF Served, Lined, s, t
  <2>3. CASE ~s.presenting
    <3>1. t = PresentOverlayForActiveRequest(s)
      BY <1>9, <2>3 DEF RequestAddedToQueue
    <3>2. Idle(s) /\ s.context
      BY <1>1, <1>6, <2>3, SteadyIdle DEF SameTabs
    <3>3. \A q \in ans : q \in Requests /\ ~Queued(s, q)
      BY <1>7, <3>2, NoneAssumption DEF Answered, Idle
    <3> QED
      BY <1>1, <1>5, <1>9, <3>1, <3>2, <3>3, PresentServed DEF s, t
  <2> QED
    BY <2>2, <2>3
<1> QED
  BY <1>2, <1>8, <1>9


(***************************************************************************)
(* The container comes, and the active tab's request is presented, or      *)
(* goes.                                                                   *)
(***************************************************************************)
LEMMA CoordinatorServed ==
  ASSUME NEW s, Typed(s), s.context, Steady(s), Consistent(s), NoneLeaving(s),
         NEW on \in BOOLEAN, NEW ans, Served(s, ans), ans \subseteq Requests
  PROVE  Served(UpdateForCoordinator(s, on), ans)
<1> DEFINE t == UpdateForCoordinator(s, on)
           r == GetActiveRequest(s)
           will == IF ~s.presenting THEN s
                   ELSE IF r = None THEN Fail(s)
                   ELSE IF on THEN s
                   ELSE HideOverlayUI(s, r)
           c == Contained(will, on)
<1>1. t = IF c.presenting THEN c ELSE PresentOverlayForActiveRequest(c)
  BY DEF UpdateForCoordinator, Contained
<1>2. QueuedOnce(s) /\ Answered(s, ans)
  BY DEF Served, Lined
<1>3. /\ Typed(will) /\ will.queue = s.queue /\ will.active = s.active
      /\ will.context
      /\ \/ Idle(will) /\ \A q \in ans : ~Queued(s, q)
         \/ will = s /\ s.presenting /\ on /\ s.container
  <2>1. CASE ~s.presenting
    <3>1. will = s /\ Idle(s)
      BY <2>1, SteadyIdle
    <3> QED
      BY <1>2, <3>1, NoneAssumption DEF Answered, Idle
  <2>2. CASE s.presenting
    <3>1. /\ s.request \in Requests /\ IsContained(s) /\ Quiet(s) /\ ~s.failed
          /\ s.request = r /\ s.presented = s.request /\ r # None
      BY <2>2, PresentedIsActive, NoneAssumption
    <3>2. CASE on
      <4>1. will = s
        BY <2>2, <3>1, <3>2
      <4> QED
        BY <2>2, <3>1, <3>2, <4>1 DEF IsContained
    <3>3. CASE ~on
      <4>1. will = HideOverlayUI(s, r)
        BY <2>2, <3>1, <3>3
      <4> HIDE DEF will, r
      <4>2. s.ui[r].coordinator = "started"
        BY <3>1 DEF IsContained, NoneLeaving
      <4>3. Finishes(s, will, r, "hiding")
        BY <3>1, <4>1, <4>2, HideEffect DEF Hides, IsContained
      <4>4. Expected(s, r, "hiding")
        BY <3>1 DEF Expected
      <4>5. will.queue = s.queue /\ will.active = s.active /\ will.context
            /\ Typed(will)
        BY <4>3, <4>4 DEF Finishes, QueueAfter, SameTabs
      <4>6. GetActiveRequest(will) = r
        BY <4>5, SameFront DEF r
      <4>7. ShowsNone(s, will, r)
        BY <4>3, <4>4, <4>6 DEF Finishes, NothingNext
      <4>8. Idle(will)
        BY <3>1, <4>7 DEF ShowsNone, OffScreen, Idle, Quiet, QuietUI, IsContained
      <4>9. \A q \in ans : ~Queued(s, q)
        BY <1>2, <3>1, <4>2 DEF Answered
      <4> QED
        BY <4>5, <4>8, <4>9
    <3> QED
      BY <3>2, <3>3
  <2> QED
    BY <2>1, <2>2
<1> HIDE DEF will, t, r
<1>4. /\ Typed(c) /\ c.container = on /\ c.context = will.context
      /\ c.queue = will.queue /\ c.active = will.active
      /\ c.presenting = will.presenting
      /\ c.presented = will.presented /\ c.request = will.request
      /\ c.ui = will.ui /\ c.failed = will.failed
  BY <1>3, ContainedEffect
<1> HIDE DEF c
<1>5. CASE Idle(will) /\ \A q \in ans : ~Queued(s, q)
  <2>1. Idle(c)
    BY <1>4, <1>5 DEF Idle, QuietUI
  <2>2. QueuedOnce(c) /\ \A q \in ans : q \in Requests /\ ~Queued(c, q)
    BY <1>2, <1>3, <1>4, <1>5 DEF QueuedOnce, Queued
  <2>3. Served(PresentOverlayForActiveRequest(c), ans)
    BY <1>3, <1>4, <2>1, <2>2, PresentServed
  <2> QED
    BY <1>1, <2>1, <2>3 DEF Idle, t
<1>6. CASE will = s /\ s.presenting /\ on /\ s.container
  <2>1. Served(c, ans)
    BY <1>4, <1>6, ServedOfFields
  <2> QED
    BY <1>1, <1>4, <1>6, <2>1 DEF t
<1> QED
  BY <1>3, <1>5, <1>6

LEMMA AnsweredServed ==
  ASSUME NEW s, Typed(s), Steady(s), Consistent(s), NEW r \in Requests,
         s.ui[r].coordinator = "started", NEW ans, Served(s, ans),
         ans \subseteq Requests
  PROVE  Served([s EXCEPT !.ui[r].coordinator = "leaving"], ans \union {r})
<1> DEFINE t == [s EXCEPT !.ui[r].coordinator = "leaving"]
           u == [s.ui[r] EXCEPT !.coordinator = "leaving"]
<1>1. s.ui[r] # NoUI
  BY DEF NoUI
<1>2. NewUI(s, t, r, u)
  BY <1>1, CoordinatorEffect
<1>3. u.coordinator = "leaving" /\ u.reason = s.ui[r].reason
  BY <1>1 DEF Typed, OverlayStates, UIStates
<1> HIDE DEF t, u
<1>4. r = s.request /\ s.presenting
  BY DEF Consistent, Current, ShownIsCurrent, ShownIsPresented, Steady
<1>5. /\ t.queue = s.queue /\ t.presenting = s.presenting /\ t.request = r
      /\ t.ui[r] = u /\ \A q \in Requests \ {r} : t.ui[q] = s.ui[q]
      /\ GetActiveRequest(t) = GetActiveRequest(s)
  BY <1>2, <1>4, SameFront DEF NewUI, SamePresenter, SameTabs
<1>6. QueuedOnce(t) /\ NothingForgotten(t)
  BY <1>4, <1>5 DEF Served, Lined, QueuedOnce, NothingForgotten
<1>7. InLine(t)
  BY <1>3, <1>4, <1>5 DEF Served, Lined, InLine, Queued
<1>8. \A q \in Requests : t.ui[q].coordinator = "started" =>
        q # r /\ s.ui[q].coordinator = "started"
  BY <1>3, <1>5
<1>9. Answered(t, ans \union {r})
  <2> SUFFICES ASSUME NEW q \in ans \union {r}
               PROVE  /\ t.ui[q].coordinator # "started"
                      /\ Queued(t, q) => q = t.request
    BY DEF Answered
  <2>1. CASE q = r
    BY <1>3, <1>5, <2>1
  <2>2. CASE q # r
    <3>1. /\ s.ui[q].coordinator # "started"
          /\ Queued(s, q) => q = s.request
      BY <2>2 DEF Served, Lined, Answered
    <3>2. t.ui[q] = s.ui[q]
      BY <1>2, <2>2 DEF NewUI
    <3> QED
      BY <1>4, <1>5, <3>1, <3>2 DEF Queued
  <2> QED
    BY <2>1, <2>2
<1> QED
  BY <1>6, <1>7, <1>9 DEF Served, Lined, t


(***************************************************************************)
(* One request of a tab is cancelled: no other is shown for it, and it is  *)
(* off the screen and out of its queue.                                    *)
(***************************************************************************)
Drops(s, t, r) ==
  /\ Typed(t) /\ SameTabs(s, t) /\ t.queue = s.queue
  /\ \A q \in Requests \ {r} : t.ui[q] = s.ui[q]
  /\ t.ui[r].coordinator # "started"
  /\ t.request = s.request \/ (r = s.request /\ t.request = None)
  /\ r # s.request => t.presenting = s.presenting /\ t.request = s.request

LEMMA CurrentIsActive ==
  ASSUME NEW s, Typed(s), QueuedOnce(s), InLine(s), NEW w \in WebStates,
         w # s.active, NEW r \in Requests, r \in ToSet(s.queue[w])
  PROVE  r # s.request
<1> SUFFICES ASSUME r = s.request PROVE FALSE
  OBVIOUS
<1>1. r = GetActiveRequest(s)
  BY DEF InLine, Queued
<1> QED
  BY <1>1, ActiveIsNotElsewhere, NoneAssumption

\* Cancelling when the presenter awaits it, in front or not current.
LEMMA CancelDrops ==
  ASSUME NEW s, Typed(s), s.context, ~s.failed, Quiet(s), NEW r \in Requests,
         r = s.request =>
           /\ r = GetActiveRequest(s) /\ IsContained(s)
           /\ Expected(s, r, "cancellation")
  PROVE  Drops(s, CancelOverlayUI(s, r), r)
<1> DEFINE t == CancelOverlayUI(s, r)
           u == [s.ui[r] EXCEPT !.reason = "cancellation"]
<1>0. ~NoUI.callback /\ NoUI.coordinator = "none"
  BY DEF NoUI
<1>1. Cancels(s, t, r)
  BY CancelEffect
<1> HIDE DEF t
<1>2. Typed(t) /\ SameTabs(s, t) /\ t.queue = s.queue
  BY <1>1 DEF Cancels
<1>3. CASE r # s.request
  <2>1. ~s.ui[r].callback /\ s.ui[r].coordinator # "started"
    BY <1>3 DEF Quiet, QuietUI
  <2>2. t = s \/ NewUI(s, t, r, NoUI)
    BY <1>1, <2>1 DEF Cancels
  <2> QED
    BY <1>0, <1>2, <1>3, <2>1, <2>2 DEF Drops, NewUI, SamePresenter, t
<1>4. CASE r = s.request
  <2>1. /\ r = GetActiveRequest(s) /\ s.container /\ s.ui[r].callback
        /\ Expected(s, r, "cancellation")
    BY <1>4 DEF IsContained
  <2>2. CASE s.ui[r].coordinator = "started"
    <3>1. Finishes(s, t, r, "cancellation")
      BY <1>1, <1>4, <2>1, <2>2 DEF Cancels
    <3>2. GetActiveRequest(t) = r
      BY <1>2, <2>1, SameFront DEF SameTabs
    <3>3. ShowsNone(s, t, r)
      BY <2>1, <3>1, <3>2 DEF Finishes, NothingNext
    <3> QED
      BY <1>2, <1>4, <2>1, <3>3 DEF ShowsNone, OffScreen, Drops, t
  <2>3. CASE s.ui[r].coordinator # "started"
    <3>1. NewUI(s, t, r, u)
      BY <1>1, <1>4, <2>1, <2>3 DEF Cancels
    <3>2. u.coordinator = s.ui[r].coordinator
      BY <1>0, <2>1 DEF Typed, OverlayStates, UIStates
    <3> HIDE DEF u
    <3> QED
      BY <1>2, <1>4, <2>3, <3>1, <3>2 DEF NewUI, Drops, t
  <2> QED
    BY <2>2, <2>3
<1> QED
  BY <1>3, <1>4

LEMMA QueuedCancelDrops ==
  ASSUME NEW s, Typed(s), s.context, Steady(s), NEW r \in Requests,
         Queued(s, r), InLine(s)
  PROVE  Drops(s, QueuedRequestCancelled(s, r), r)
<1> DEFINE b == IF s.presented = r THEN [s EXCEPT !.presented = None] ELSE s
           t == CancelOverlayUI(b, r)
<1>1. /\ Typed(b) /\ SameTabs(s, b) /\ b.queue = s.queue
      /\ b.presenting = s.presenting /\ b.request = s.request /\ b.ui = s.ui
      /\ b.failed = s.failed
      /\ b.presented = IF s.presented = r THEN None ELSE s.presented
  BY DEF Typed, OverlayStates, SameTabs
<1>2. QueuedRequestCancelled(s, r) = t
  BY DEF QueuedRequestCancelled
<1> HIDE DEF b
<1>3. ~b.failed /\ Quiet(b) /\ b.context
  BY <1>1 DEF Steady, Quiet, QuietUI, SameTabs
<1>4. ASSUME r = b.request
      PROVE  /\ r = GetActiveRequest(b) /\ IsContained(b)
             /\ Expected(b, r, "cancellation")
  <2>1. r = GetActiveRequest(s) /\ r # None
    BY <1>1, <1>4, NoneAssumption DEF InLine
  <2>2. GetActiveRequest(b) = GetActiveRequest(s)
    BY <1>1, SameFront DEF SameTabs
  <2>3. IsContained(s) /\ AwaitsDismissal(s)
    BY <1>1, <1>4, <2>1 DEF Steady
  <2>4. b.presented = None
    BY <1>1, <1>4, <2>3 DEF AwaitsDismissal
  <2>5. IsContained(b)
    BY <1>1, <2>3 DEF IsContained, SameTabs
  <2> QED
    BY <2>1, <2>2, <2>4, <2>5 DEF Expected
<1> HIDE DEF t
<1>5. Drops(b, t, r)
  BY <1>1, <1>3, <1>4, CancelDrops DEF t
<1> QED
  BY <1>1, <1>2, <1>5 DEF Drops, SameTabs

LEMMA CancelledInQueues ==
  ASSUME NEW s, Typed(s), s.context, NEW w \in WebStates, NEW r \in Requests
  PROVE  LET t == CancelledIn(w, s, r) IN
         /\ Typed(t) /\ SameTabs(s, t)
         /\ t.queue[w] = IF r \in ToSet(s.queue[w]) THEN Without(s.queue[w], r)
                         ELSE s.queue[w]
<1> DEFINE b == IF s.presented = r THEN [s EXCEPT !.presented = None] ELSE s
           told == IF Observed(w) THEN CancelOverlayUI(b, r) ELSE s
<1>1. /\ Typed(b) /\ SameTabs(s, b) /\ b.queue = s.queue /\ b.context
  BY DEF Typed, OverlayStates, SameTabs
<1>2. CancelledIn(w, s, r) = IF r \in ToSet(s.queue[w])
                             THEN Dequeued(w, told, r) ELSE s
  BY DEF CancelledIn, QueuedRequestCancelled, Dequeued
<1> HIDE DEF b
<1>3. Typed(told) /\ SameTabs(s, told) /\ told.queue = s.queue
  <2>1. Cancels(b, CancelOverlayUI(b, r), r)
    BY <1>1, CancelEffect
  <2> DEFINE c == CancelOverlayUI(b, r)
  <2> HIDE DEF c
  <2>2. Typed(c) /\ SameTabs(b, c) /\ c.queue = b.queue
    BY <2>1 DEF Cancels, c
  <2>3. Typed(c) /\ SameTabs(s, c) /\ c.queue = s.queue
    BY <1>1, <2>2 DEF SameTabs
  <2> QED
    BY <2>3 DEF SameTabs, c
<1> HIDE DEF told
<1>4. CASE r \in ToSet(s.queue[w])
  <2> DEFINE d == Dequeued(w, told, r)
  <2>1. Typed(d) /\ SameTabs(told, d) /\ d.queue[w] = Without(s.queue[w], r)
    BY <1>3, <1>4, DequeuedEffect
  <2> HIDE DEF d
  <2>2. SameTabs(s, d)
    BY <1>3, <2>1 DEF SameTabs
  <2> QED
    BY <1>2, <1>4, <2>1, <2>2 DEF d
<1>5. CASE r \notin ToSet(s.queue[w])
  BY <1>2, <1>5 DEF SameTabs
<1> QED
  BY <1>4, <1>5


LEMMA CancelledInLined ==
  ASSUME NEW s, Typed(s), s.context, Steady(s), NEW w \in WebStates,
         NEW r \in Requests, Observed(w) \/ w # s.active,
         NEW ans, Lined(s, ans), ans \subseteq Requests
  PROVE  LET t == CancelledIn(w, s, r) IN
         /\ Lined(t, ans) /\ t.request \in {s.request, None}
         /\ w # s.active /\ NothingForgotten(s) => NothingForgotten(t)
<1> DEFINE told == IF Observed(w) THEN QueuedRequestCancelled(s, r) ELSE s
           d == Dequeued(w, told, r)
<1>1. QueuedOnce(s) /\ InLine(s) /\ Answered(s, ans)
  BY DEF Lined
<1>2. CASE r \notin ToSet(s.queue[w])
  <2>1. CancelledIn(w, s, r) = s
    BY <1>2 DEF CancelledIn
  <2> QED
    BY <2>1
<1>3. CASE r \in ToSet(s.queue[w])
  <2>1. CancelledIn(w, s, r) = d
    BY <1>3 DEF CancelledIn, Dequeued
  <2>2. Queued(s, r) /\ (w # s.active => r # s.request)
    BY <1>1, <1>3, CurrentIsActive DEF Queued
  <2>3. Drops(s, told, r)
    <3>1. CASE Observed(w)
      BY <1>1, <2>2, <3>1, QueuedCancelDrops
    <3>2. CASE ~Observed(w)
      <4>1. told = s /\ r # s.request
        BY <2>2, <3>2
      <4>2. s.ui[r].coordinator # "started"
        BY <4>1 DEF Steady, Quiet, QuietUI
      <4>3. Drops(s, s, r)
        BY <4>1, <4>2 DEF Drops, SameTabs
      <4> QED
        BY <4>1, <4>3
    <3> QED
      BY <3>1, <3>2
  <2> HIDE DEF told
  <2>4. /\ Typed(told) /\ SameTabs(s, told) /\ told.queue = s.queue
    BY <2>3 DEF Drops
  <2>5. /\ Typed(d) /\ SameTabs(told, d)
        /\ d.presenting = told.presenting /\ d.request = told.request
        /\ d.ui = told.ui
        /\ d.queue[w] = Without(s.queue[w], r)
        /\ \A v \in WebStates \ {w} : d.queue[v] = s.queue[v]
    BY <1>3, <2>4, DequeuedEffect
  <2>6. w # s.active \/ GetActiveRequest(s) # r =>
          GetActiveRequest(d) = GetActiveRequest(s)
    BY <1>3, <2>4, SameFront, DequeuedFront DEF SameTabs
  <2> HIDE DEF d
  <2>7. /\ IsInjective(d.queue[w])
        /\ ToSet(d.queue[w]) = ToSet(s.queue[w]) \ {r}
    <3>1. s.queue[w] \in Seq(Requests) /\ IsInjective(s.queue[w])
      BY <1>1 DEF QueuedOnce, Typed, OverlayStates
    <3> QED
      BY <1>3, <2>5, <3>1, WithoutEffect
  <2>8. Shrinks(s, d)
    BY <2>5, <2>7 DEF Shrinks
  <2>9. QueuedOnce(d)
    <3>1. \A v \in WebStates : IsInjective(d.queue[v])
      BY <1>1, <2>5, <2>7 DEF QueuedOnce
    <3> QED
      BY <1>1, <2>8, <3>1, OnceOfQueues
  <2>10. ~Queued(d, r)
    <3>1. \A v \in WebStates \ {w} : r \notin ToSet(s.queue[v])
      BY <1>1, <1>3 DEF QueuedOnce
    <3> QED
      BY <2>5, <2>7, <3>1 DEF Queued
  <2>11. InLine(d)
    <3> SUFFICES ASSUME NEW q \in Requests, Queued(d, q), q = d.request
                 PROVE  q = GetActiveRequest(d) /\ d.ui[q].reason = "user"
      BY DEF InLine
    <3>1. q # r /\ Queued(s, q) /\ q # None
      BY <2>8, <2>10, QueuedShrinks, NoneAssumption
    <3>2. q = s.request /\ d.ui[q] = s.ui[q]
      BY <2>3, <2>5, <3>1 DEF Drops
    <3>3. q = GetActiveRequest(s) /\ s.ui[q].reason = "user"
      BY <1>1, <3>1, <3>2 DEF InLine
    <3> QED
      BY <2>6, <3>1, <3>2, <3>3
  <2>12. Answered(d, ans)
    <3> SUFFICES ASSUME NEW q \in ans
                 PROVE  /\ d.ui[q].coordinator # "started"
                        /\ Queued(d, q) => q = d.request
      BY DEF Answered
    <3>1. d.ui[q].coordinator # "started"
      BY <1>1, <2>3, <2>5 DEF Drops, Answered
    <3>2. ASSUME Queued(d, q) PROVE q = d.request
      <4>1. q # r /\ Queued(s, q)
        BY <2>8, <2>10, <3>2, QueuedShrinks
      <4>2. q = s.request
        BY <1>1, <4>1 DEF Answered
      <4> QED
        BY <2>3, <2>5, <4>1, <4>2 DEF Drops
    <3> QED
      BY <3>1, <3>2
  <2>13. ASSUME w # s.active, NothingForgotten(s) PROVE NothingForgotten(d)
    BY <2>2, <2>3, <2>5, <2>6, <2>13 DEF NothingForgotten, Drops, SameTabs
  <2>14. d.request \in {s.request, None}
    BY <2>3, <2>5 DEF Drops
  <2> QED
    BY <2>1, <2>9, <2>11, <2>12, <2>13, <2>14 DEF Lined
<1> QED
  BY <1>2, <1>3

(***************************************************************************)
(* All the requests of a tab are cancelled, in whatever order: its queue   *)
(* is empty then.                                                          *)
(***************************************************************************)
LEMMA CancelledAllEmpties ==
  ASSUME NEW s, Typed(s), s.context, NEW w \in WebStates,
         IsInjective(s.queue[w]), NEW rs \in Seq(Requests),
         ToSet(s.queue[w]) \subseteq ToSet(rs)
  PROVE  LET t == CancelledAll(w, s, rs) IN
         t.queue[w] = << >> /\ Typed(t) /\ SameTabs(s, t)
<1>1. PICK after : /\ CancelSteps(w, s, rs, after)
                   /\ CancelledAll(w, s, rs) = after[Len(rs)]
  BY CancelledAllSteps
<1> DEFINE n == Len(rs)
           Good(k) == /\ Typed(after[k]) /\ SameTabs(s, after[k])
                      /\ IsInjective(after[k].queue[w])
                      /\ ToSet(after[k].queue[w]) \subseteq ToSet(rs)
                      /\ \A j \in 1 .. k : rs[j] \notin ToSet(after[k].queue[w])
           Bad == {k \in 0 .. n : ~Good(k)}
<1>2. n \in Nat /\ \A k \in 1 .. n : rs[k] \in Requests
  OBVIOUS
<1>3. Good(0)
  <2>1. after[0] = s /\ ~\E j \in 1 .. 0 : TRUE
    BY <1>1 DEF CancelSteps
  <2> QED
    BY <2>1 DEF SameTabs
<1>4. ASSUME NEW k \in 1 .. n, Good(k - 1) PROVE Good(k)
  <2> DEFINE b == after[k - 1]
             t == after[k]
             r == rs[k]
  <2>1. t = CancelledIn(w, b, r) /\ r \in Requests /\ k \in Nat
    BY <1>1, <1>2 DEF CancelSteps
  <2>2. /\ Typed(b) /\ SameTabs(s, b) /\ IsInjective(b.queue[w])
        /\ ToSet(b.queue[w]) \subseteq ToSet(rs)
        /\ \A j \in 1 .. k - 1 : rs[j] \notin ToSet(b.queue[w])
    BY <1>4
  <2> HIDE DEF b, t, r
  <2>3. b.context
    BY <2>2 DEF SameTabs
  <2>4. /\ Typed(t) /\ SameTabs(b, t)
        /\ t.queue[w] = IF r \in ToSet(b.queue[w]) THEN Without(b.queue[w], r)
                        ELSE b.queue[w]
    BY <2>1, <2>2, <2>3, CancelledInQueues
  <2>5. b.queue[w] \in Seq(Requests)
    BY <2>2 DEF Typed, OverlayStates
  <2>6. /\ ToSet(t.queue[w]) = ToSet(b.queue[w]) \ {r}
        /\ IsInjective(t.queue[w])
    BY <2>2, <2>4, <2>5, WithoutEffect
  <2>7. ASSUME NEW j \in 1 .. k PROVE rs[j] \notin ToSet(t.queue[w])
    <3>1. j = k \/ j \in 1 .. k - 1
      BY <2>1
    <3> QED
      BY <2>2, <2>6, <3>1 DEF r
  <2>8. SameTabs(s, t) /\ ToSet(t.queue[w]) \subseteq ToSet(rs)
    BY <2>2, <2>4, <2>6 DEF SameTabs
  <2> QED
    BY <2>4, <2>6, <2>7, <2>8 DEF t
<1>5. Bad = {}
  <2> SUFFICES ASSUME Bad # {} PROVE FALSE
    OBVIOUS
  <2>1. Bad \in SUBSET Nat
    BY <1>2
  <2> HIDE DEF Bad
  <2>2. PICK m \in Bad : \A x \in Bad : m <= x
    BY <2>1, NatHasLeast
  <2> USE DEF Bad
  <2> HIDE DEF Good
  <2>3. m \in 0 .. n /\ ~Good(m) /\ m # 0
    BY <1>3, <2>2
  <2>4. m \in 1 .. n /\ m - 1 \in 0 .. n /\ ~(m <= m - 1)
    BY <1>2, <2>3
  <2>5. Good(m - 1)
    BY <2>2, <2>4
  <2> QED
    BY <1>4, <2>3, <2>4, <2>5
<1>6. Good(n)
  BY <1>2, <1>5
<1> DEFINE t == after[n]
<1>7. Typed(t) /\ SameTabs(s, t)
  BY <1>6
<1>8. ToSet(t.queue[w]) = {}
  <2>1. ToSet(rs) = {rs[j] : j \in 1 .. n}
    BY DEF ToSet
  <2> QED
    BY <1>6, <2>1
<1>9. t.queue[w] \in Seq(Requests)
  BY <1>7 DEF Typed, OverlayStates
<1> HIDE DEF t
<1>10. t.queue[w] = << >>
  <2> SUFFICES ASSUME t.queue[w] # << >> PROVE FALSE
    OBVIOUS
  <2>1. Len(t.queue[w]) \in Nat /\ Len(t.queue[w]) # 0
    BY <1>9
  <2>2. 1 \in DOMAIN t.queue[w]
    BY <1>9, <2>1
  <2>3. t.queue[w][1] \in ToSet(t.queue[w])
    BY <2>2 DEF ToSet
  <2> QED
    BY <1>8, <2>3
<1> QED
  BY <1>1, <1>7, <1>10 DEF t

(***************************************************************************)
(* Where the context's request comes from: it is the one there was, none,  *)
(* or the one in front.                                                    *)
(***************************************************************************)
RequestFrom(s, t) ==
  t.failed \/ t.request \in {s.request, None, GetActiveRequest(t)}

LEMMA PresentFrom ==
  ASSUME NEW s, Typed(s)
  PROVE  RequestFrom(s, PresentOverlayForActiveRequest(s))
<1> DEFINE t == PresentOverlayForActiveRequest(s)
<1>1. TriesToPresent(s, t)
  BY PresentEffect
<1> HIDE DEF t
<1>2. CASE s.presenting
  BY <1>1, <1>2 DEF TriesToPresent, HasFailed, RequestFrom, t
<1>3. CASE ~s.presenting /\ Blocked(s)
  <2>1. t = s
    BY <1>1, <1>3 DEF TriesToPresent
  <2> QED
    BY <2>1 DEF RequestFrom, t
<1>4. CASE ~s.presenting /\ ~Blocked(s)
  <2>1. /\ SameTabs(s, t) /\ t.queue = s.queue
        /\ ~t.failed => Presents(s, t, GetActiveRequest(s))
    BY <1>1, <1>4 DEF TriesToPresent
  <2>2. GetActiveRequest(t) = GetActiveRequest(s)
    BY <2>1, SameFront DEF SameTabs
  <2> QED
    BY <2>1, <2>2 DEF Presents, RequestFrom, t
<1> QED
  BY <1>2, <1>3, <1>4

LEMMA FinishFrom ==
  ASSUME NEW s, NEW r, NEW reason, NEW t, Finishes(s, t, r, reason)
  PROVE  RequestFrom(s, t)
BY DEF Finishes, ShowsNone, ShowsNext, RequestFrom

LEMMA HideFrom ==
  ASSUME NEW s, Typed(s), s.context, NEW r \in Requests
  PROVE  RequestFrom(s, HideOverlayUI(s, r))
<1> DEFINE t == HideOverlayUI(s, r)
<1>1. Hides(s, t, r)
  BY HideEffect
<1> HIDE DEF t
<1> QED
  BY <1>1, FinishFrom DEF Hides, FailsOr, NewUI, RequestFrom, t

LEMMA CancelFrom ==
  ASSUME NEW s, Typed(s), s.context, NEW r \in Requests \union {None},
         OnlyCurrentHasCallback(s)
  PROVE  RequestFrom(s, CancelOverlayUI(s, r))
<1> DEFINE t == CancelOverlayUI(s, r)
<1>1. CASE r = None
  <2>1. t = s
    BY <1>1 DEF CancelOverlayUI, HasUI
  <2> QED
    BY <2>1 DEF RequestFrom
<1>2. CASE r # None
  <2>1. r \in Requests /\ Cancels(s, t, r)
    BY <1>2, CancelEffect
  <2> HIDE DEF t
  <2>2. CASE s.ui[r] = NoUI
    <3>1. t = s
      BY <2>1, <2>2 DEF Cancels
    <3> QED
      BY <3>1 DEF RequestFrom, t
  <2>3. CASE s.ui[r] # NoUI /\ ~s.ui[r].callback
    BY <2>1, <2>3 DEF Cancels, NewUI, RequestFrom, t
  <2>4. CASE s.ui[r].callback
    <3>1. s.request = r
      BY <2>1, <2>4 DEF OnlyCurrentHasCallback
    <3> QED
      BY <2>1, <2>4, <3>1, FinishFrom
         DEF Cancels, CancelsUnshown, NewUI, RequestFrom, t
  <2> QED
    BY <2>2, <2>3, <2>4
<1> QED
  BY <1>1, <1>2

LEMMA EndFrom ==
  ASSUME NEW s, Typed(s), s.context, NEW r \in Requests, s.ui[r] # NoUI
  PROVE  RequestFrom(s, OverlayUIDidFinishDismissal(s, r))
<1> DEFINE t == OverlayUIDidFinishDismissal(s, r)
<1>1. /\ FailsOr(s, t, s.request = r /\ s.ui[r].callback)
      /\ s.request = r /\ s.ui[r].callback => Finishes(s, t, r, s.ui[r].reason)
  BY FinishEffect
<1> HIDE DEF t
<1> QED
  BY <1>1, FinishFrom DEF FailsOr, RequestFrom, t

LEMMA SetActiveFrom ==
  ASSUME NEW s, Typed(s), s.context, ~s.failed, Consistent(s),
         NEW w \in WebStates \union {None}, NEW cancel \in BOOLEAN
  PROVE  RequestFrom(s, SetActiveWebState(s, w, cancel))
<1> DEFINE b == [s EXCEPT !.active = w]
           p == GetActiveRequest(s)
           t == SetActiveWebState(s, w, cancel)
<1>1. /\ Typed(b) /\ b.context /\ b.request = s.request /\ b.ui = s.ui
  BY DEF Typed, OverlayStates
<1>2. \/ t = b
      \/ t = PresentOverlayForActiveRequest(b)
      \/ t = Fail(b)
      \/ p # None /\ t = CancelOverlayUI(b, p)
      \/ p # None /\ t = HideOverlayUI(b, p)
  BY DEF SetActiveWebState
<1>3. p \in Requests \union {None}
  BY ActiveRequestType
<1>4. OnlyCurrentHasCallback(b)
  BY <1>1 DEF Consistent, Current, OnlyCurrentHasCallback
<1> HIDE DEF b, t, p
<1>5. RequestFrom(b, t)
  <2>1. CASE t = b
    BY <2>1 DEF RequestFrom
  <2>2. CASE t = PresentOverlayForActiveRequest(b)
    BY <1>1, <2>2, PresentFrom
  <2>3. CASE t = Fail(b)
    BY <1>1, <2>3, FailEffect DEF HasFailed, RequestFrom
  <2>4. CASE p # None /\ t = CancelOverlayUI(b, p)
    BY <1>1, <1>3, <1>4, <2>4, CancelFrom
  <2>5. CASE p # None /\ t = HideOverlayUI(b, p)
    BY <1>1, <1>3, <2>5, HideFrom
  <2> QED
    BY <1>2, <2>1, <2>2, <2>3, <2>4, <2>5
<1> QED
  BY <1>1, <1>5 DEF RequestFrom, t

LEMMA InsertFrom ==
  ASSUME NEW s, Typed(s), s.context, NEW w \in WebStates, NEW r \in Requests
  PROVE  RequestFrom(s, RequestAddedToQueue(s, w, r))
<1> DEFINE t == RequestAddedToQueue(s, w, r)
<1>1. \/ t = s
      \/ t = PresentOverlayForActiveRequest(s)
      \/ s.presented # None /\ t = HideOverlayUI(s, s.presented)
  BY DEF RequestAddedToQueue
<1>2. s.presented \in Requests \union {None}
  BY DEF Typed, OverlayStates
<1> HIDE DEF t
<1>3. RequestFrom(s, t)
  <2>1. CASE t = s
    BY <2>1 DEF RequestFrom
  <2>2. CASE t = PresentOverlayForActiveRequest(s)
    BY <2>2, PresentFrom
  <2>3. CASE s.presented # None /\ t = HideOverlayUI(s, s.presented)
    BY <1>2, <2>3, HideFrom
  <2> QED
    BY <1>1, <2>1, <2>2, <2>3
<1> QED
  BY <1>3 DEF t

LEMMA CoordinatorFrom ==
  ASSUME NEW s, Typed(s), s.context, ~s.failed, Consistent(s),
         NEW on \in BOOLEAN
  PROVE  RequestFrom(s, UpdateForCoordinator(s, on))
<1> DEFINE t == UpdateForCoordinator(s, on)
           r == GetActiveRequest(s)
           will == IF ~s.presenting THEN s
                   ELSE IF r = None THEN Fail(s)
                   ELSE IF on THEN s
                   ELSE HideOverlayUI(s, r)
           c == Contained(will, on)
<1>1. t = IF c.presenting THEN c ELSE PresentOverlayForActiveRequest(c)
  BY DEF UpdateForCoordinator, Contained
<1>2. r \in Requests \union {None}
  BY ActiveRequestType
<1>3. /\ Typed(will) /\ will.queue = s.queue /\ will.active = s.active
      /\ RequestFrom(s, will)
  <2>1. CASE will = s
    BY <2>1 DEF RequestFrom
  <2>2. CASE will = Fail(s)
    <3>1. HasFailed(s, will)
      BY <2>2, FailEffect
    <3> HIDE DEF will
    <3> QED
      BY <3>1 DEF HasFailed, SamePresenter, SameTabs, RequestFrom
  <2>3. CASE r # None /\ will = HideOverlayUI(s, r)
    <3> HIDE DEF will, r
    <3>1. ~s.failed => Current(s)
      BY DEF Consistent
    <3>2. OffAndConsistent(s, will, r) /\ will.queue = s.queue
      BY <1>2, <2>3, <3>1, HideConsistent
    <3> QED
      BY <1>2, <2>3, <3>2, HideFrom DEF OffAndConsistent, SameTabs
  <2> QED
    BY <2>1, <2>2, <2>3
<1> HIDE DEF will, t, r
<1>4. /\ Typed(c) /\ c.queue = will.queue /\ c.active = will.active
      /\ c.request = will.request /\ c.failed = will.failed
  BY <1>3, ContainedEffect
<1> HIDE DEF c
<1>5. GetActiveRequest(c) = r /\ GetActiveRequest(will) = r
  BY <1>3, <1>4, SameFront DEF r
<1>6. CASE c.presenting
  BY <1>1, <1>3, <1>4, <1>5, <1>6 DEF RequestFrom, t
<1>7. CASE ~c.presenting
  <2>1. t = PresentOverlayForActiveRequest(c)
    BY <1>1, <1>7
  <2>2. SameTabs(c, t) /\ t.queue = c.queue /\ (c.failed => t.failed)
    BY <1>4, <2>1, PresentEffect DEF TriesToPresent
  <2>3. GetActiveRequest(t) = r
    BY <1>5, <2>2, SameFront DEF SameTabs
  <2>4. RequestFrom(c, t)
    BY <1>4, <2>1, PresentFrom
  <2> QED
    BY <1>3, <1>4, <1>5, <2>2, <2>3, <2>4 DEF RequestFrom, t
<1> QED
  BY <1>6, <1>7

(***************************************************************************)
(* What cancelling all the requests of a tab, and destroying it, leaves.   *)
(***************************************************************************)
LEMMA CancelledAllServed ==
  ASSUME NEW s, Typed(s), s.context, Steady(s), NEW w \in WebStates,
         Observed(w) \/ w # s.active, NEW rs \in Seq(Requests),
         ToSet(s.queue[w]) \subseteq ToSet(rs),
         NEW ans, Served(s, ans), ans \subseteq Requests
  PROVE  LET t == CancelledAll(w, s, rs) IN
         Served(t, ans) /\ t.request \in {s.request, None}
<1> DEFINE G == {t \in OverlayStates :
                   /\ Typed(t) /\ SameTabs(s, t) /\ Steady(t) /\ Lined(t, ans)
                   /\ t.request \in {s.request, None}
                   /\ w # s.active => NothingForgotten(t)}
           t == CancelledAll(w, s, rs)
<1>1. s \in G
  BY DEF Typed, SameTabs, Served
<1>2. ASSUME NEW b \in G, NEW r \in Requests PROVE CancelledIn(w, b, r) \in G
  <2> DEFINE c == CancelledIn(w, b, r)
  <2>1. /\ Typed(b) /\ SameTabs(s, b) /\ Steady(b) /\ Lined(b, ans)
        /\ b.request \in {s.request, None}
        /\ w # s.active => NothingForgotten(b)
    OBVIOUS
  <2> HIDE DEF G
  <2>2. b.context /\ b.active = s.active
    BY <2>1 DEF SameTabs
  <2>3. Steady(c) /\ Typed(c) /\ SameTabs(b, c)
    BY <2>1, <2>2, CancelledInSteady
  <2>4. /\ Lined(c, ans) /\ c.request \in {b.request, None}
        /\ w # b.active /\ NothingForgotten(b) => NothingForgotten(c)
    BY <2>1, <2>2, CancelledInLined
  <2> HIDE DEF c
  <2>5. c \in OverlayStates /\ SameTabs(s, c)
    BY <2>1, <2>3 DEF Typed, SameTabs
  <2>6. c \in G
    BY <2>1, <2>2, <2>3, <2>4, <2>5 DEF G
  <2> QED
    BY <2>6 DEF c
<1>3. t \in G
  <2> HIDE DEF G
  <2> QED
    BY <1>1, <1>2, CancelledAllKeeps
<1>4. IsInjective(s.queue[w])
  BY DEF Served, Lined, QueuedOnce
<1>5. t.queue[w] = << >>
  BY <1>4, CancelledAllEmpties
<1> HIDE DEF t
<1>6. /\ Lined(t, ans) /\ t.request \in {s.request, None} /\ SameTabs(s, t)
      /\ w # s.active => NothingForgotten(t)
  BY <1>3
<1>7. w = s.active => NothingForgotten(t)
  BY <1>5, <1>6
     DEF NothingForgotten, SameTabs, GetActiveRequest, FrontRequest
<1> QED
  BY <1>6, <1>7 DEF Served, t

LEMMA LeftServed ==
  ASSUME NEW s, Typed(s), s.context, Steady(s), NEW w \in WebStates,
         w # s.active, NEW ans, Served(s, ans), ans \subseteq Requests
  PROVE  LET t == CancelOverlayUI(s, FrontRequest(s, w)) IN
         /\ Served(t, ans) /\ Typed(t) /\ SameTabs(s, t)
         /\ t.request = s.request
<1> DEFINE r == FrontRequest(s, w)
           t == CancelOverlayUI(s, r)
<1>1. r \in Requests \union {None}
  BY FrontType DEF Typed
<1>2. CASE r = None
  <2>1. t = s
    BY <1>2 DEF CancelOverlayUI, HasUI
  <2> QED
    BY <2>1 DEF SameTabs
<1>3. CASE r # None
  <2>1. r \in Requests /\ r \in ToSet(s.queue[w]) /\ Queued(s, r)
    BY <1>1, <1>3, FrontIsQueued DEF Queued
  <2>2. QueuedOnce(s) /\ InLine(s) /\ Answered(s, ans) /\ NothingForgotten(s)
    BY DEF Served, Lined
  <2>3. r # s.request
    BY <2>1, <2>2, CurrentIsActive
  <2>4. Drops(s, t, r)
    BY <2>1, <2>3, CancelDrops DEF Steady
  <2> HIDE DEF r, t
  <2>5. /\ Typed(t) /\ SameTabs(s, t) /\ t.queue = s.queue
        /\ t.presenting = s.presenting /\ t.request = s.request
        /\ \A q \in Requests \ {r} : t.ui[q] = s.ui[q]
        /\ t.ui[r].coordinator # "started"
    BY <2>3, <2>4 DEF Drops
  <2>6. GetActiveRequest(t) = GetActiveRequest(s)
    BY <2>5, SameFront DEF SameTabs
  <2>7. QueuedOnce(t) /\ \A q : Queued(t, q) <=> Queued(s, q)
    BY <2>2, <2>5 DEF QueuedOnce, Queued
  <2>8. InLine(t)
    BY <2>2, <2>3, <2>5, <2>6, <2>7 DEF InLine
  <2>9. Answered(t, ans)
    BY <2>2, <2>5, <2>7 DEF Answered
  <2>10. NothingForgotten(t)
    BY <2>2, <2>5, <2>6 DEF NothingForgotten, SameTabs
  <2>11. Served(t, ans) /\ Typed(t) /\ SameTabs(s, t) /\ t.request = s.request
    BY <2>5, <2>7, <2>8, <2>9, <2>10 DEF Served, Lined
  <2> QED
    BY <2>11 DEF r, t
<1> QED
  BY <1>2, <1>3

LEMMA DestroyedServed ==
  ASSUME NEW s, Typed(s), NEW w \in WebStates, w # s.active,
         NEW ans, Served(s, ans)
  PROVE  /\ Served(Destroyed(s, w), ans)
         /\ \A b : RequestFrom(b, s) => RequestFrom(b, Destroyed(s, w))
<1> DEFINE t == Destroyed(s, w)
<1>1. /\ SameTabs(s, t) /\ t.presenting = s.presenting
      /\ t.request = s.request /\ t.ui = s.ui /\ t.failed = s.failed
      /\ t.queue[w] = << >>
      /\ \A v \in WebStates \ {w} : t.queue[v] = s.queue[v]
  BY DestroyedEffect
<1> HIDE DEF t
<1>2. QueuedOnce(s) /\ InLine(s) /\ Answered(s, ans) /\ NothingForgotten(s)
  BY DEF Served, Lined
<1>3. ToSet(t.queue[w]) = {} /\ IsInjective(t.queue[w])
  BY <1>1 DEF ToSet, IsInjective
<1>4. Shrinks(s, t)
  BY <1>1, <1>3 DEF Shrinks
<1>5. QueuedOnce(t)
  <2>1. \A v \in WebStates : IsInjective(t.queue[v])
    BY <1>1, <1>2, <1>3 DEF QueuedOnce
  <2> QED
    BY <1>2, <1>4, <2>1, OnceOfQueues
<1>6. GetActiveRequest(t) = GetActiveRequest(s)
  <2>1. s.active \in WebStates \union {None}
    BY DEF Typed, OverlayStates
  <2> QED
    BY <1>1, <2>1 DEF GetActiveRequest, FrontRequest, SameTabs
<1>7. InLine(t)
  BY <1>1, <1>2, <1>4, <1>6, QueuedShrinks DEF InLine
<1>8. Answered(t, ans)
  BY <1>1, <1>2, <1>4, QueuedShrinks DEF Answered
<1>9. NothingForgotten(t)
  BY <1>1, <1>2, <1>6 DEF NothingForgotten, SameTabs
<1> QED
  BY <1>1, <1>5, <1>6, <1>7, <1>8, <1>9 DEF Served, Lined, RequestFrom, t

(***************************************************************************)
(* What holds while nothing interferes.                                    *)
(***************************************************************************)
ServedInv ==
  interference = {} /\ overlays.context =>
    /\ Served(overlays, answered)
    /\ overlays.request \in ToSet(asked) \union {None}

LEMMA InitServed == Init => ServedInv
<1> SUFFICES ASSUME Init PROVE ServedInv
  OBVIOUS
<1>1. /\ \A w \in WebStates : overlays.queue[w] = << >>
      /\ overlays.active = None /\ overlays.request = None /\ answered = {}
      /\ ~overlays.container
  BY DEF Init
<1>2. \A w \in WebStates : /\ ToSet(overlays.queue[w]) = {}
                           /\ IsInjective(overlays.queue[w])
  BY <1>1 DEF ToSet, IsInjective
<1>3. QueuedOnce(overlays) /\ \A r : ~Queued(overlays, r)
  BY <1>2 DEF QueuedOnce, Queued
<1> QED
  BY <1>1, <1>3
     DEF ServedInv, Served, Lined, InLine, Answered, NothingForgotten

LEMMA InsertKeepsServed ==
  ASSUME SafeInv, SteadyInv, ServedInv, interference = {},
         NEW w \in WebStates, NEW r \in Requests,
         NEW i \in 1 .. Len(overlays.queue[w]) + 1, InsertRequest(w, r, i)
  PROVE  Served(overlays', answered') /\ RequestFrom(overlays, overlays')
<1> DEFINE s == Inserted(overlays, w, r, i)
           t == RequestAddedToQueue(s, w, r)
<1>1. /\ Running /\ r \notin ToSet(asked) /\ answered' = answered
      /\ overlays' = (IF Observed(w) THEN t ELSE s)
      /\ i = 1 => overlays.queue[w] = << >>
  BY DEF InsertRequest, Inserted
<1>2. /\ Typed(overlays) /\ overlays.context /\ Consistent(overlays)
      /\ Observed(w) \/ w # overlays.active
  BY <1>1, SafeFacts
<1>3. /\ \A v \in WebStates : r \notin ToSet(overlays.queue[v])
      /\ answered \subseteq ToSet(asked) /\ ToSet(asked) \subseteq Requests
  <2>1. asked \in Seq(Requests) /\ answered \subseteq ToSet(asked)
    BY DEF SafeInv, TypeOK
  <2>2. ToSet(asked) \subseteq Requests
    BY <2>1 DEF ToSet
  <2> QED
    BY <1>1, <2>1, <2>2 DEF SafeInv, QueuedWereAsked
<1>4. /\ Steady(overlays) /\ Served(overlays, answered)
      /\ overlays.request # r
  BY <1>1, <1>2, NoneAssumption DEF SteadyInv, ServedInv
<1>5. answered \subseteq Requests \ {r}
  BY <1>1, <1>3
<1>6. Served(t, answered) /\ (w # overlays.active => Served(s, answered))
  BY <1>1, <1>2, <1>3, <1>4, <1>5, InsertServed
<1>7. Typed(s) /\ s.context /\ s.request = overlays.request
  BY <1>2, InsertedEffect DEF SameTabs
<1> HIDE DEF s
<1>8. RequestFrom(s, t)
  BY <1>7, InsertFrom
<1> HIDE DEF t
<1> QED
  BY <1>1, <1>2, <1>6, <1>7, <1>8 DEF RequestFrom

LEMMA DetachKeepsServed ==
  ASSUME NEW s, Typed(s), s.context, Steady(s), Consistent(s),
         NEW ans, Served(s, ans), ans \subseteq Requests,
         NEW w \in WebStates, NEW next \in WebStates \union {None}, next # w,
         w = s.active => NoneLeaving(s)
  PROVE  LET t == Destroyed(IF w = s.active THEN SetActiveWebState(s, next, TRUE)
                            ELSE CancelOverlayUI(s, FrontRequest(s, w)), w) IN
         Served(t, ans) /\ RequestFrom(s, t)
<1> DEFINE b == IF w = s.active THEN SetActiveWebState(s, next, TRUE)
                ELSE CancelOverlayUI(s, FrontRequest(s, w))
<1>1. ~s.failed
  BY DEF Steady
<1>2. /\ Typed(b) /\ b.active # w
      /\ Served(b, ans) /\ RequestFrom(s, b)
  <2>1. CASE w = s.active
    <3>1. b = SetActiveWebState(s, next, TRUE)
      BY <2>1
    <3> HIDE DEF b
    <3>2. Typed(b) /\ b.active = next
      BY <1>1, <3>1, SetActiveConsistent
    <3>3. Served(b, ans)
      BY <2>1, <3>1, SetActiveServed
    <3>4. RequestFrom(s, b)
      BY <1>1, <3>1, SetActiveFrom
    <3> QED
      BY <3>2, <3>3, <3>4
  <2>2. CASE w # s.active
    <3>1. b = CancelOverlayUI(s, FrontRequest(s, w))
      BY <2>2
    <3> HIDE DEF b
    <3>2. Served(b, ans) /\ Typed(b) /\ SameTabs(s, b) /\ b.request = s.request
      BY <2>2, <3>1, LeftServed
    <3> QED
      BY <2>2, <3>2 DEF SameTabs, RequestFrom
  <2> QED
    BY <2>1, <2>2
<1> HIDE DEF b
<1>3. Served(Destroyed(b, w), ans) /\ RequestFrom(s, Destroyed(b, w))
  BY <1>2, DestroyedServed
<1> QED
  BY <1>3 DEF b

LEMMA AskedGrows ==
  ASSUME SafeInv, [Next]_vars
  PROVE  ToSet(asked) \subseteq ToSet(asked')
<1>1. asked' = asked \/ \E r \in Requests : asked' = Append(asked, r)
  BY DEF Next, vars, InsertRequest, CancelRequest, DidFinishNavigation,
         CancelAllRequests, WebStateInserted, WebStateActivated,
         WebStateClosed, WebStateReplaced, StopOverlayForMediator,
         ContainedPresenterDidDismiss, SetCoordinator, WindowDidChange,
         BrowserDestroyed, Ended
<1>2. asked \in Seq(Requests)
  BY DEF SafeInv, TypeOK
<1> QED
  BY <1>1, <1>2, AppendAdds

LEMMA ShutdownTakesContext ==
  ASSUME SafeInv, BrowserDestroyed
  PROVE  ~overlays'.context
<1> DEFINE s == CancelAllOverlayUI(overlays, SetToSeq(Open))
           b == WithoutContext(overlays)
<1>1. /\ Typed(overlays) /\ overlays.context /\ ~overlays.failed
      /\ Consistent(overlays) /\ overlays.active \in Open \union {None}
      /\ Open \in SUBSET WebStates /\ IsFiniteSet(Open)
  BY SafeFacts DEF SafeInv, BrowserDestroyed, Open
<1>2. Typed(s)
  BY <1>1, ShutdownShowsNothing
<1>3. b = [s EXCEPT !.context = FALSE, !.presenting = FALSE,
                    !.presented = None]
  BY DEF WithoutContext
<1> HIDE DEF s, b
<1>4. Typed(b) /\ ~b.context
  BY <1>2, <1>3 DEF Typed, OverlayStates
<1>5. overlays' = [b EXCEPT !.active = None]
  BY <1>4 DEF BrowserDestroyed, SetActiveWebState, b
<1> QED
  BY <1>4, <1>5 DEF Typed, OverlayStates

LEMMA NextServed ==
  ASSUME SafeInv, SteadyInv, ServedInv, [Next]_vars
  PROVE  ServedInv'
<1>1. interference' = interference /\ (~Running => UNCHANGED vars)
  BY DEF Next, vars, InsertRequest, CancelRequest, DidFinishNavigation,
         CancelAllRequests, WebStateInserted, WebStateActivated,
         WebStateClosed, WebStateReplaced, StopOverlayForMediator,
         ContainedPresenterDidDismiss, SetCoordinator, WindowDidChange,
         BrowserDestroyed, Ended
<1>2. CASE UNCHANGED vars
  BY <1>2 DEF ServedInv, vars
<1>3. CASE ~(interference = {} /\ overlays'.context)
  BY <1>1, <1>3 DEF ServedInv
<1> SUFFICES ASSUME interference = {}, overlays'.context, Running,
                    ~UNCHANGED vars
             PROVE  ServedInv'
  BY <1>1, <1>2, <1>3
<1> DEFINE s == overlays
           Goal == Served(overlays', answered') /\ RequestFrom(s, overlays')
<1>4. SafeInv' /\ SteadyInv'
  BY NextSafe, NextSteady
<1>5. /\ Typed(s) /\ s.context /\ ~s.failed /\ Consistent(s)
      /\ s.active \in WebStates \union {None}
      /\ \A w \in WebStates : Observed(w) \/ w # s.active
  BY SafeFacts DEF Open
<1>6. /\ Steady(s) /\ Served(s, answered)
      /\ s.request \in ToSet(asked) \union {None}
  BY <1>5 DEF SteadyInv, ServedInv
<1>7. /\ answered \subseteq Requests /\ asked \in Seq(Requests)
      /\ \A w \in WebStates : /\ s.queue[w] \in Seq(Requests)
                              /\ ToSet(s.queue[w]) \subseteq ToSet(asked)
  <2>1. asked \in Seq(Requests) /\ answered \subseteq ToSet(asked)
    BY DEF SafeInv, TypeOK
  <2>2. ToSet(asked) \subseteq Requests
    BY <2>1 DEF ToSet
  <2> QED
    BY <1>5, <2>1, <2>2 DEF SafeInv, QueuedWereAsked, Typed, OverlayStates
<1>8. (Allowed("switch") \/ Allowed("container")) => NoneLeaving(s)
  BY DEF Allowed, Leaving, NoneLeaving
<1>9. ASSUME Goal PROVE ServedInv'
  <2>1. ~overlays'.failed /\ Typed(overlays')
    <3>1. interference' = {}
      BY <1>1
    <3> QED
      BY <1>4, <3>1 DEF SafeInv, SteadyInv, TypeOK, Typed
  <2>2. overlays'.request \in {s.request, None, GetActiveRequest(overlays')}
    BY <1>9, <2>1 DEF RequestFrom
  <2>3. GetActiveRequest(overlays') \in ToSet(asked') \union {None}
    <3>1. ASSUME GetActiveRequest(overlays') # None
          PROVE  GetActiveRequest(overlays') \in ToSet(asked')
      <4>1. Queued(overlays', GetActiveRequest(overlays'))
        BY <2>1, <3>1, ActiveIsQueued
      <4> QED
        BY <1>4, <4>1 DEF SafeInv, QueuedWereAsked, Queued
    <3> QED
      BY <3>1
  <2> QED
    BY <1>6, <1>9, <2>2, <2>3, AskedGrows DEF ServedInv
<1>10. ASSUME NEW w \in WebStates, NEW r \in Requests,
              NEW i \in 1 .. Len(overlays.queue[w]) + 1, InsertRequest(w, r, i)
       PROVE  Goal
  BY <1>10, InsertKeepsServed
<1>11. ASSUME NEW w \in WebStates, NEW r \in Requests, CancelRequest(w, r)
       PROVE  Goal
  BY <1>11 DEF CancelRequest
<1>12. ASSUME NEW w \in WebStates, DidFinishNavigation(w) \/ CancelAllRequests(w)
       PROVE  Goal
  <2>1. PICK rs \in Seq(Requests) : /\ overlays' = CancelledAll(w, s, rs)
                                    /\ ToSet(s.queue[w]) \subseteq ToSet(rs)
    <3>1. /\ Reverse(s.queue[w]) \in Seq(Requests)
          /\ ToSet(Reverse(s.queue[w])) = ToSet(s.queue[w])
      BY <1>7, ReverseType
    <3> QED
      BY <1>7, <1>12, <3>1 DEF DidFinishNavigation, CancelAllRequests
  <2> DEFINE t == CancelledAll(w, s, rs)
  <2>2. Served(t, answered) /\ t.request \in {s.request, None}
    BY <1>5, <1>6, <1>7, <2>1, CancelledAllServed
  <2>3. answered' = answered
    BY <1>12 DEF DidFinishNavigation, CancelAllRequests
  <2> QED
    BY <2>1, <2>2, <2>3 DEF RequestFrom
<1>13. ASSUME NEW w \in WebStates, Allowed("switch"), answered' = answered,
              overlays' = SetActiveWebState(s, w, FALSE)
       PROVE  Goal
  <2>1. Served(overlays', answered)
    BY <1>5, <1>6, <1>7, <1>8, <1>13, SetActiveServed
  <2>2. RequestFrom(s, overlays')
    BY <1>5, <1>13, SetActiveFrom
  <2> QED
    BY <1>13, <2>1, <2>2
<1>14. ASSUME NEW w \in WebStates, NEW activating \in BOOLEAN,
              WebStateInserted(w, activating)
       PROVE  Goal
  <2>1. CASE activating
    BY <1>13, <1>14, <2>1 DEF WebStateInserted
  <2>2. CASE ~activating
    BY <1>6, <1>14, <2>2 DEF WebStateInserted, RequestFrom
  <2> QED
    BY <2>1, <2>2
<1>15. ASSUME NEW w \in WebStates, WebStateActivated(w)
       PROVE  Goal
  BY <1>13, <1>15 DEF WebStateActivated
<1>16. ASSUME NEW w \in WebStates, NEW next \in WebStates \union {None},
              next # w, w = s.active => Allowed("switch"), answered' = answered,
              overlays' = Destroyed(
                IF w = s.active THEN SetActiveWebState(s, next, TRUE)
                ELSE CancelOverlayUI(s, FrontRequest(s, w)), w)
       PROVE  Goal
  BY <1>5, <1>6, <1>7, <1>8, <1>16, DetachKeepsServed
<1>17. ASSUME NEW w \in WebStates, WebStateClosed(w) PROVE Goal
  <2>1. \E next \in (Open \ {w}) \union {None} :
          overlays' = Destroyed(
            IF w = s.active THEN SetActiveWebState(s, next, TRUE)
            ELSE CancelOverlayUI(s, FrontRequest(s, w)), w)
    BY <1>17 DEF WebStateClosed
  <2>2. answered' = answered /\ (w = s.active => Allowed("switch"))
    BY <1>17 DEF WebStateClosed
  <2> QED
    BY <1>16, <2>1, <2>2, NoneAssumption DEF Open
<1>18. ASSUME NEW w \in WebStates, NEW new \in WebStates,
              WebStateReplaced(w, new)
       PROVE  Goal
  <2>1. /\ new # w /\ answered' = answered
        /\ w = s.active => Allowed("switch")
        /\ overlays' = Destroyed(
             IF w = s.active THEN SetActiveWebState(s, new, TRUE)
             ELSE CancelOverlayUI(s, FrontRequest(s, w)), w)
    BY <1>18 DEF WebStateReplaced, Open
  <2> QED
    BY <1>16, <2>1
<1>19. ASSUME NEW r \in Requests, StopOverlayForMediator(r) PROVE Goal
  <2>1. /\ s.ui[r].coordinator = "started"
        /\ overlays' = [s EXCEPT !.ui[r].coordinator = "leaving"]
        /\ answered' = answered \union {r}
    BY <1>19 DEF StopOverlayForMediator
  <2>2. Served(overlays', answered')
    BY <1>5, <1>6, <1>7, <2>1, AnsweredServed
  <2>3. overlays'.request = s.request
    BY <1>5, <2>1 DEF Typed, OverlayStates
  <2> QED
    BY <2>2, <2>3 DEF RequestFrom
<1>20. ASSUME NEW r \in Requests, ContainedPresenterDidDismiss(r) PROVE Goal
  <2>1. /\ s.ui[r].coordinator = "leaving" /\ answered' = answered
        /\ overlays' = OverlayUIDidFinishDismissal(s, r)
    BY <1>20 DEF ContainedPresenterDidDismiss, Leaving
  <2>2. Served(overlays', answered)
    BY <1>5, <1>6, <1>7, <2>1, EndServed
  <2>3. s.ui[r] # NoUI
    BY <2>1 DEF NoUI
  <2>4. RequestFrom(s, overlays')
    BY <1>5, <2>1, <2>3, EndFrom
  <2> QED
    BY <2>1, <2>2, <2>4
<1>21. ASSUME SetCoordinator \/ WindowDidChange PROVE Goal
  <2>1. PICK on \in BOOLEAN :
          /\ overlays' = UpdateForCoordinator(s, on)
          /\ Allowed("container") /\ answered' = answered
    <3>1. (~s.container) \in BOOLEAN
      BY <1>5 DEF Typed, OverlayStates
    <3> QED
      BY <1>21, <3>1 DEF SetCoordinator, WindowDidChange
  <2>2. Served(overlays', answered)
    BY <1>5, <1>6, <1>7, <1>8, <2>1, CoordinatorServed
  <2>3. RequestFrom(s, overlays')
    BY <1>5, <2>1, CoordinatorFrom
  <2> QED
    BY <2>1, <2>2, <2>3
<1>22. ~BrowserDestroyed
  BY ShutdownTakesContext
<1>23. ~Ended
  BY DEF Ended
<1> HIDE DEF Goal, s
<1> QED
  BY <1>9, <1>10, <1>11, <1>12, <1>14, <1>15, <1>17, <1>18, <1>19, <1>20,
     <1>21, <1>22, <1>23 DEF Next

(***************************************************************************)
(* Ordinarily no request is forgotten: a presenter with a container that   *)
(* presents nothing has nothing to present, whatever ended the last        *)
(* dialog.  A request that is cancelled by itself is another matter: its   *)
(* dismissal finds it still in front (overlay_presenter_impl.mm:278).      *)
(***************************************************************************)
THEOREM NothingIsForgotten ==
  Spec => [](interference = {} => NoRequestIsForgotten)
<1>1. Init => SafeInv /\ SteadyInv /\ ServedInv
  BY InitSafe, InitSteady, InitServed
<1>2. SafeInv /\ SteadyInv /\ ServedInv /\ [Next]_vars
      => (SafeInv /\ SteadyInv /\ ServedInv)'
  BY NextSafe, NextSteady, NextServed
<1>3. ServedInv => (interference = {} => NoRequestIsForgotten)
  BY DEF ServedInv, Served, NothingForgotten, NoRequestIsForgotten, Running
<1> QED
  BY <1>1, <1>2, <1>3, PTL DEF Spec

(***************************************************************************)
(* Ordinarily a dialog the user has answered is never shown again: its     *)
(* request is the context's as long as it is queued, and in front then, so *)
(* that the end of the animation takes it out of the queue                 *)
(* (overlay_dismissal_callback.h).                                         *)
(***************************************************************************)
THEOREM AnswersAreFinal ==
  Spec => [](interference = {} => AnsweredStaysAnswered)
<1>1. Init => SafeInv /\ SteadyInv /\ ServedInv
  BY InitSafe, InitSteady, InitServed
<1>2. SafeInv /\ SteadyInv /\ ServedInv /\ [Next]_vars
      => (SafeInv /\ SteadyInv /\ ServedInv)'
  BY NextSafe, NextSteady, NextServed
<1>3. SafeInv /\ ServedInv => (interference = {} => AnsweredStaysAnswered)
  BY DEF SafeInv, ServedInv, Served, Lined, Answered, NoneShown,
         AnsweredStaysAnswered, OnScreen
<1> QED
  BY <1>1, <1>2, <1>3, PTL DEF Spec
=============================================================================
