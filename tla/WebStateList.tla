---------------------------- MODULE WebStateList ----------------------------
(***************************************************************************)
(* WebStateList, the model of the tabs of one browser window, with the     *)
(* order controller that decides where a tab opens and which tab becomes   *)
(* active when the active one goes, and with the session a list is saved   *)
(* to and restored from.                                                   *)
(*                                                                         *)
(* All of it runs on the UI thread: a public method is one action, the     *)
(* notifications it sends and what the observers do with them included.    *)
(* The two batch operations (closing every tab, restoring a session) are   *)
(* loops over public methods, and a step of the loop is an action, so that *)
(* the properties hold of every list an observer can see.                  *)
(*                                                                         *)
(* Indices are those of TLA+ sequences: index i of the code is i + 1 here  *)
(* and WebStateList::kInvalidIndex (-1) is 0.                              *)
(***************************************************************************)
EXTENDS WebStateListObservers, FiniteSetsExt

CONSTANTS
  WebStates,        \* the web::WebState objects, in the list or not
  MaxNavIndex,      \* bound on the index of a committed navigation item
  StoredSessions,   \* sessions that may be found on disk at launch
  MaxSavedTabs,     \* bound on the tabs of a session saved for undo
  ReplaceAnyIndex   \* whether an inactive WebState may be replaced

NavIndices == -1 .. MaxNavIndex

Openers == [ws : WebStates \union {None}, nav : NavIndices]

NoOpener == [ws |-> None, nav |-> -1]

(***************************************************************************)
(* A SessionWindowIOS: per tab, what CRWSessionStorage keeps of its        *)
(* opener (0 when it has none), and the selected index (0: NSNotFound).    *)
(***************************************************************************)
StoredTabs == [opener : Nat, openerNav : NavIndices, nav : NavIndices]

SessionWindows == [tabs : Seq(StoredTabs), selected : Nat]

NoSession == [tabs |-> << >>, selected |-> 0]

ASSUME NoneAssumption == None \notin WebStates
ASSUME NavAssumption == MaxNavIndex \in Nat
ASSUME SessionAssumption ==
  /\ StoredSessions \subseteq SessionWindows
  /\ \A s \in StoredSessions : s.selected <= Len(s.tabs)
ASSUME SavedAssumption == MaxSavedTabs \in Nat
ASSUME ReplaceAssumption == ReplaceAnyIndex \in BOOLEAN

VARIABLES
  list,         \* web_state_wrappers_, without the openers
  opener,       \* the opener of each wrapper, by its WebState
  activeIndex,  \* active_index_
  navIndex,     \* GetLastCommittedItemIndex() of each WebState
  observers,    \* the state of the list's observers
  batch,        \* the batch operation in progress
  session       \* the session saved for undo, or read at launch

vars == << list, opener, activeIndex, navIndex, observers, batch, session >>

Idle == [phase |-> "idle", oldCount |-> 0]

Phases == {"idle", "closing", "inserting", "openers", "activating", "ended"}

-----------------------------------------------------------------------------
(* The list's accessors.                                                   *)

Tabs == ToSet(list)

ActiveAt(l, i) == IF i = 0 THEN None ELSE l[i]

GetActiveWebState == ActiveAt(list, activeIndex)

GetIndexOfWebState(w) ==
  IF w \in Tabs THEN CHOOSE i \in 1 .. Len(list) : list[i] = w ELSE 0

\* WebStateOpener(web_state): the opener and where its navigation stands.
WebStateOpener(w) ==
  IF w = None THEN NoOpener ELSE [ws |-> w, nav |-> navIndex[w]]

WasOpenedBy(i, w, useGroup) ==
  /\ opener[list[i]].ws = w
  /\ useGroup => opener[list[i]].nav = navIndex[w]

\* The indices after "start" of the WebStates opened by w.
OpenedAfter(w, start, useGroup) ==
  {i \in start + 1 .. Len(list) : WasOpenedBy(i, w, useGroup)}

\* GetIndexOfNthWebStateOpenedBy with n = 1: the first of them.
GetIndexOfNextWebStateOpenedBy(w, start) ==
  LET opened == OpenedAfter(w, start, FALSE)
  IN  IF opened = {} THEN 0 ELSE Min(opened)

\* Mutant: the first of the group instead of the last.
LastOpenedBy_First(w, start) ==
  LET opened == OpenedAfter(w, start, TRUE)
  IN  IF opened = {} THEN 0 ELSE Min(opened)

\* With n = INT_MAX: the end of the first contiguous run of them.
GetIndexOfLastWebStateOpenedBy(w, start) ==
  LET opened == OpenedAfter(w, start, TRUE)
      run    == {i \in opened : Min(opened) .. i \subseteq opened}
  IN  IF opened = {} THEN 0 ELSE Max(run)

-----------------------------------------------------------------------------
(* The order controller.                                                   *)

DetermineInsertionIndex(w) ==
  LET last == GetIndexOfLastWebStateOpenedBy(w, GetIndexOfWebState(w))
  IN  CASE w = None  -> Len(list) + 1
        [] w # None /\ last # 0 -> last + 1
        [] w # None /\ last = 0 -> GetIndexOfWebState(w) + 1

\* Mutant: the index is not adjusted to the shortened list.
ValidIndex_Unadjusted(index, removing) == index

\* An index of the list, as an index of the list without "removing".
GetValidIndex(index, removing) ==
  IF removing < index THEN index - 1 ELSE index

\* Mutant: no fallback to the opener after its last child.
NewActiveIndex_NoFallback(removing) ==
  LET parent  == opener[list[removing]].ws
      child   == GetIndexOfNextWebStateOpenedBy(list[removing], removing)
      sibling == GetIndexOfNextWebStateOpenedBy(parent, removing)
  IN  CASE child # 0 -> GetValidIndex(child, removing)
        [] child = 0 /\ parent # None -> GetValidIndex(sibling, removing)
        [] child = 0 /\ parent = None ->
             IF removing = Len(list) THEN removing - 1 ELSE removing

\* Mutant: the siblings are looked for before the children.
NewActiveIndex_SiblingFirst(removing) ==
  LET parent  == opener[list[removing]].ws
      child   == GetIndexOfNextWebStateOpenedBy(list[removing], removing)
      sibling == GetIndexOfNextWebStateOpenedBy(parent, removing)
  IN  CASE parent # None /\ sibling # 0 -> GetValidIndex(sibling, removing)
        [] parent # None /\ sibling = 0 ->
             GetValidIndex(GetIndexOfWebState(parent), removing)
        [] parent = None /\ child # 0 -> GetValidIndex(child, removing)
        [] parent = None /\ child = 0 ->
             IF removing = Len(list) THEN removing - 1 ELSE removing

DetermineNewActiveIndex(removing) ==
  LET parent  == opener[list[removing]].ws
      child   == GetIndexOfNextWebStateOpenedBy(list[removing], removing)
      sibling == GetIndexOfNextWebStateOpenedBy(parent, removing)
  IN  CASE child # 0 -> GetValidIndex(child, removing)
        [] child = 0 /\ parent # None /\ sibling # 0 ->
             GetValidIndex(sibling, removing)
        [] child = 0 /\ parent # None /\ sibling = 0 ->
             GetValidIndex(GetIndexOfWebState(parent), removing)
        [] child = 0 /\ parent = None ->
             IF removing = Len(list) THEN removing - 1 ELSE removing

-----------------------------------------------------------------------------
(* The list's operations, as parameterised actions.                        *)

\* The effect of InsertWebState once index and opener are settled.
InsertAtIndex(w, index, by, activating) ==
  LET shifted == IF activeIndex >= index THEN activeIndex + 1 ELSE activeIndex
      told    == WebStateInsertedAt(observers, w, index,
                                    ActiveAt(InsertAt(list, index, w), shifted))
  IN  /\ list' = InsertAt(list, index, w)
      /\ opener' = [opener EXCEPT ![w] = by]
      /\ activeIndex' = IF activating THEN index ELSE shifted
      /\ observers' =
           IF activating
           THEN NotifyIfActiveWebStateChanged(told, GetActiveWebState, w)
           ELSE told

\* Mutant: the opener is inherited after the activation.
InsertWebStateAt_LateOpener(w, index, flags, parent) ==
  LET late == IF "ACTIVATE" \in flags THEN w ELSE GetActiveWebState
      by   == WebStateOpener(IF "INHERIT_OPENER" \in flags THEN late ELSE parent)
  IN  /\ InsertAtIndex(w, index, by, "ACTIVATE" \in flags)
      /\ navIndex' = [navIndex EXCEPT ![w] = -1]
      /\ UNCHANGED << batch, session >>

\* InsertWebState with INSERT_FORCE_INDEX: the caller chooses the index.
InsertWebStateAt(w, index, flags, parent) ==
  LET by == WebStateOpener(IF "INHERIT_OPENER" \in flags
                           THEN GetActiveWebState ELSE parent)
  IN  /\ InsertAtIndex(w, index, by, "ACTIVATE" \in flags)
      /\ navIndex' = [navIndex EXCEPT ![w] = -1]
      /\ UNCHANGED << batch, session >>

\* Without it the order controller does.
InsertWebState(w, flags, parent) ==
  LET by == IF "INHERIT_OPENER" \in flags THEN GetActiveWebState ELSE parent
  IN  InsertWebStateAt(w, DetermineInsertionIndex(by), flags, parent)

\* Mutant: a WebState that moves from behind the active one does not shift it.
MovedActiveIndex_OneWay(from, to) ==
  CASE activeIndex = from -> to
    [] activeIndex # from /\ activeIndex \in from .. to -> activeIndex - 1
    [] OTHER -> activeIndex

\* Mutant: an index of the list that still holds the moved WebState.
MovedActiveIndex_Gap(from, to) ==
  CASE activeIndex = from -> IF from < to THEN to + 1 ELSE to
    [] activeIndex # from /\ activeIndex \in from .. to -> activeIndex - 1
    [] activeIndex # from /\ activeIndex \in to .. from -> activeIndex + 1
    [] OTHER -> activeIndex

\* The index of the active WebState once "from" has moved to "to".
MovedActiveIndex(from, to) ==
  CASE activeIndex = from -> to
    [] activeIndex # from /\ activeIndex \in from .. to -> activeIndex - 1
    [] activeIndex # from /\ activeIndex \in to .. from -> activeIndex + 1
    [] OTHER -> activeIndex

MoveWebStateAt(from, to) ==
  /\ from # to
  /\ list' = InsertAt(RemoveAt(list, from), to, list[from])
  /\ activeIndex' = MovedActiveIndex(from, to)
  /\ observers' = WebStateMoved(observers, list[from], to)
  /\ UNCHANGED << opener, navIndex, batch, session >>

\* Mutant: the openers that reference w are not cleared.
OpenersWithout_Dangling(w) == [opener EXCEPT ![w] = NoOpener]

\* The openers once ClearOpenersReferencing and the wrapper dropped w.
OpenersWithout(w) ==
  [x \in WebStates |->
     IF x = w \/ opener[x].ws = w THEN NoOpener ELSE opener[x]]

(***************************************************************************)
(* ReplaceWebStateAt reports the replaced WebState as the one that was     *)
(* active, whichever index it was at.                                      *)
(***************************************************************************)
ReplaceWebStateAt(index, w) ==
  LET old       == list[index]
      newActive == IF index = activeIndex THEN w ELSE GetActiveWebState
      told      == WebStateReplacedAt(observers, old, w)
  IN  /\ list' = [list EXCEPT ![index] = w]
      /\ opener' = OpenersWithout(old)
      /\ navIndex' = [navIndex EXCEPT ![old] = -1]
      /\ observers' = NotifyIfActiveWebStateChanged(told, old, newActive)
      /\ UNCHANGED << activeIndex, batch, session >>

\* Mutant: the fix clears the selection.
ActiveIndexAfterDetach_Clears(index) ==
  LET chosen == DetermineNewActiveIndex(index)
  IN  CASE activeIndex > index -> activeIndex - 1
        [] activeIndex < index -> activeIndex
        [] activeIndex = index ->
             IF chosen \in 0 .. Len(list) - 1 THEN chosen ELSE 0

\* active_index_ after the WebState at "index" is erased; the branch for an
\* index the shortened list does not have is the code's speculative fix.
ActiveIndexAfterDetach(index) ==
  LET chosen == DetermineNewActiveIndex(index)
  IN  CASE activeIndex > index -> activeIndex - 1
        [] activeIndex < index -> activeIndex
        [] activeIndex = index ->
             IF chosen \in 0 .. Len(list) - 1 THEN chosen ELSE Len(list) - 1

\* Mutant: no notification when the last tab goes and none becomes active.
DetachWebStateAt_SilentLast(index) ==
  LET w         == list[index]
      newIndex  == ActiveIndexAfterDetach(index)
      newActive == ActiveAt(RemoveAt(list, index), newIndex)
      told      == WebStateDetachedAt(observers, w, newActive)
  IN  /\ list' = RemoveAt(list, index)
      /\ opener' = OpenersWithout(w)
      /\ activeIndex' = newIndex
      /\ navIndex' = [navIndex EXCEPT ![w] = -1]
      /\ observers' = IF index = activeIndex /\ newIndex # 0
                      THEN NotifyIfActiveWebStateChanged(told, w, newActive)
                      ELSE told

DetachWebStateAt(index) ==
  LET w         == list[index]
      newIndex  == ActiveIndexAfterDetach(index)
      newActive == ActiveAt(RemoveAt(list, index), newIndex)
      told      == WebStateDetachedAt(observers, w, newActive)
  IN  /\ list' = RemoveAt(list, index)
      /\ opener' = OpenersWithout(w)
      /\ activeIndex' = newIndex
      /\ navIndex' = [navIndex EXCEPT ![w] = -1]
      /\ observers' = IF index = activeIndex
                      THEN NotifyIfActiveWebStateChanged(told, w, newActive)
                      ELSE told

ActivateIndex(index) ==
  /\ activeIndex' = index
  /\ observers' =
       NotifyIfActiveWebStateChanged(observers, GetActiveWebState, list[index])

-----------------------------------------------------------------------------
(* Saving and restoring a session.                                         *)

\* The tabs after the first "skipped", as SerializeWebStateList stores them.
StoredTabsAfter(skipped) ==
  [i \in 1 .. Len(list) - skipped |->
     LET w == list[skipped + i]
         o == GetIndexOfWebState(opener[w].ws)
     IN  [opener    |-> IF o = 0 THEN 0 ELSE o - skipped,
          openerNav |-> opener[w].nav,
          nav       |-> navIndex[w]]]

SerializeWebStateList ==
  [tabs |-> StoredTabsAfter(0), selected |-> activeIndex]

\* Mutant: the stored index is taken for an index of the whole list.
RestoredOpener_NoOffset(w) ==
  LET tab == session.tabs[GetIndexOfWebState(w) - batch.oldCount]
  IN  IF tab.opener \in 1 .. Len(list)
      THEN [ws |-> list[tab.opener], nav |-> tab.openerNav]
      ELSE opener[w]

\* The openers of the restored tabs: an index out of bounds is no opener.
RestoredOpener(w) ==
  LET tab == session.tabs[GetIndexOfWebState(w) - batch.oldCount]
  IN  IF tab.opener \in 1 .. Len(list) - batch.oldCount
      THEN [ws |-> list[tab.opener + batch.oldCount], nav |-> tab.openerNav]
      ELSE opener[w]

-----------------------------------------------------------------------------
\* INSERT_INHERIT_OPENER is given without an opener.
FlagsFor(parent) ==
  IF parent = None THEN SUBSET {"ACTIVATE", "INHERIT_OPENER"}
  ELSE SUBSET {"ACTIVATE"}

Init ==
  /\ list = << >>
  /\ opener = [w \in WebStates |-> NoOpener]
  /\ activeIndex = 0
  /\ navIndex = [w \in WebStates |-> -1]
  /\ observers = [active |-> << >>, all |-> {}, items |-> << >>, selected |-> None]
  /\ batch = Idle
  /\ session \in {NoSession} \union StoredSessions

\* A tab is opened by TabInsertionBrowserAgent, the tab grid or the restore
\* of a closed tab, at an index of its own or where its opener wants it.
Insert ==
  /\ batch = Idle
  /\ \E w \in WebStates \ Tabs, parent \in Tabs \union {None} :
       \E flags \in FlagsFor(parent), index \in 1 .. Len(list) + 1 :
         InsertWebStateAt(w, index, flags, parent)

InsertByOpener ==
  /\ batch = Idle
  /\ \E w \in WebStates \ Tabs, parent \in Tabs \union {None} :
       \E flags \in FlagsFor(parent) : InsertWebState(w, flags, parent)

Move ==
  /\ batch = Idle
  /\ \E from, to \in 1 .. Len(list) : MoveWebStateAt(from, to)

\* Every caller in the application replaces the active WebState.
Replace ==
  /\ batch = Idle
  /\ \E w \in WebStates \ Tabs, index \in 1 .. Len(list) :
       /\ ReplaceAnyIndex \/ index = activeIndex
       /\ ReplaceWebStateAt(index, w)

Detach ==
  /\ batch = Idle
  /\ \E index \in 1 .. Len(list) : DetachWebStateAt(index)
  /\ UNCHANGED << batch, session >>

Activate ==
  /\ batch = Idle
  /\ \E index \in 1 .. Len(list) : ActivateIndex(index)
  /\ UNCHANGED << list, opener, navIndex, batch, session >>

\* A navigation commits in a tab: its last committed item changes.
Navigate ==
  /\ batch = Idle
  /\ \E w \in Tabs, n \in 0 .. MaxNavIndex :
       navIndex' = [navIndex EXCEPT ![w] = n]
  /\ UNCHANGED << list, opener, activeIndex, observers, batch, session >>

\* CloseAllWebStates, from -closeAllItems, or from -saveAndCloseAllItems,
\* which first keeps a session to undo it with.
CloseAllWebStates ==
  /\ batch = Idle
  /\ list # << >>
  /\ \/ UNCHANGED session
     \/ Len(list) <= MaxSavedTabs /\ session' = SerializeWebStateList
  /\ batch' = [Idle EXCEPT !.phase = "closing"]
  /\ UNCHANGED << list, opener, activeIndex, navIndex, observers >>

CloseLast ==
  /\ batch.phase = "closing"
  /\ list # << >>
  /\ DetachWebStateAt(Len(list))
  /\ UNCHANGED << batch, session >>

ClosedAll ==
  /\ batch.phase = "closing"
  /\ list = << >>
  /\ batch' = Idle
  /\ UNCHANGED << list, opener, activeIndex, navIndex, observers, session >>

\* -discardSavedClosedItems
DiscardSession ==
  /\ batch = Idle
  /\ session # NoSession
  /\ session' = NoSession
  /\ UNCHANGED << list, opener, activeIndex, navIndex, observers, batch >>

\* DeserializeWebStateList, at launch or from -undoCloseAllItems.  The guard
\* on the number of tabs is a bound of the model: WebStates is finite.
Deserialize ==
  /\ batch = Idle
  /\ session # NoSession
  /\ Len(list) + Len(session.tabs) <= Cardinality(WebStates)
  /\ batch' = [phase |-> "inserting", oldCount |-> Len(list)]
  /\ UNCHANGED << list, opener, activeIndex, navIndex, observers, session >>

RestoreTab ==
  LET restored == Len(list) - batch.oldCount
  IN  /\ batch.phase = "inserting"
      /\ restored < Len(session.tabs)
      /\ \E w \in WebStates \ Tabs :
           /\ InsertAtIndex(w, Len(list) + 1, NoOpener, FALSE)
           /\ navIndex' =
                [navIndex EXCEPT ![w] = session.tabs[restored + 1].nav]
      /\ UNCHANGED << batch, session >>

RestoreOpeners ==
  /\ batch.phase = "inserting"
  /\ Len(list) - batch.oldCount = Len(session.tabs)
  /\ opener' = [w \in WebStates |->
                  IF GetIndexOfWebState(w) > batch.oldCount
                  THEN RestoredOpener(w) ELSE opener[w]]
  /\ batch' = [batch EXCEPT !.phase = "activating"]
  /\ UNCHANGED << list, activeIndex, navIndex, observers, session >>

RestoreSelection ==
  /\ batch.phase = "activating"
  /\ IF session.selected # 0
     THEN ActivateIndex(batch.oldCount + session.selected)
     ELSE UNCHANGED << activeIndex, observers >>
  /\ batch' = [batch EXCEPT !.phase = "ended"]
  /\ UNCHANGED << list, opener, navIndex, session >>

\* The batch ends and the mediator forgets the session it restored.
RestoreEnded ==
  /\ batch.phase = "ended"
  /\ batch' = Idle
  /\ session' = NoSession
  /\ UNCHANGED << list, opener, activeIndex, navIndex, observers >>

Next ==
  \/ Insert \/ InsertByOpener \/ Move \/ Replace \/ Detach \/ Activate \/ Navigate
  \/ CloseAllWebStates \/ CloseLast \/ ClosedAll \/ DiscardSession
  \/ Deserialize \/ RestoreTab \/ RestoreOpeners
  \/ RestoreSelection \/ RestoreEnded

Spec == Init /\ [][Next]_vars

-----------------------------------------------------------------------------
(***************************************************************************)
(* Every variable keeps to its type; in particular active_index_ is an     *)
(* index of web_state_wrappers_ or kInvalidIndex.                          *)
(***************************************************************************)
TypeOK ==
  /\ list \in Seq(WebStates)
  /\ opener \in [WebStates -> Openers]
  /\ activeIndex \in 0 .. Len(list)
  /\ navIndex \in [WebStates -> NavIndices]
  /\ batch \in [phase : Phases, oldCount : Nat]
  /\ session \in SessionWindows

(***************************************************************************)
(* The list holds raw pointers to the openers of its tabs.  A WebState is  *)
(* destroyed when it leaves the list, so an opener must be in the list     *)
(* too, whatever closed, replaced or restored the tabs in between: what    *)
(* ClearOpenersReferencing is for.                                         *)
(***************************************************************************)
NoDanglingOpener ==
  /\ \A w \in Tabs : opener[w].ws \in Tabs \union {None}
  /\ \A w \in WebStates \ Tabs : opener[w] = NoOpener

\* A WebState is owned by the list once: it is at one index only, through
\* every interleaving of insertions, moves and restores.
NoDuplicates == IsInjective(list)

(***************************************************************************)
(* How far a restore has come: the tabs after the first oldCount are the   *)
(* first of the session, and all of them once its openers are set.  This   *)
(* is what keeps the restored selection inside the list.                   *)
(***************************************************************************)
RestoreProgress ==
  /\ session.selected <= Len(session.tabs)
  /\ batch.oldCount <= Len(list)
  /\ batch.phase = "inserting" =>
       Len(list) - batch.oldCount <= Len(session.tabs)
  /\ batch.phase \in {"activating", "ended"} =>
       Len(list) - batch.oldCount = Len(session.tabs)
  /\ batch.phase \in {"idle", "closing"} => batch.oldCount = 0

\* The inductive invariant of the proofs.
IInv == TypeOK /\ NoDuplicates /\ NoDanglingOpener /\ RestoreProgress

(***************************************************************************)
(* No set of tabs is closed under taking openers: a chain of openers ends  *)
(* at a tab nothing opened, and no tab is its own opener (the state of     *)
(* crbug.com/960628, which sends DetermineNewActiveIndex astray).          *)
(***************************************************************************)
OpenersAreAcyclic ==
  \A S \in SUBSET Tabs : S # {} => \E w \in S : opener[w].ws \notin S

\* The same of the openers a session stores.
AcyclicSession(s) ==
  \A I \in SUBSET (1 .. Len(s.tabs)) :
    I # {} => \E i \in I : s.tabs[i].opener \notin I

\* A tab being restored has no opener until all of them are restored.
RestoredHaveNoOpener ==
  batch.phase = "inserting" =>
    \A i \in batch.oldCount + 1 .. Len(list) : opener[list[i]] = NoOpener

\* What makes OpenersAreAcyclic inductive.
AcyclicInv ==
  /\ IInv
  /\ OpenersAreAcyclic
  /\ AcyclicSession(session)
  /\ RestoredHaveNoOpener

(***************************************************************************)
(* The index DetermineNewActiveIndex chooses is always one of the          *)
(* shortened list, and is kInvalidIndex only if that list is empty: the    *)
(* speculative fix for crbug.com/877792 in DetachWebStateAt never runs.    *)
(***************************************************************************)
SpeculativeFixIsDead ==
  \A i \in 1 .. Len(list) :
    DetermineNewActiveIndex(i) \in
      (IF Len(list) = 1 THEN {0} ELSE 1 .. Len(list) - 1)

(***************************************************************************)
(* ActiveWebStateObservationForwarder observes the active WebState and no  *)
(* other, after every operation: it lives from WebStateActivatedAt alone,  *)
(* so each change of the active WebState must be notified once, with the   *)
(* WebState that was active before it.                                     *)
(***************************************************************************)
ForwarderFollowsActive ==
  observers.active =
    IF activeIndex = 0 THEN << >> ELSE << list[activeIndex] >>

(***************************************************************************)
(* The tab grid shows the tabs of the list in its order with the active    *)
(* one selected, and the forwarder for all WebStates observes these: the   *)
(* notifications carry the right indices in the right order, also when a   *)
(* batch operation is half done.                                           *)
(***************************************************************************)
ObserversMirrorList ==
  /\ observers.items = list
  /\ observers.selected = GetActiveWebState
  /\ observers.all = Tabs

(***************************************************************************)
(* A window with tabs and a selection never loses its selection: closing,  *)
(* moving, replacing or restoring tabs leaves one active (the "dead" state *)
(* of a window whose active index is kInvalidIndex is for an empty list).  *)
(***************************************************************************)
SelectionSurvives ==
  [][activeIndex # 0 /\ list' # << >> => activeIndex' # 0]_vars

(***************************************************************************)
(* When the active tab is closed the selection stays in its family: it     *)
(* goes to a tab it opened, else to one its opener opened or the opener.   *)
(***************************************************************************)
SelectionStaysInFamily ==
  [][LET gone     == GetActiveWebState
         next     == ActiveAt(list', activeIndex')
         after    == {list[i] : i \in activeIndex + 1 .. Len(list)}
         children == {w \in after : opener[w].ws = gone}
         parent   == opener[gone].ws
         siblings == {w \in after : opener[w].ws = parent}
     IN  Len(list') = Len(list) - 1 /\ gone # None /\ gone \notin ToSet(list')
         => CASE children # {} -> next \in children
              [] children = {} /\ parent # None ->
                   next \in (IF siblings # {} THEN siblings ELSE {parent})
              [] OTHER -> TRUE]_vars

(***************************************************************************)
(* A tab the order controller places is put after its opener and at the    *)
(* end of the group the opener opened from its current page, so that tabs  *)
(* opened one after the other keep the order they were opened in.          *)
(***************************************************************************)
PlacedAfterGroup(at) ==
  LET by == opener'[list'[at]]
  IN  /\ \E i \in 1 .. at - 1 : list'[i] = by.ws
      /\ list'[at - 1] = by.ws \/ opener'[list'[at - 1]] = by
      /\ at < Len(list') => opener'[list'[at + 1]] # by

OpenedTabsKeepOrder ==
  [][InsertByOpener =>
       \A at \in 1 .. Len(list') :
         list'[at] \notin Tabs /\ opener'[list'[at]] # NoOpener
         => PlacedAfterGroup(at)]_vars

\* A stored tab whose opener is out of bounds has none.
StoredTab(tab) ==
  IF tab.opener \in 1 .. Len(session.tabs) THEN tab
  ELSE [tab EXCEPT !.opener = 0, !.openerNav = NoOpener.nav]

(***************************************************************************)
(* Undoing "close all" restores what was saved: once the tabs, the openers *)
(* and the selection are restored, serializing the restored tabs yields    *)
(* the session again, whatever tabs were opened in the meantime, and also  *)
(* when the session comes from disk with openers that make no sense.       *)
(***************************************************************************)
RestoreIsExact ==
  batch.phase = "ended" =>
    /\ StoredTabsAfter(batch.oldCount) =
         [i \in DOMAIN session.tabs |-> StoredTab(session.tabs[i])]
    /\ session.selected # 0 => activeIndex = batch.oldCount + session.selected
=============================================================================
