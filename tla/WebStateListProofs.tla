------------------------- MODULE WebStateListProofs -------------------------
(***************************************************************************)
(* Proofs about WebStateList, for any set of WebStates, any bound on the   *)
(* navigation index and any stored sessions.                               *)
(***************************************************************************)
EXTENDS WebStateList, ListLemmas

USE NoneAssumption, NavAssumption, SavedAssumption

-----------------------------------------------------------------------------
(* Facts about states that satisfy the invariant.                          *)

LEMMA NoOpenerType == NoOpener \in Openers
BY DEF NoOpener, Openers, NavIndices

LEMMA ListFacts ==
  ASSUME TypeOK
  PROVE  /\ Len(list) \in Nat
         /\ DOMAIN list = 1 .. Len(list)
         /\ \A i \in 1 .. Len(list) : list[i] \in WebStates /\ list[i] \in Tabs
         /\ Tabs \subseteq WebStates
         /\ \A w \in Tabs : \E i \in 1 .. Len(list) : list[i] = w
BY DEF TypeOK, Tabs, ToSet

LEMMA ActiveFacts ==
  ASSUME TypeOK
  PROVE  GetActiveWebState \in Tabs \union {None}
BY ListFacts DEF TypeOK, GetActiveWebState, ActiveAt

LEMMA IndexFacts ==
  ASSUME TypeOK, NEW w \in Tabs
  PROVE  /\ GetIndexOfWebState(w) \in 1 .. Len(list)
         /\ list[GetIndexOfWebState(w)] = w
<1>1. \E i \in 1 .. Len(list) : list[i] = w
  BY ListFacts
<1> QED
  BY <1>1 DEF GetIndexOfWebState

LEMMA WebStateOpenerType ==
  ASSUME TypeOK, NEW w \in Tabs \union {None}
  PROVE  /\ WebStateOpener(w) \in Openers
         /\ WebStateOpener(w).ws = w
<1>1. CASE w = None
  BY <1>1, NoOpenerType DEF WebStateOpener, NoOpener
<1>2. CASE w \in Tabs
  BY <1>2, ListFacts DEF WebStateOpener, Openers, TypeOK
<1> QED
  BY <1>1, <1>2

(***************************************************************************)
(* The order controller's insertion index is one the list can be extended  *)
(* at: the code's own clamp to count() has nothing to do.                  *)
(***************************************************************************)
LEMMA OpenedAfterFacts ==
  ASSUME TypeOK, NEW w, NEW start \in Nat, NEW useGroup \in BOOLEAN
  PROVE  /\ OpenedAfter(w, start, useGroup) \subseteq start + 1 .. Len(list)
         /\ OpenedAfter(w, start, useGroup) \in SUBSET Nat
         /\ OpenedAfter(w, start, useGroup) \in SUBSET (0 .. Len(list))
BY ListFacts DEF OpenedAfter

LEMMA NextOpenedByFacts ==
  ASSUME TypeOK, NEW w, NEW start \in Nat
  PROVE  \/ GetIndexOfNextWebStateOpenedBy(w, start) = 0
         \/ GetIndexOfNextWebStateOpenedBy(w, start) \in start + 1 .. Len(list)
<1> DEFINE opened == OpenedAfter(w, start, FALSE)
<1>1. opened \subseteq start + 1 .. Len(list) /\ opened \in SUBSET Nat
  BY OpenedAfterFacts
<1>2. opened # {} => Min(opened) \in opened
  BY <1>1, MinIsLeast
<1> QED
  BY <1>1, <1>2 DEF GetIndexOfNextWebStateOpenedBy

LEMMA LastOpenedByFacts ==
  ASSUME TypeOK, NEW w, NEW start \in Nat
  PROVE  \/ GetIndexOfLastWebStateOpenedBy(w, start) = 0
         \/ GetIndexOfLastWebStateOpenedBy(w, start) \in start + 1 .. Len(list)
<1> DEFINE opened == OpenedAfter(w, start, TRUE)
           run    == {i \in opened : Min(opened) .. i \subseteq opened}
<1>1. /\ opened \subseteq start + 1 .. Len(list) /\ opened \in SUBSET Nat
      /\ opened \in SUBSET (0 .. Len(list)) /\ Len(list) \in Nat
  BY OpenedAfterFacts, ListFacts
<1>2. ASSUME opened # {} PROVE run # {}
  <2>1. Min(opened) \in opened
    BY <1>1, <1>2, MinIsLeast
  <2>2. Min(opened) .. Min(opened) = {Min(opened)}
    BY <1>1, <2>1
  <2> QED
    BY <2>1, <2>2
<1>3. run \in SUBSET (0 .. Len(list)) /\ run \subseteq opened
  BY <1>1
<1>4. opened # {} => Max(run) \in opened
  BY <1>1, <1>2, <1>3, MaxIsGreatest
<1> QED
  BY <1>1, <1>4 DEF GetIndexOfLastWebStateOpenedBy

LEMMA InsertionIndexIsValid ==
  ASSUME TypeOK, NEW w \in Tabs \union {None}
  PROVE  DetermineInsertionIndex(w) \in 1 .. Len(list) + 1
<1>1. CASE w = None
  BY <1>1, ListFacts DEF DetermineInsertionIndex
<1>2. CASE w # None
  <2> DEFINE i    == GetIndexOfWebState(w)
             last == GetIndexOfLastWebStateOpenedBy(w, i)
  <2>1. i \in 1 .. Len(list) /\ Len(list) \in Nat
    BY <1>2, IndexFacts, ListFacts
  <2>2. last = 0 \/ last \in i + 1 .. Len(list)
    BY <2>1, LastOpenedByFacts
  <2>3. DetermineInsertionIndex(w) = IF last # 0 THEN last + 1 ELSE i + 1
    BY <1>2 DEF DetermineInsertionIndex
  <2> QED
    BY <2>1, <2>2, <2>3
<1> QED
  BY <1>1, <1>2

-----------------------------------------------------------------------------
(* What the operations do to the list, the openers and the active index.   *)

LEMMA InsertStep ==
  ASSUME IInv, NEW w \in WebStates \ Tabs, NEW index \in 1 .. Len(list) + 1,
         NEW by \in Openers, by.ws \in Tabs \union {None},
         NEW activating \in BOOLEAN, InsertAtIndex(w, index, by, activating)
  PROVE  /\ list' \in Seq(WebStates) /\ Len(list') = Len(list) + 1
         /\ opener' \in [WebStates -> Openers]
         /\ activeIndex' \in 0 .. Len(list')
         /\ NoDuplicates' /\ NoDanglingOpener'
<1> USE DEF IInv, NoDuplicates
<1>1. /\ list \in Seq(WebStates) /\ IsInjective(list)
      /\ w \in WebStates /\ w \notin ToSet(list)
  BY DEF TypeOK, Tabs
<1>2. list' = InsertAt(list, index, w) /\ opener' = [opener EXCEPT ![w] = by]
  BY DEF InsertAtIndex
<1>3. list' \in Seq(WebStates) /\ Len(list') = Len(list) + 1
  <2>1. /\ InsertAt(list, index, w) \in Seq(WebStates)
        /\ Len(InsertAt(list, index, w)) = Len(list) + 1
    <3> HIDE DEF IInv, NoDuplicates
    <3> QED
      BY <1>1, InsertAtProperties
  <2> QED
    BY <1>2, <2>1
<1>4. IsInjective(list') /\ ToSet(list') = ToSet(list) \union {w}
  BY <1>1, <1>2, InsertAtElements
<1>5. Tabs' = Tabs \union {w}
  BY <1>4 DEF Tabs
<1>6. opener' \in [WebStates -> Openers]
  BY <1>2 DEF TypeOK
<1>7. activeIndex' \in 0 .. Len(list')
  BY <1>3, ListFacts DEF TypeOK, InsertAtIndex
<1>8. NoDanglingOpener'
  BY <1>2, <1>5 DEF NoDanglingOpener, TypeOK
<1> QED
  BY <1>3, <1>4, <1>6, <1>7, <1>8

(***************************************************************************)
(* The active index after a detach is an index of the shortened list.  It  *)
(* is the speculative fix that makes this true without a condition on the  *)
(* openers: NewActiveIndexIsValid below shows when it is not needed.       *)
(***************************************************************************)
LEMMA DetachStep ==
  ASSUME IInv, NEW index \in 1 .. Len(list), DetachWebStateAt(index)
  PROVE  /\ list' \in Seq(WebStates) /\ Len(list') = Len(list) - 1
         /\ opener' \in [WebStates -> Openers]
         /\ activeIndex' \in 0 .. Len(list')
         /\ navIndex' \in [WebStates -> NavIndices]
         /\ NoDuplicates' /\ NoDanglingOpener'
<1> USE DEF IInv, NoDuplicates
<1> DEFINE w == list[index]
<1>1. list \in Seq(WebStates) /\ w \in WebStates /\ Len(list) \in Nat
  BY ListFacts DEF TypeOK
<1>2. list' = RemoveAt(list, index) /\ opener' = OpenersWithout(w)
  BY DEF DetachWebStateAt
<1>3. list' \in Seq(WebStates) /\ Len(list') = Len(list) - 1
  BY <1>1, <1>2, RemoveAtProperties
<1>4. IsInjective(list') /\ ToSet(list') = ToSet(list) \ {w}
  BY <1>1, <1>2, RemoveAtElements
<1>5. Tabs' = Tabs \ {w}
  BY <1>4 DEF Tabs
<1>6. opener' \in [WebStates -> Openers]
  BY <1>2, NoOpenerType DEF TypeOK, OpenersWithout
<1>7. activeIndex' \in 0 .. Len(list) - 1
  BY <1>1 DEF TypeOK, DetachWebStateAt, ActiveIndexAfterDetach
<1>8. navIndex' \in [WebStates -> NavIndices]
  BY DEF TypeOK, DetachWebStateAt, NavIndices
<1>9. NoDanglingOpener'
  BY <1>2, <1>5, ListFacts DEF NoDanglingOpener, OpenersWithout, NoOpener
<1> QED
  BY <1>3, <1>4, <1>6, <1>7, <1>8, <1>9

LEMMA ReplaceStep ==
  ASSUME IInv, NEW index \in 1 .. Len(list), NEW w \in WebStates \ Tabs,
         ReplaceWebStateAt(index, w)
  PROVE  IInv' /\ Len(list') = Len(list)
<1> USE DEF IInv, NoDuplicates
<1> DEFINE old == list[index]
<1>1. list \in Seq(WebStates) /\ old \in WebStates /\ Len(list) \in Nat
      /\ w \in WebStates /\ w \notin ToSet(list) /\ IsInjective(list)
  BY ListFacts DEF TypeOK, Tabs
<1>2. list' = [list EXCEPT ![index] = w] /\ opener' = OpenersWithout(old)
  BY DEF ReplaceWebStateAt
<1>3. /\ list' \in Seq(WebStates) /\ Len(list') = Len(list)
      /\ ToSet(list') = (ToSet(list) \ {old}) \union {w}
      /\ IsInjective(list')
  <2> DEFINE t == [list EXCEPT ![index] = w]
  <2>1. /\ t \in Seq(WebStates) /\ Len(t) = Len(list)
        /\ ToSet(t) = (ToSet(list) \ {old}) \union {w}
        /\ IsInjective(t)
    BY <1>1, ReplaceAtElements
  <2> QED
    BY <1>2, <2>1
<1>4. Tabs' = (Tabs \ {old}) \union {w}
  BY <1>3 DEF Tabs
<1>5. TypeOK'
  <2>1. opener' \in [WebStates -> Openers]
    BY <1>2, NoOpenerType DEF TypeOK, OpenersWithout
  <2>2. navIndex' \in [WebStates -> NavIndices]
    BY DEF TypeOK, ReplaceWebStateAt, NavIndices
  <2> QED
    BY <1>3, <2>1, <2>2 DEF TypeOK, ReplaceWebStateAt
<1>6. NoDanglingOpener'
  BY <1>2, <1>4, ListFacts DEF NoDanglingOpener, OpenersWithout, NoOpener
<1>7. RestoreProgress'
  BY <1>3 DEF RestoreProgress, ReplaceWebStateAt
<1> QED
  BY <1>3, <1>5, <1>6, <1>7

LEMMA MoveStep ==
  ASSUME IInv, NEW from \in 1 .. Len(list), NEW to \in 1 .. Len(list),
         MoveWebStateAt(from, to)
  PROVE  IInv' /\ Len(list') = Len(list)
<1> USE DEF IInv, NoDuplicates
<1> DEFINE w    == list[from]
           rest == RemoveAt(list, from)
<1>1. list \in Seq(WebStates) /\ w \in WebStates /\ Len(list) \in Nat
      /\ w \in ToSet(list)
  BY ListFacts DEF TypeOK, Tabs
<1>2. list' = InsertAt(rest, to, w)
  BY DEF MoveWebStateAt
<1>3. rest \in Seq(WebStates) /\ Len(rest) = Len(list) - 1
  BY <1>1, RemoveAtProperties
<1>4. IsInjective(rest) /\ ToSet(rest) = ToSet(list) \ {w}
  BY <1>1, RemoveAtElements
<1>5. to \in 1 .. Len(rest) + 1 /\ w \notin ToSet(rest)
  BY <1>1, <1>3, <1>4
<1> HIDE DEF rest
<1>6. list' \in Seq(WebStates) /\ Len(list') = Len(rest) + 1
  BY <1>1, <1>2, <1>3, <1>5, InsertAtProperties
<1>7. IsInjective(list') /\ ToSet(list') = ToSet(rest) \union {w}
  BY <1>1, <1>2, <1>3, <1>4, <1>5, InsertAtElements
<1>8. Len(list') = Len(list) /\ Tabs' = Tabs
  BY <1>1, <1>3, <1>4, <1>6, <1>7 DEF Tabs
<1>9. activeIndex' \in 0 .. Len(list')
  BY <1>1, <1>8 DEF TypeOK, MoveWebStateAt, MovedActiveIndex
<1>10. TypeOK'
  BY <1>6, <1>9 DEF TypeOK, MoveWebStateAt
<1>11. NoDanglingOpener'
  BY <1>8 DEF NoDanglingOpener, MoveWebStateAt
<1>12. RestoreProgress'
  BY <1>8 DEF RestoreProgress, MoveWebStateAt
<1> QED
  BY <1>7, <1>8, <1>10, <1>11, <1>12

-----------------------------------------------------------------------------
(* Sessions.                                                               *)

LEMMA NoSessionType ==
  NoSession \in SessionWindows /\ NoSession.selected <= Len(NoSession.tabs)
<1>1. << >> \in Seq(StoredTabs) /\ Len(<< >>) = 0
  BY EmptySeq
<1> QED
  BY <1>1 DEF NoSession, SessionWindows

LEMMA SerializedSessionType ==
  ASSUME TypeOK
  PROVE  /\ SerializeWebStateList \in SessionWindows
         /\ SerializeWebStateList.selected <= Len(SerializeWebStateList.tabs)
<1> DEFINE tab(i) ==
      [opener    |-> LET o == GetIndexOfWebState(opener[list[0 + i]].ws)
                     IN  IF o = 0 THEN 0 ELSE o - 0,
       openerNav |-> opener[list[0 + i]].nav,
       nav       |-> navIndex[list[0 + i]]]
<1>1. Len(list) \in Nat /\ activeIndex \in 0 .. Len(list)
  BY ListFacts DEF TypeOK
<1>2. \A w : GetIndexOfWebState(w) \in Nat
  <2> TAKE w
  <2>1. CASE w \in Tabs
    BY <1>1, <2>1, IndexFacts
  <2>2. CASE w \notin Tabs
    BY <2>2 DEF GetIndexOfWebState
  <2> QED
    BY <2>1, <2>2
<1>3. \A i \in 1 .. Len(list) : tab(i) \in StoredTabs
  <2> SUFFICES ASSUME NEW i \in 1 .. Len(list)
               PROVE  tab(i) \in StoredTabs
    OBVIOUS
  <2>1. list[0 + i] \in WebStates
    BY ListFacts
  <2>2. opener[list[0 + i]].nav \in NavIndices /\ navIndex[list[0 + i]] \in NavIndices
    BY <2>1 DEF TypeOK, Openers
  <2> QED
    BY <1>2, <2>2 DEF StoredTabs
<1>4. StoredTabsAfter(0) = [i \in 1 .. Len(list) |-> tab(i)]
  BY <1>1 DEF StoredTabsAfter
<1> HIDE DEF tab
<1>5. [i \in 1 .. Len(list) |-> tab(i)] \in Seq(StoredTabs)
  BY <1>1, <1>3, IsASeq
<1>6. Len([i \in 1 .. Len(list) |-> tab(i)]) = Len(list)
  BY <1>1
<1> QED
  BY <1>1, <1>4, <1>5, <1>6 DEF SerializeWebStateList, SessionWindows

LEMMA RestoredOpenerFacts ==
  ASSUME IInv, NEW w \in Tabs, GetIndexOfWebState(w) > batch.oldCount,
         Len(list) - batch.oldCount = Len(session.tabs)
  PROVE  /\ RestoredOpener(w) \in Openers
         /\ RestoredOpener(w).ws \in Tabs \union {None}
<1> USE DEF IInv
<1> DEFINE i   == GetIndexOfWebState(w) - batch.oldCount
           tab == session.tabs[i]
<1>1. /\ Len(list) \in Nat /\ batch.oldCount \in Nat
      /\ GetIndexOfWebState(w) \in 1 .. Len(list)
      /\ session.tabs \in Seq(StoredTabs)
  BY ListFacts, IndexFacts DEF TypeOK, SessionWindows
<1>2. i \in 1 .. Len(session.tabs)
  BY <1>1
<1>3. tab \in StoredTabs
  BY <1>1, <1>2, ElementOfSeq
<1>4. opener[w] \in Openers /\ opener[w].ws \in Tabs \union {None}
  BY ListFacts DEF TypeOK, NoDanglingOpener
<1>5. CASE tab.opener \in 1 .. Len(list) - batch.oldCount
  <2>1. tab.opener + batch.oldCount \in 1 .. Len(list)
    BY <1>1, <1>5
  <2>2. /\ list[tab.opener + batch.oldCount] \in WebStates
        /\ list[tab.opener + batch.oldCount] \in Tabs
    BY <2>1, ListFacts
  <2>3. RestoredOpener(w) =
          [ws |-> list[tab.opener + batch.oldCount], nav |-> tab.openerNav]
    BY <1>5 DEF RestoredOpener
  <2> QED
    BY <1>3, <2>2, <2>3 DEF Openers, StoredTabs
<1>6. CASE tab.opener \notin 1 .. Len(list) - batch.oldCount
  BY <1>4, <1>6 DEF RestoredOpener
<1> QED
  BY <1>5, <1>6

-----------------------------------------------------------------------------
(* The invariant is inductive.                                             *)

LEMMA InitIInv == Init => IInv
<1> SUFFICES ASSUME Init PROVE IInv
  OBVIOUS
<1> USE DEF Init
<1>1. Tabs = {} /\ Len(list) = 0 /\ list \in Seq(WebStates)
  BY DEF Tabs, ToSet
<1>2. session \in SessionWindows /\ session.selected <= Len(session.tabs)
  BY SessionAssumption, NoSessionType
<1>3. TypeOK
  BY <1>1, <1>2, NoOpenerType DEF TypeOK, NavIndices, Idle, Phases
<1>4. NoDuplicates /\ NoDanglingOpener
  BY <1>1 DEF NoDuplicates, IsInjective, NoDanglingOpener
<1>5. RestoreProgress
  BY <1>1, <1>2 DEF RestoreProgress, Idle
<1> QED
  BY <1>3, <1>4, <1>5 DEF IInv

LEMMA NextIInv == IInv /\ [Next]_vars => IInv'
<1> SUFFICES ASSUME IInv, [Next]_vars PROVE IInv'
  OBVIOUS
<1> USE DEF IInv
<1>0. /\ TypeOK /\ Len(list) \in Nat /\ batch.oldCount \in Nat
      /\ session.tabs \in Seq(StoredTabs) /\ Len(session.tabs) \in Nat
  BY ListFacts DEF TypeOK, SessionWindows
\* Insertions at an index of the caller's or of the order controller's.
<1>1. ASSUME NEW w \in WebStates \ Tabs, NEW parent \in Tabs \union {None},
             NEW flags, NEW index \in 1 .. Len(list) + 1, batch = Idle,
             InsertWebStateAt(w, index, flags, parent)
      PROVE  IInv'
  <2> DEFINE by == WebStateOpener(IF "INHERIT_OPENER" \in flags
                                  THEN GetActiveWebState ELSE parent)
             activating == "ACTIVATE" \in flags
  <2>1. by \in Openers /\ by.ws \in Tabs \union {None}
    BY ActiveFacts, WebStateOpenerType
  <2>2. activating \in BOOLEAN /\ InsertAtIndex(w, index, by, activating)
    BY <1>1 DEF InsertWebStateAt
  <2> HIDE DEF by, activating
  <2>3. /\ list' \in Seq(WebStates) /\ Len(list') = Len(list) + 1
        /\ opener' \in [WebStates -> Openers]
        /\ activeIndex' \in 0 .. Len(list')
        /\ NoDuplicates' /\ NoDanglingOpener'
    BY <2>1, <2>2, InsertStep
  <2>4. navIndex' \in [WebStates -> NavIndices] /\ UNCHANGED << batch, session >>
    BY <1>1 DEF InsertWebStateAt, TypeOK, NavIndices
  <2>5. TypeOK'
    BY <2>3, <2>4 DEF TypeOK
  <2>6. RestoreProgress'
    BY <1>0, <1>1, <2>3, <2>4 DEF RestoreProgress, Idle
  <2> QED
    BY <2>3, <2>5, <2>6
<1>2. CASE Insert
  BY <1>1, <1>2 DEF Insert
<1>3. CASE InsertByOpener
  <2>1. PICK w \in WebStates \ Tabs, parent \in Tabs \union {None} :
          \E flags \in FlagsFor(parent) : InsertWebState(w, flags, parent)
    BY <1>3 DEF InsertByOpener
  <2>2. PICK flags : InsertWebState(w, flags, parent)
    BY <2>1
  <2> DEFINE by == IF "INHERIT_OPENER" \in flags
                   THEN GetActiveWebState ELSE parent
  <2>3. DetermineInsertionIndex(by) \in 1 .. Len(list) + 1
    BY <1>0, ActiveFacts, InsertionIndexIsValid
  <2> QED
    BY <1>1, <1>3, <2>2, <2>3 DEF InsertByOpener, InsertWebState
<1>4. CASE Move
  BY <1>4, MoveStep DEF Move
<1>5. CASE Replace
  BY <1>5, ReplaceStep DEF Replace
\* Removals, alone and in the loop that closes every tab.
<1>6. ASSUME NEW index \in 1 .. Len(list), DetachWebStateAt(index),
             batch.oldCount = 0, batch.phase \in {"idle", "closing"},
             UNCHANGED << batch, session >>
      PROVE  IInv'
  <2>1. /\ list' \in Seq(WebStates) /\ Len(list') = Len(list) - 1
        /\ opener' \in [WebStates -> Openers]
        /\ activeIndex' \in 0 .. Len(list')
        /\ navIndex' \in [WebStates -> NavIndices]
        /\ NoDuplicates' /\ NoDanglingOpener'
    BY <1>6, DetachStep
  <2>2. TypeOK'
    BY <1>6, <2>1 DEF TypeOK
  <2>3. RestoreProgress'
    BY <1>0, <1>6, <2>1 DEF RestoreProgress
  <2> QED
    BY <2>1, <2>2, <2>3
<1>7. CASE Detach
  BY <1>6, <1>7 DEF Detach, Idle
<1>8. CASE Activate
  <2>1. TypeOK'
    BY <1>8 DEF Activate, ActivateIndex, TypeOK
  <2> QED
    BY <1>8, <2>1 DEF Activate, NoDuplicates, NoDanglingOpener, Tabs, RestoreProgress
<1>9. CASE Navigate
  <2>1. navIndex' \in [WebStates -> NavIndices]
    <3>1. PICK w \in Tabs, n \in 0 .. MaxNavIndex :
            navIndex' = [navIndex EXCEPT ![w] = n]
      BY <1>9 DEF Navigate
    <3>2. n \in NavIndices
      BY DEF NavIndices
    <3> QED
      BY <3>1, <3>2 DEF TypeOK
  <2>2. TypeOK'
    BY <1>9, <2>1 DEF Navigate, TypeOK
  <2> QED
    BY <1>9, <2>2 DEF Navigate, NoDuplicates, NoDanglingOpener, Tabs, RestoreProgress
<1>10. CASE CloseAllWebStates
  <2>1. session' \in SessionWindows /\ session'.selected <= Len(session'.tabs)
    BY <1>0, <1>10, SerializedSessionType
       DEF CloseAllWebStates, TypeOK, RestoreProgress
  <2>2. batch' = [phase |-> "closing", oldCount |-> 0]
    BY <1>10 DEF CloseAllWebStates, Idle
  <2>3. UNCHANGED << list, opener, activeIndex, navIndex >>
    BY <1>10 DEF CloseAllWebStates
  <2>4. TypeOK'
    BY <2>1, <2>2, <2>3 DEF TypeOK, Phases
  <2>5. RestoreProgress'
    BY <1>0, <2>1, <2>2, <2>3 DEF RestoreProgress
  <2> QED
    BY <2>3, <2>4, <2>5 DEF NoDuplicates, NoDanglingOpener, Tabs
<1>11. CASE CloseLast
  <2>1. Len(list) \in 1 .. Len(list)
    BY <1>0, <1>11, EmptySeq DEF CloseLast, TypeOK
  <2> QED
    BY <1>6, <1>11, <2>1 DEF CloseLast, RestoreProgress
<1>12. CASE ClosedAll \/ DiscardSession
  <2>1. TypeOK'
    BY <1>12, NoSessionType DEF ClosedAll, DiscardSession, TypeOK, Idle, Phases
  <2>2. RestoreProgress'
    BY <1>0, <1>12, NoSessionType
       DEF ClosedAll, DiscardSession, RestoreProgress, Idle
  <2> QED
    BY <1>12, <2>1, <2>2 DEF ClosedAll, DiscardSession, NoDuplicates,
                             NoDanglingOpener, Tabs
\* The restore, step by step.
<1>13. CASE Deserialize
  <2>1. TypeOK'
    BY <1>0, <1>13 DEF Deserialize, TypeOK, Phases
  <2>2. RestoreProgress'
    BY <1>0, <1>13 DEF Deserialize, RestoreProgress
  <2> QED
    BY <1>13, <2>1, <2>2 DEF Deserialize, NoDuplicates, NoDanglingOpener, Tabs
<1>14. CASE RestoreTab
  <2> DEFINE restored == Len(list) - batch.oldCount
  <2>1. PICK w \in WebStates \ Tabs :
          /\ InsertAtIndex(w, Len(list) + 1, NoOpener, FALSE)
          /\ navIndex' = [navIndex EXCEPT ![w] = session.tabs[restored + 1].nav]
    BY <1>14 DEF RestoreTab
  <2>2. /\ NoOpener \in Openers /\ NoOpener.ws \in Tabs \union {None}
        /\ Len(list) + 1 \in 1 .. Len(list) + 1 /\ FALSE \in BOOLEAN
    BY <1>0, NoOpenerType DEF NoOpener
  <2>3. /\ list' \in Seq(WebStates) /\ Len(list') = Len(list) + 1
        /\ opener' \in [WebStates -> Openers]
        /\ activeIndex' \in 0 .. Len(list')
        /\ NoDuplicates' /\ NoDanglingOpener'
    BY <1>0, <2>1, <2>2, InsertStep
  <2>4. restored \in Nat /\ restored + 1 \in 1 .. Len(session.tabs)
    BY <1>0, <1>14 DEF RestoreTab, RestoreProgress
  <2>5. session.tabs[restored + 1] \in StoredTabs
    BY <1>0, <2>4, ElementOfSeq
  <2>6. navIndex' \in [WebStates -> NavIndices]
    BY <2>1, <2>5 DEF TypeOK, StoredTabs
  <2>7. TypeOK'
    BY <1>14, <2>3, <2>6 DEF RestoreTab, TypeOK
  <2>8. RestoreProgress'
    BY <1>0, <1>14, <2>3, <2>4 DEF RestoreTab, RestoreProgress
  <2> QED
    BY <2>3, <2>7, <2>8
<1>15. CASE RestoreOpeners
  <2>1. /\ UNCHANGED << list, activeIndex, navIndex, session >>
        /\ batch.phase = "inserting"
        /\ batch' = [batch EXCEPT !.phase = "activating"]
        /\ Len(list) - batch.oldCount = Len(session.tabs)
        /\ opener' = [w \in WebStates |->
                        IF GetIndexOfWebState(w) > batch.oldCount
                        THEN RestoredOpener(w) ELSE opener[w]]
    BY <1>15 DEF RestoreOpeners
  <2>2. \A w \in WebStates : GetIndexOfWebState(w) > batch.oldCount => w \in Tabs
    BY <1>0 DEF GetIndexOfWebState
  <2>3. \A w \in WebStates : opener'[w] \in Openers
    BY <2>1, <2>2, RestoredOpenerFacts DEF TypeOK
  <2>4. TypeOK'
    BY <2>1, <2>3 DEF TypeOK, Phases
  <2>5. NoDanglingOpener'
    <3>1. Tabs' = Tabs
      BY <2>1 DEF Tabs
    <3>2. \A w \in Tabs : opener'[w].ws \in Tabs \union {None}
      BY <2>1, ListFacts, RestoredOpenerFacts DEF NoDanglingOpener
    <3>3. \A w \in WebStates \ Tabs : opener'[w] = opener[w]
      BY <2>1, <2>2
    <3> QED
      BY <3>1, <3>2, <3>3 DEF NoDanglingOpener
  <2>6. RestoreProgress'
    BY <1>0, <2>1 DEF RestoreProgress, TypeOK
  <2> QED
    BY <2>1, <2>4, <2>5, <2>6 DEF NoDuplicates
<1>16. CASE RestoreSelection
  <2>1. /\ UNCHANGED << list, opener, navIndex, session >>
        /\ batch.phase = "activating"
        /\ batch' = [batch EXCEPT !.phase = "ended"]
    BY <1>16 DEF RestoreSelection
  <2>2. activeIndex' = activeIndex
        \/ activeIndex' = batch.oldCount + session.selected
    BY <1>16 DEF RestoreSelection, ActivateIndex
  <2>3. activeIndex' \in 0 .. Len(list)
    BY <1>0, <2>1, <2>2 DEF TypeOK, RestoreProgress, SessionWindows
  <2>4. TypeOK'
    BY <2>1, <2>3 DEF TypeOK, Phases
  <2>5. RestoreProgress'
    BY <1>0, <2>1 DEF RestoreProgress, TypeOK
  <2> QED
    BY <2>1, <2>4, <2>5 DEF NoDuplicates, NoDanglingOpener, Tabs
<1>17. CASE RestoreEnded
  <2>1. TypeOK'
    BY <1>17, NoSessionType DEF RestoreEnded, TypeOK, Idle, Phases
  <2>2. RestoreProgress'
    BY <1>0, <1>17, NoSessionType DEF RestoreEnded, RestoreProgress, Idle
  <2> QED
    BY <1>17, <2>1, <2>2 DEF RestoreEnded, NoDuplicates, NoDanglingOpener, Tabs
<1>18. CASE UNCHANGED vars
  BY <1>18 DEF vars, TypeOK, NoDuplicates, NoDanglingOpener, Tabs, RestoreProgress
<1> QED
  BY <1>2, <1>3, <1>4, <1>5, <1>7, <1>8, <1>9, <1>10, <1>11, <1>12, <1>13,
     <1>14, <1>15, <1>16, <1>17, <1>18 DEF Next

(***************************************************************************)
(* The list, its openers and the active index keep to their types: the     *)
(* active index is never out of the list, whatever the openers are.        *)
(***************************************************************************)
THEOREM TypeCorrect == Spec => []TypeOK
<1>1. IInv => TypeOK
  BY DEF IInv
<1> QED
  BY InitIInv, NextIInv, <1>1, PTL DEF Spec

(***************************************************************************)
(* No tab refers to an opener that left the list, through every sequence   *)
(* of insertions, removals, replacements and restores.                     *)
(***************************************************************************)
THEOREM OpenersInList == Spec => []NoDanglingOpener
<1>1. IInv => NoDanglingOpener
  BY DEF IInv
<1> QED
  BY InitIInv, NextIInv, <1>1, PTL DEF Spec

-----------------------------------------------------------------------------
(* The openers form a forest.                                              *)

LEMMA AcyclicInsertStep ==
  ASSUME IInv, OpenersAreAcyclic, NEW w \in WebStates \ Tabs,
         NEW index \in 1 .. Len(list) + 1, NEW by \in Openers,
         by.ws \in Tabs \union {None}, NEW activating \in BOOLEAN,
         InsertAtIndex(w, index, by, activating)
  PROVE  OpenersAreAcyclic' /\ Tabs' = Tabs \union {w}
<1> USE DEF IInv, NoDuplicates
<1>1. /\ list \in Seq(WebStates) /\ IsInjective(list)
      /\ w \in WebStates /\ w \notin ToSet(list)
  BY DEF TypeOK, Tabs
<1>2. list' = InsertAt(list, index, w) /\ opener' = [opener EXCEPT ![w] = by]
  BY DEF InsertAtIndex
<1>3. ToSet(list') = ToSet(list) \union {w}
  BY <1>1, <1>2, InsertAtElements
<1>4. Tabs' = Tabs \union {w}
  BY <1>3 DEF Tabs
<1>5. /\ opener'[w].ws \in Tabs \union {None} /\ w # None /\ w \notin Tabs
      /\ \A x \in Tabs : opener'[x] = opener[x]
      /\ \A x \in Tabs : opener[x].ws \in Tabs \union {None}
  BY <1>2, ListFacts DEF TypeOK, NoDanglingOpener
<1>6. ASSUME NEW S \in SUBSET Tabs', S # {}
      PROVE  \E x \in S : opener'[x].ws \notin S
  <2>1. CASE S \ {w} = {}
    <3>1. S = {w}
      BY <1>6, <2>1
    <3> QED
      BY <1>5, <3>1
  <2>2. CASE S \ {w} # {}
    <3>1. S \ {w} \in SUBSET Tabs
      BY <1>4
    <3>2. PICK x \in S \ {w} : opener[x].ws \notin S \ {w}
      BY <2>2, <3>1 DEF OpenersAreAcyclic
    <3>3. opener'[x].ws # w /\ opener'[x].ws = opener[x].ws
      BY <1>5, <3>1, <3>2
    <3> QED
      BY <3>2, <3>3
  <2> QED
    BY <2>1, <2>2
<1> QED
  BY <1>4, <1>6 DEF OpenersAreAcyclic

(***************************************************************************)
(* Dropping openers, of a tab that leaves and of those that refer to it,   *)
(* closes no cycle: nor does a tab without an opener taking its place.     *)
(***************************************************************************)
LEMMA AcyclicRemovalStep ==
  ASSUME IInv, OpenersAreAcyclic, NEW gone \in Tabs,
         opener' = OpenersWithout(gone),
         NEW new \in SUBSET (WebStates \ Tabs),
         Tabs' = (Tabs \ {gone}) \union new
  PROVE  OpenersAreAcyclic'
<1> USE DEF IInv
<1>1. \A x \in WebStates : opener'[x].ws \in {None, opener[x].ws}
  BY DEF OpenersWithout, NoOpener
<1>2. \A x \in new : opener'[x].ws = None
  BY DEF OpenersWithout, NoDanglingOpener, NoOpener
<1>3. Tabs \subseteq WebStates /\ None \notin WebStates
  BY ListFacts
<1>4. ASSUME NEW S \in SUBSET Tabs', S # {}
      PROVE  \E x \in S : opener'[x].ws \notin S
  <2>1. None \notin S
    BY <1>3
  <2>2. CASE S \intersect new # {}
    BY <1>2, <2>1, <2>2
  <2>3. CASE S \intersect new = {}
    <3>1. S \in SUBSET Tabs
      BY <2>3
    <3>2. PICK x \in S : opener[x].ws \notin S
      BY <1>4, <3>1 DEF OpenersAreAcyclic
    <3> QED
      BY <1>1, <1>3, <2>1, <3>1, <3>2
  <2> QED
    BY <2>2, <2>3
<1> QED
  BY <1>4 DEF OpenersAreAcyclic

LEMMA SerializedSessionIsAcyclic ==
  ASSUME IInv, OpenersAreAcyclic
  PROVE  AcyclicSession(SerializeWebStateList)
<1> USE DEF IInv
<1> DEFINE tabs == SerializeWebStateList.tabs
<1>1. Len(list) \in Nat /\ Len(tabs) = Len(list)
  BY ListFacts DEF SerializeWebStateList, StoredTabsAfter
<1>2. \A i \in 1 .. Len(list) :
        tabs[i].opener = GetIndexOfWebState(opener[list[i]].ws)
  <2> TAKE i \in 1 .. Len(list)
  <2>1. list[0 + i] = list[i]
    OBVIOUS
  <2>2. GetIndexOfWebState(opener[list[i]].ws) \in Nat
    <3>1. CASE opener[list[i]].ws \in Tabs
      BY <1>1, <3>1, IndexFacts
    <3>2. CASE opener[list[i]].ws \notin Tabs
      BY <3>2 DEF GetIndexOfWebState
    <3> QED
      BY <3>1, <3>2
  <2> QED
    BY <1>1, <2>1, <2>2 DEF SerializeWebStateList, StoredTabsAfter
<1> SUFFICES ASSUME NEW I \in SUBSET (1 .. Len(tabs)), I # {}
             PROVE  \E i \in I : tabs[i].opener \notin I
  BY DEF AcyclicSession
<1> HIDE DEF tabs
<1>3. \A i \in I : i \in 1 .. Len(list) /\ list[i] \in Tabs
  BY <1>1, ListFacts
<1> DEFINE S == {list[i] : i \in I}
<1>4. S \in SUBSET Tabs /\ S # {}
  BY <1>3
<1>5. PICK w \in S : opener[w].ws \notin S
  BY <1>4 DEF OpenersAreAcyclic
<1>6. PICK i \in I : w = list[i]
  OBVIOUS
<1>7. GetIndexOfWebState(opener[w].ws) \notin I
  <2>1. CASE opener[w].ws \in Tabs
    BY <1>5, <2>1, IndexFacts
  <2>2. CASE opener[w].ws \notin Tabs
    BY <2>2 DEF GetIndexOfWebState
  <2> QED
    BY <2>1, <2>2
<1> QED
  BY <1>2, <1>6, <1>7, <1>3

(***************************************************************************)
(* Restoring the openers of a session without cycles, to tabs that have    *)
(* none and that no other tab refers to, makes no cycle.                   *)
(***************************************************************************)
LEMMA AcyclicRestoreStep ==
  ASSUME AcyclicInv, RestoreOpeners
  PROVE  OpenersAreAcyclic'
<1> USE DEF AcyclicInv, IInv
<1> DEFINE old == batch.oldCount
           n   == Len(session.tabs)
<1>1. /\ Len(list) \in Nat /\ old \in Nat /\ n \in Nat /\ Len(list) = old + n
      /\ Tabs \subseteq WebStates /\ None \notin WebStates
      /\ session.tabs \in Seq(StoredTabs)
  BY ListFacts DEF RestoreOpeners, TypeOK, RestoreProgress, SessionWindows
<1>2. /\ Tabs' = Tabs
      /\ \A w \in WebStates :
           opener'[w] = IF GetIndexOfWebState(w) > old
                        THEN RestoredOpener(w) ELSE opener[w]
  BY DEF RestoreOpeners, Tabs
<1>3. ASSUME NEW k \in 1 .. n
      PROVE  /\ list[old + k] \in Tabs
             /\ GetIndexOfWebState(list[old + k]) = old + k
             /\ opener[list[old + k]] = NoOpener
  <2>1. old + k \in 1 .. Len(list) /\ old + k \in old + 1 .. Len(list)
    BY <1>1
  <2>2. list[old + k] \in Tabs
    BY <2>1, ListFacts
  <2>3. GetIndexOfWebState(list[old + k]) = old + k
    BY <2>1, <2>2, IndexFacts, ListFacts DEF NoDuplicates, IsInjective
  <2>4. opener[list[old + k]] = NoOpener
    BY <2>1 DEF RestoredHaveNoOpener, RestoreOpeners
  <2> QED
    BY <2>2, <2>3, <2>4
<1>4. ASSUME NEW k \in 1 .. n
      PROVE  opener'[list[old + k]].ws =
               IF session.tabs[k].opener \in 1 .. n
               THEN list[old + session.tabs[k].opener] ELSE None
  <2> DEFINE w == list[old + k]
             o == session.tabs[k].opener
  <2>1. /\ w \in WebStates /\ GetIndexOfWebState(w) = old + k
        /\ opener[w] = NoOpener
    BY <1>1, <1>3
  <2>2. old + k > old /\ (old + k) - old = k /\ Len(list) - old = n
    BY <1>1
  <2>3. opener'[w] = RestoredOpener(w)
    BY <1>2, <2>1, <2>2
  <2>4. o \in Nat
    <3>1. session.tabs[k] \in StoredTabs
      BY <1>1, ElementOfSeq
    <3> QED
      BY <3>1 DEF StoredTabs
  <2>5. o + old = old + o
    BY <1>1, <2>4
  <2>6. RestoredOpener(w) =
          IF o \in 1 .. n THEN [ws |-> list[o + old], nav |-> session.tabs[k].openerNav]
          ELSE NoOpener
    BY <2>1, <2>2 DEF RestoredOpener
  <2> QED
    BY <2>3, <2>5, <2>6 DEF NoOpener
<1>5. ASSUME NEW S \in SUBSET Tabs, S # {}
      PROVE  \E x \in S : opener'[x].ws \notin S
  <2> DEFINE I == {k \in 1 .. n : list[old + k] \in S}
  <2>1. CASE I # {}
    <3>1. PICK k \in I : session.tabs[k].opener \notin I
      BY <2>1 DEF AcyclicSession
    <3>2. CASE session.tabs[k].opener \in 1 .. n
      <4>1. list[old + session.tabs[k].opener] \notin S
        BY <3>1, <3>2
      <4> QED
        BY <1>4, <3>1, <3>2, <4>1
    <3>3. CASE session.tabs[k].opener \notin 1 .. n
      BY <1>1, <1>4, <3>1, <3>3
    <3> QED
      BY <3>2, <3>3
  <2>2. CASE I = {}
    <3>1. \A x \in S : ~(GetIndexOfWebState(x) > old)
      <4> SUFFICES ASSUME NEW x \in S, GetIndexOfWebState(x) > old
                   PROVE  FALSE
        OBVIOUS
      <4> DEFINE k == GetIndexOfWebState(x) - old
      <4>1. GetIndexOfWebState(x) \in 1 .. Len(list)
            /\ list[GetIndexOfWebState(x)] = x
        BY IndexFacts
      <4>2. k \in 1 .. n /\ old + k = GetIndexOfWebState(x)
        BY <1>1, <4>1
      <4> QED
        BY <2>2, <4>1, <4>2
    <3>2. PICK x \in S : opener[x].ws \notin S
      BY <1>5 DEF OpenersAreAcyclic
    <3>3. opener'[x] = opener[x]
      BY <1>1, <1>2, <3>1
    <3> QED
      BY <3>2, <3>3
  <2> QED
    BY <2>1, <2>2
<1> QED
  BY <1>2, <1>5 DEF OpenersAreAcyclic

LEMMA InitAcyclic ==
  ASSUME \A s \in StoredSessions : AcyclicSession(s), Init
  PROVE  AcyclicInv
<1> USE DEF Init
<1>1. OpenersAreAcyclic
  BY DEF OpenersAreAcyclic, Tabs, ToSet
<1>2. AcyclicSession(NoSession)
  <2>1. 1 .. Len(NoSession.tabs) = {}
    BY DEF NoSession
  <2> QED
    BY <2>1 DEF AcyclicSession
<1>3. RestoredHaveNoOpener
  BY DEF RestoredHaveNoOpener, Idle
<1> QED
  BY <1>1, <1>2, <1>3, InitIInv DEF AcyclicInv

LEMMA NextAcyclic ==
  ASSUME AcyclicInv, [Next]_vars
  PROVE  AcyclicInv'
<1> USE DEF AcyclicInv
<1>0. /\ IInv' /\ TypeOK /\ Len(list) \in Nat /\ list \in Seq(WebStates)
      /\ batch.oldCount \in Nat
  BY NextIInv, ListFacts DEF IInv, TypeOK
<1> DEFINE Goal == /\ OpenersAreAcyclic'
                   /\ AcyclicSession(session)'
                   /\ RestoredHaveNoOpener'
<1> SUFFICES Goal
  BY <1>0
<1>1. AcyclicSession(NoSession)
  <2>1. 1 .. Len(NoSession.tabs) = {}
    BY DEF NoSession
  <2> QED
    BY <2>1 DEF AcyclicSession
<1>2. ASSUME NEW w \in WebStates \ Tabs, NEW parent \in Tabs \union {None},
             NEW flags, NEW index \in 1 .. Len(list) + 1, batch = Idle,
             InsertWebStateAt(w, index, flags, parent)
      PROVE  Goal
  <2> DEFINE by == WebStateOpener(IF "INHERIT_OPENER" \in flags
                                  THEN GetActiveWebState ELSE parent)
             activating == "ACTIVATE" \in flags
  <2>1. by \in Openers /\ by.ws \in Tabs \union {None}
    BY <1>0, ActiveFacts, WebStateOpenerType
  <2>2. activating \in BOOLEAN /\ InsertAtIndex(w, index, by, activating)
    BY <1>2 DEF InsertWebStateAt
  <2> HIDE DEF by, activating
  <2>3. OpenersAreAcyclic'
    BY <2>1, <2>2, AcyclicInsertStep
  <2>4. UNCHANGED << batch, session >>
    BY <1>2 DEF InsertWebStateAt
  <2> QED
    BY <1>2, <2>3, <2>4 DEF AcyclicSession, RestoredHaveNoOpener, Idle
<1>3. CASE Insert
  BY <1>2, <1>3 DEF Insert
<1>4. CASE InsertByOpener
  <2>1. PICK w \in WebStates \ Tabs, parent \in Tabs \union {None} :
          \E flags \in FlagsFor(parent) : InsertWebState(w, flags, parent)
    BY <1>4 DEF InsertByOpener
  <2>2. PICK flags : InsertWebState(w, flags, parent)
    BY <2>1
  <2> DEFINE by == IF "INHERIT_OPENER" \in flags
                   THEN GetActiveWebState ELSE parent
  <2>3. DetermineInsertionIndex(by) \in 1 .. Len(list) + 1
    BY <1>0, ActiveFacts, InsertionIndexIsValid
  <2> QED
    BY <1>2, <1>4, <2>2, <2>3 DEF InsertByOpener, InsertWebState
<1>5. CASE Move
  <2>1. PICK from \in 1 .. Len(list), to \in 1 .. Len(list) : MoveWebStateAt(from, to)
    BY <1>5 DEF Move
  <2>2. Tabs' = Tabs /\ UNCHANGED << opener, batch, session >> /\ batch = Idle
    <3> DEFINE w    == list[from]
               rest == RemoveAt(list, from)
    <3>1. list' = InsertAt(rest, to, w) /\ UNCHANGED << opener, batch, session >>
      BY <2>1 DEF MoveWebStateAt
    <3>2. IsInjective(list) /\ w \in WebStates /\ w \in ToSet(list)
      BY <1>0, ListFacts DEF IInv, NoDuplicates, Tabs
    <3>3. rest \in Seq(WebStates) /\ Len(rest) = Len(list) - 1
      BY <1>0, RemoveAtProperties
    <3>4. IsInjective(rest) /\ ToSet(rest) = ToSet(list) \ {w}
      BY <1>0, <3>2, RemoveAtElements
    <3>5. to \in 1 .. Len(rest) + 1 /\ w \notin ToSet(rest)
      BY <1>0, <3>3, <3>4
    <3> HIDE DEF rest
    <3>6. ToSet(list') = ToSet(rest) \union {w}
      BY <3>1, <3>2, <3>3, <3>4, <3>5, InsertAtElements
    <3> QED
      BY <1>5, <3>1, <3>2, <3>4, <3>6 DEF Tabs, Move
  <2> QED
    BY <2>2 DEF OpenersAreAcyclic, AcyclicSession, RestoredHaveNoOpener, Idle
<1>6. CASE Replace
  <2>1. PICK w \in WebStates \ Tabs, index \in 1 .. Len(list) :
          ReplaceWebStateAt(index, w)
    BY <1>6 DEF Replace
  <2> DEFINE gone == list[index]
  <2>2. /\ opener' = OpenersWithout(gone) /\ gone \in Tabs /\ batch = Idle
        /\ UNCHANGED << batch, session >>
    BY <1>0, <1>6, <2>1, ListFacts DEF ReplaceWebStateAt, Replace
  <2>3. Tabs' = (Tabs \ {gone}) \union {w}
    <3> DEFINE t == [list EXCEPT ![index] = w]
    <3>1. IsInjective(list) /\ w \in WebStates /\ w \notin ToSet(list)
      BY DEF IInv, NoDuplicates, Tabs
    <3>2. ToSet(t) = (ToSet(list) \ {gone}) \union {w}
      BY <1>0, <3>1, ReplaceAtElements
    <3> QED
      BY <2>1, <3>2 DEF ReplaceWebStateAt, Tabs
  <2>4. {w} \in SUBSET (WebStates \ Tabs)
    OBVIOUS
  <2>5. OpenersAreAcyclic'
    BY <2>2, <2>3, <2>4, AcyclicRemovalStep
  <2> QED
    BY <2>2, <2>5 DEF AcyclicSession, RestoredHaveNoOpener, Idle
<1>7. ASSUME NEW index \in 1 .. Len(list), DetachWebStateAt(index),
             batch.phase # "inserting", UNCHANGED << batch, session >>
      PROVE  Goal
  <2> DEFINE gone == list[index]
  <2>1. /\ opener' = OpenersWithout(gone) /\ gone \in Tabs
        /\ list' = RemoveAt(list, index)
    BY <1>0, <1>7, ListFacts DEF DetachWebStateAt
  <2>2. ToSet(RemoveAt(list, index)) = ToSet(list) \ {gone}
    BY <1>0, RemoveAtElements DEF IInv, NoDuplicates
  <2>3. Tabs' = (Tabs \ {gone}) \union {} /\ {} \in SUBSET (WebStates \ Tabs)
    BY <2>1, <2>2 DEF Tabs
  <2>4. OpenersAreAcyclic'
    BY <2>1, <2>3, AcyclicRemovalStep
  <2> QED
    BY <1>7, <2>4 DEF AcyclicSession, RestoredHaveNoOpener
<1>8. CASE Detach
  BY <1>7, <1>8 DEF Detach, Idle
<1>9. CASE Activate \/ Navigate \/ ClosedAll \/ DiscardSession \/ UNCHANGED vars
  BY <1>1, <1>9 DEF Activate, Navigate, ClosedAll, DiscardSession, vars, Idle, Tabs,
       OpenersAreAcyclic, AcyclicSession, RestoredHaveNoOpener
<1>10. CASE CloseAllWebStates
  <2>1. AcyclicSession(SerializeWebStateList)
    BY SerializedSessionIsAcyclic
  <2>2. AcyclicSession(session)'
    BY <1>10, <2>1 DEF CloseAllWebStates, AcyclicSession
  <2> QED
    BY <1>10, <2>2
       DEF CloseAllWebStates, OpenersAreAcyclic, Tabs, RestoredHaveNoOpener, Idle
<1>11. CASE CloseLast
  <2>1. Len(list) \in 1 .. Len(list)
    BY <1>0, <1>11, EmptySeq DEF CloseLast
  <2> QED
    BY <1>7, <1>11, <2>1 DEF CloseLast
<1>12. CASE Deserialize
  <2>1. /\ batch' = [phase |-> "inserting", oldCount |-> Len(list)]
        /\ list' = list /\ opener' = opener /\ session' = session
    BY <1>12 DEF Deserialize
  <2>2. OpenersAreAcyclic' /\ AcyclicSession(session)'
    BY <2>1 DEF OpenersAreAcyclic, AcyclicSession, Tabs
  <2>3. batch'.oldCount + 1 .. Len(list') = {}
    BY <1>0, <2>1
  <2>4. RestoredHaveNoOpener'
    BY <2>3 DEF RestoredHaveNoOpener
  <2> QED
    BY <2>2, <2>4
<1>13. CASE RestoreTab
  <2>1. PICK w \in WebStates \ Tabs : InsertAtIndex(w, Len(list) + 1, NoOpener, FALSE)
    BY <1>13 DEF RestoreTab
  <2>2. /\ NoOpener \in Openers /\ NoOpener.ws \in Tabs \union {None}
        /\ Len(list) + 1 \in 1 .. Len(list) + 1 /\ FALSE \in BOOLEAN
    BY <1>0, NoOpenerType DEF NoOpener
  <2>3. OpenersAreAcyclic'
    BY <2>1, <2>2, AcyclicInsertStep
  <2>4. RestoredHaveNoOpener'
    <3>1. /\ list' = InsertAt(list, Len(list) + 1, w)
          /\ opener' = [opener EXCEPT ![w] = NoOpener]
          /\ UNCHANGED << batch, session >>
      BY <1>13, <2>1 DEF InsertAtIndex, RestoreTab
    <3>2. /\ Len(list') = Len(list) + 1
          /\ \A i \in 1 .. Len(list) : list'[i] = list[i]
          /\ list'[Len(list) + 1] = w
      <4> DEFINE p == Len(list) + 1
                 t == InsertAt(list, p, w)
      <4>1. w \in WebStates /\ list \in Seq(WebStates) /\ p \in 1 .. Len(list) + 1
        BY <1>0, <2>2 DEF TypeOK
      <4> HIDE DEF p
      <4>2. /\ Len(t) = Len(list) + 1
            /\ \A j \in 1 .. Len(list) + 1 :
                 t[j] = IF j < p THEN list[j]
                        ELSE IF j = p THEN w ELSE list[j - 1]
        BY <4>1, InsertAtProperties
      <4> HIDE DEF t
      <4> USE DEF p
      <4>3. /\ \A i \in 1 .. Len(list) : t[i] = list[i]
            /\ t[Len(list) + 1] = w
        BY <1>0, <2>2, <4>2
      <4> QED
        BY <3>1, <4>2, <4>3 DEF t
    <3>3. ASSUME NEW i \in batch.oldCount + 1 .. Len(list) + 1
          PROVE  opener'[list'[i]] = NoOpener
      <4>1. CASE i = Len(list) + 1
        BY <1>0, <3>1, <3>2, <4>1 DEF TypeOK
      <4>2. CASE i \in batch.oldCount + 1 .. Len(list)
        <5>1. i \in 1 .. Len(list)
          BY <1>0, <4>2
        <5>2. list[i] \in WebStates /\ opener[list[i]] = NoOpener
          BY <1>0, <1>13, <4>2, <5>1, ListFacts DEF RestoredHaveNoOpener, RestoreTab
        <5> QED
          BY <1>0, <3>1, <3>2, <5>1, <5>2 DEF TypeOK
      <4> QED
        BY <1>0, <4>1, <4>2
    <3> QED
      BY <3>1, <3>2, <3>3 DEF RestoredHaveNoOpener
  <2> QED
    BY <1>13, <2>3, <2>4 DEF RestoreTab, AcyclicSession
<1>14. CASE RestoreOpeners
  BY <1>0, <1>14, AcyclicRestoreStep
     DEF RestoreOpeners, AcyclicSession, RestoredHaveNoOpener, TypeOK
<1>15. CASE RestoreSelection
  BY <1>0, <1>15 DEF RestoreSelection, OpenersAreAcyclic, Tabs, AcyclicSession,
                     RestoredHaveNoOpener, TypeOK
<1>16. CASE RestoreEnded
  BY <1>1, <1>16 DEF RestoreEnded, OpenersAreAcyclic, Tabs, AcyclicSession,
                     RestoredHaveNoOpener, Idle
<1> QED
  BY <1>3, <1>4, <1>5, <1>6, <1>8, <1>9, <1>10, <1>11, <1>12, <1>13, <1>14,
     <1>15, <1>16 DEF Next

(***************************************************************************)
(* The index the order controller chooses for the active WebState is one   *)
(* of the shortened list when no tab is its own opener.                    *)
(***************************************************************************)
LEMMA NewActiveIndexIsValid ==
  ASSUME IInv, \A w \in Tabs : opener[w].ws # w
  PROVE  SpeculativeFixIsDead
<1> USE DEF IInv
<1>1. Len(list) \in Nat
  BY ListFacts
<1>2. ASSUME NEW r \in 1 .. Len(list)
      PROVE  DetermineNewActiveIndex(r) \in
               (IF Len(list) = 1 THEN {0} ELSE 1 .. Len(list) - 1)
  <2> DEFINE parent  == opener[list[r]].ws
             child   == GetIndexOfNextWebStateOpenedBy(list[r], r)
             sibling == GetIndexOfNextWebStateOpenedBy(parent, r)
             up      == GetIndexOfWebState(parent)
             chosen  == DetermineNewActiveIndex(r)
             n       == Len(list)
  <2>1. /\ child = 0 \/ child \in r + 1 .. n
        /\ sibling = 0 \/ sibling \in r + 1 .. n
    BY NextOpenedByFacts
  <2>2. parent # None => up \in 1 .. n /\ up # r
    <3> SUFFICES ASSUME parent # None PROVE up \in 1 .. n /\ up # r
      OBVIOUS
    <3>1. list[r] \in Tabs /\ parent \in Tabs /\ parent # list[r]
      BY ListFacts DEF NoDanglingOpener
    <3> QED
      BY <3>1, IndexFacts
  <2>3. /\ child # 0 => chosen = GetValidIndex(child, r)
        /\ child = 0 /\ parent # None /\ sibling # 0 =>
             chosen = GetValidIndex(sibling, r)
        /\ child = 0 /\ parent # None /\ sibling = 0 =>
             chosen = GetValidIndex(up, r)
        /\ child = 0 /\ parent = None => chosen = IF r = n THEN r - 1 ELSE r
    BY DEF DetermineNewActiveIndex
  <2>4. n \in Nat /\ r \in 1 .. n
    BY <1>1
  <2> HIDE DEF parent, child, sibling, up, chosen, n
  <2>5. chosen \in Int /\ (IF n = 1 THEN chosen = 0 ELSE 1 =< chosen /\ chosen =< n - 1)
    <3>1. CASE child # 0
      BY <2>1, <2>3, <2>4, <3>1 DEF GetValidIndex
    <3>2. CASE child = 0 /\ parent # None /\ sibling # 0
      BY <2>1, <2>3, <2>4, <3>2 DEF GetValidIndex
    <3>3. CASE child = 0 /\ parent # None /\ sibling = 0
      BY <2>2, <2>3, <2>4, <3>3 DEF GetValidIndex
    <3>4. CASE child = 0 /\ parent = None
      BY <2>3, <2>4, <3>4
    <3> QED
      BY <3>1, <3>2, <3>3, <3>4
  <2>6. chosen \in (IF n = 1 THEN {0} ELSE 1 .. n - 1)
    BY <2>4, <2>5
  <2> QED
    BY <2>6 DEF chosen, n
<1> QED
  BY <1>2 DEF SpeculativeFixIsDead

(***************************************************************************)
(* If no stored session has a cycle of openers then no list ever has one,  *)
(* whatever is inserted, closed, replaced, saved and restored.             *)
(***************************************************************************)
THEOREM OpenersStayAcyclic ==
  ASSUME \A s \in StoredSessions : AcyclicSession(s)
  PROVE  Spec => []OpenersAreAcyclic
<1>1. Init => AcyclicInv
  BY InitAcyclic
<1>2. AcyclicInv /\ [Next]_vars => AcyclicInv'
  BY NextAcyclic
<1>3. AcyclicInv => OpenersAreAcyclic
  BY DEF AcyclicInv
<1> QED
  BY <1>1, <1>2, <1>3, PTL DEF Spec

(***************************************************************************)
(* Then the clamp of the active index in DetachWebStateAt, the speculative *)
(* fix for crbug.com/877792, never changes anything: the crash it guards   *)
(* against takes a tab that is its own opener, from a corrupt session.     *)
(***************************************************************************)
THEOREM SpeculativeFixNeverRuns ==
  ASSUME \A s \in StoredSessions : AcyclicSession(s)
  PROVE  Spec => []SpeculativeFixIsDead
<1>1. Init => AcyclicInv
  BY InitAcyclic
<1>2. AcyclicInv /\ [Next]_vars => AcyclicInv'
  BY NextAcyclic
<1>3. AcyclicInv => SpeculativeFixIsDead
  <2> SUFFICES ASSUME AcyclicInv PROVE SpeculativeFixIsDead
    OBVIOUS
  <2>1. ASSUME NEW w \in Tabs PROVE opener[w].ws # w
    <3>1. {w} \in SUBSET Tabs /\ {w} # {}
      OBVIOUS
    <3> QED
      BY <3>1 DEF AcyclicInv, OpenersAreAcyclic
  <2> QED
    BY <2>1, NewActiveIndexIsValid DEF AcyclicInv
<1> QED
  BY <1>1, <1>2, <1>3, PTL DEF Spec

-----------------------------------------------------------------------------
(* What a restore has done of its session, step by step.                   *)

Restoring == batch.phase \in {"inserting", "activating", "ended"}

RestoredTabs == 1 .. Len(list) - batch.oldCount

\* Each restored tab is at the page it was stored with.
RestoredKeepNav ==
  Restoring => \A k \in RestoredTabs :
    navIndex[list[batch.oldCount + k]] = session.tabs[k].nav

\* The opener a stored tab gets back.
OpenerOf(tab) ==
  IF tab.opener \in 1 .. Len(session.tabs)
  THEN [ws |-> list[batch.oldCount + tab.opener], nav |-> tab.openerNav]
  ELSE NoOpener

RestoredHaveOpeners ==
  batch.phase \in {"activating", "ended"} => \A k \in RestoredTabs :
    opener[list[batch.oldCount + k]] = OpenerOf(session.tabs[k])

RestoredIsSelected ==
  batch.phase = "ended" /\ session.selected # 0 =>
    activeIndex = batch.oldCount + session.selected

RestoreInv ==
  /\ IInv
  /\ RestoredHaveNoOpener
  /\ RestoredKeepNav
  /\ RestoredHaveOpeners
  /\ RestoredIsSelected

LEMMA InitRestoreInv == Init => RestoreInv
  BY InitIInv DEF Init, Idle, RestoreInv, RestoredHaveNoOpener, RestoredKeepNav,
     RestoredHaveOpeners, RestoredIsSelected, Restoring

\* What the steps of a restore find.
LEMMA RestoreFacts ==
  ASSUME RestoreInv
  PROVE  /\ IInv /\ TypeOK /\ Len(list) \in Nat /\ batch.oldCount \in Nat
         /\ list \in Seq(WebStates) /\ batch.oldCount <= Len(list)
         /\ session.tabs \in Seq(StoredTabs) /\ Len(session.tabs) \in Nat
         /\ \A k \in RestoredTabs :
              /\ batch.oldCount + k \in 1 .. Len(list)
              /\ list[batch.oldCount + k] \in Tabs
              /\ list[batch.oldCount + k] \in WebStates
<1>1. /\ IInv /\ TypeOK /\ Len(list) \in Nat /\ batch.oldCount \in Nat
      /\ list \in Seq(WebStates) /\ batch.oldCount <= Len(list)
      /\ session.tabs \in Seq(StoredTabs) /\ Len(session.tabs) \in Nat
  BY ListFacts DEF RestoreInv, IInv, TypeOK, SessionWindows, RestoreProgress
<1>2. ASSUME NEW k \in RestoredTabs
      PROVE  batch.oldCount + k \in 1 .. Len(list)
  BY <1>1 DEF RestoredTabs
<1> QED
  BY <1>1, <1>2, ListFacts

LEMMA RestoreTabStep ==
  ASSUME RestoreInv, RestoreTab
  PROVE  RestoredHaveNoOpener' /\ RestoredKeepNav'
<1> DEFINE old == batch.oldCount
           len == Len(list)
<1>0. /\ TypeOK /\ len \in Nat /\ old \in Nat /\ old <= len
      /\ list \in Seq(WebStates) /\ batch.phase = "inserting"
  BY RestoreFacts DEF RestoreTab
<1>1. PICK w \in WebStates \ Tabs :
        /\ InsertAtIndex(w, len + 1, NoOpener, FALSE)
        /\ navIndex' = [navIndex EXCEPT ![w] = session.tabs[len - old + 1].nav]
  BY DEF RestoreTab
<1>2. /\ list' = InsertAt(list, len + 1, w)
      /\ opener' = [opener EXCEPT ![w] = NoOpener]
      /\ UNCHANGED << batch, session >>
  BY <1>1 DEF InsertAtIndex, RestoreTab
<1>3. /\ Len(list') = len + 1
      /\ \A i \in 1 .. len : list'[i] = list[i]
      /\ list'[len + 1] = w
  <2>1. len + 1 \in 1 .. len + 1 /\ w \in WebStates
    BY <1>0
  <2> DEFINE t == InsertAt(list, len + 1, w)
  <2>2. /\ Len(t) = len + 1
        /\ \A j \in 1 .. len + 1 :
             t[j] = IF j < len + 1 THEN list[j]
                    ELSE IF j = len + 1 THEN w ELSE list[j - 1]
    BY <1>0, <2>1, InsertAtProperties
  <2> HIDE DEF t
  <2>3. /\ \A i \in 1 .. len : t[i] = list[i]
        /\ t[len + 1] = w
    BY <1>0, <2>2
  <2> QED
    BY <1>2, <2>2, <2>3 DEF t
<1>4. \A i \in 1 .. len : list[i] \in WebStates /\ list[i] # w
  BY <1>0, ListFacts
<1>5. /\ \A i \in 1 .. len : /\ opener'[list[i]] = opener[list[i]]
                           /\ navIndex'[list[i]] = navIndex[list[i]]
      /\ opener'[w] = NoOpener
      /\ navIndex'[w] = session.tabs[len - old + 1].nav
  BY <1>0, <1>1, <1>2, <1>4 DEF TypeOK
<1>6. RestoredHaveNoOpener'
  <2> SUFFICES ASSUME NEW i \in old + 1 .. len + 1
               PROVE  opener'[list'[i]] = NoOpener
    BY <1>2, <1>3 DEF RestoredHaveNoOpener
  <2>1. CASE i = len + 1
    BY <1>3, <1>5, <2>1
  <2>2. CASE i # len + 1
    <3>1. i \in 1 .. len /\ i \in old + 1 .. len
      BY <1>0, <2>2
    <3> QED
      BY <1>0, <1>3, <1>5, <3>1 DEF RestoreInv, RestoredHaveNoOpener
  <2> QED
    BY <2>1, <2>2
<1>7. RestoredKeepNav'
  <2>0. RestoredTabs' = 1 .. len + 1 - old /\ batch'.oldCount = old
    <3>1. batch' = batch /\ Len(list') = len + 1
      BY <1>2, <1>3
    <3> QED
      BY <1>0, <3>1 DEF RestoredTabs
  <2> SUFFICES ASSUME NEW k \in 1 .. len + 1 - old
               PROVE  navIndex'[list'[old + k]] = session.tabs[k].nav
    BY <1>2, <2>0 DEF RestoredKeepNav
  <2>1. CASE k = len + 1 - old
    <3>1. old + k = len + 1 /\ k = len - old + 1
      BY <1>0, <2>1
    <3> QED
      BY <1>3, <1>5, <3>1
  <2>2. CASE k # len + 1 - old
    <3>1. old + k \in 1 .. len /\ k \in 1 .. len - old
      BY <1>0, <2>2
    <3> QED
      BY <1>0, <1>3, <1>5, <3>1
         DEF RestoreInv, RestoredKeepNav, Restoring, RestoredTabs
  <2> QED
    BY <2>1, <2>2
<1> QED
  BY <1>6, <1>7

LEMMA RestoreOpenersStep ==
  ASSUME RestoreInv, RestoreOpeners
  PROVE  RestoredHaveOpeners'
<1> DEFINE old == batch.oldCount
           n   == Len(session.tabs)
<1>1. /\ IInv /\ TypeOK /\ Len(list) \in Nat /\ old \in Nat /\ n \in Nat
      /\ Len(list) - old = n /\ session.tabs \in Seq(StoredTabs)
      /\ batch.phase = "inserting" /\ RestoredHaveNoOpener
  BY RestoreFacts DEF RestoreOpeners, RestoreInv
<1>2. /\ UNCHANGED << list, session >> /\ batch'.oldCount = old
      /\ \A w \in WebStates :
           opener'[w] = IF GetIndexOfWebState(w) > old
                        THEN RestoredOpener(w) ELSE opener[w]
  BY <1>1 DEF RestoreOpeners, TypeOK
<1> SUFFICES ASSUME NEW k \in 1 .. n
             PROVE  opener'[list[old + k]] = OpenerOf(session.tabs[k])
  BY <1>1, <1>2 DEF RestoredHaveOpeners, RestoredTabs, OpenerOf
<1> DEFINE w == list[old + k]
           o == session.tabs[k].opener
<1>3. /\ old + k \in 1 .. Len(list) /\ old + k \in old + 1 .. Len(list)
      /\ old + k > old /\ (old + k) - old = k
  BY <1>1
<1>4. w \in Tabs /\ w \in WebStates
  BY <1>1, <1>3, ListFacts
<1>5. GetIndexOfWebState(w) = old + k
  BY <1>1, <1>3, <1>4, IndexFacts, ListFacts DEF IInv, NoDuplicates, IsInjective
<1>6. opener[w] = NoOpener
  BY <1>1, <1>3 DEF RestoredHaveNoOpener
<1>7. opener'[w] = RestoredOpener(w)
  BY <1>2, <1>3, <1>4, <1>5
<1>8. o \in Nat
  <2>1. session.tabs[k] \in StoredTabs
    BY <1>1, ElementOfSeq
  <2> QED
    BY <2>1 DEF StoredTabs
<1>9. RestoredOpener(w) =
        IF o \in 1 .. n THEN [ws |-> list[o + old], nav |-> session.tabs[k].openerNav]
        ELSE NoOpener
  BY <1>1, <1>3, <1>5, <1>6 DEF RestoredOpener
<1>10. o + old = old + o
  BY <1>1, <1>8
<1> QED
  BY <1>7, <1>9, <1>10 DEF OpenerOf

LEMMA NextRestoreInv == RestoreInv /\ [Next]_vars => RestoreInv'
<1> SUFFICES ASSUME RestoreInv, [Next]_vars PROVE RestoreInv'
  OBVIOUS
<1> USE DEF RestoredHaveNoOpener, RestoredHaveOpeners, RestoredIsSelected,
            RestoredKeepNav, Restoring
<1>0. IInv'
  BY NextIInv DEF RestoreInv
<1>1. /\ RestoredHaveNoOpener /\ RestoredKeepNav /\ RestoredHaveOpeners
      /\ RestoredIsSelected
  BY DEF RestoreInv
<1>2. CASE batch' = Idle \/ batch'.phase = "closing"
  BY <1>0, <1>2 DEF RestoreInv, Idle
<1>3. CASE Insert \/ InsertByOpener \/ Move \/ Replace \/ Detach \/ Activate
           \/ Navigate \/ DiscardSession
  <2>1. batch' = batch /\ batch = Idle
    BY <1>3 DEF Insert, InsertByOpener, InsertWebState, InsertWebStateAt, Move,
       MoveWebStateAt, Replace, ReplaceWebStateAt, Detach, Activate, Navigate,
       DiscardSession
  <2> QED
    BY <1>2, <2>1
<1>4. CASE CloseAllWebStates \/ CloseLast \/ ClosedAll \/ RestoreEnded
  <2>1. batch' = Idle \/ batch'.phase = "closing"
    BY <1>4 DEF CloseAllWebStates, CloseLast, ClosedAll, RestoreEnded, Idle
  <2> QED
    BY <1>2, <2>1
<1>5. CASE Deserialize
  <2>1. /\ batch' = [phase |-> "inserting", oldCount |-> Len(list)]
        /\ list' = list
    BY <1>5 DEF Deserialize
  <2>2. /\ batch'.oldCount + 1 .. Len(list') = {}
        /\ RestoredTabs' = {}
    BY <2>1, RestoreFacts DEF RestoredTabs
  <2> QED
    BY <1>0, <2>1, <2>2 DEF RestoreInv
<1>6. CASE RestoreTab
  <2>1. batch'.phase = "inserting"
    BY <1>6 DEF RestoreTab
  <2> QED
    BY <1>0, <1>6, <2>1, RestoreTabStep DEF RestoreInv
<1>7. CASE RestoreOpeners
  <2>1. /\ batch.phase = "inserting" /\ batch'.phase = "activating"
        /\ batch'.oldCount = batch.oldCount
        /\ UNCHANGED << list, navIndex, session >>
    BY <1>7, RestoreFacts DEF RestoreOpeners, TypeOK
  <2>2. RestoredKeepNav'
    BY <1>1, <2>1 DEF RestoredTabs
  <2>3. RestoredHaveOpeners'
    BY <1>7, RestoreOpenersStep
  <2> QED
    BY <1>0, <2>1, <2>2, <2>3 DEF RestoreInv
<1>8. CASE RestoreSelection
  <2>1. /\ batch.phase = "activating" /\ batch'.phase = "ended"
        /\ batch'.oldCount = batch.oldCount
        /\ UNCHANGED << list, opener, navIndex, session >>
        /\ session.selected # 0 => activeIndex' = batch.oldCount + session.selected
    BY <1>8, RestoreFacts DEF RestoreSelection, ActivateIndex, TypeOK
  <2>2. RestoredKeepNav' /\ RestoredHaveOpeners'
    BY <1>1, <2>1 DEF RestoredTabs, OpenerOf
  <2> QED
    BY <1>0, <2>1, <2>2 DEF RestoreInv
<1>9. CASE UNCHANGED vars
  BY <1>0, <1>1, <1>9 DEF vars, RestoreInv, RestoredTabs, OpenerOf
<1> QED
  BY <1>3, <1>4, <1>5, <1>6, <1>7, <1>8, <1>9 DEF Next

\* What SerializeWebStateList writes of the tabs of a restore that has ended.
LEMMA RestoredTabsAreStored ==
  ASSUME RestoreInv, batch.phase = "ended", NEW k \in 1 .. Len(session.tabs)
  PROVE  StoredTabsAfter(batch.oldCount)[k] = StoredTab(session.tabs[k])
<1> DEFINE old == batch.oldCount
           n   == Len(session.tabs)
           tab == session.tabs[k]
           w   == list[old + k]
           o   == GetIndexOfWebState(opener[w].ws)
<1>1. /\ IInv /\ TypeOK /\ Len(list) \in Nat /\ old \in Nat /\ n \in Nat
      /\ Len(list) - old = n /\ session.tabs \in Seq(StoredTabs)
      /\ tab \in StoredTabs
  <2>1. Len(list) - old = n
    BY DEF RestoreInv, IInv, RestoreProgress
  <2> QED
    BY <2>1, RestoreFacts, ElementOfSeq
<1>2. k \in RestoredTabs
  BY <1>1 DEF RestoredTabs
<1>3. opener[w] = OpenerOf(tab) /\ navIndex[w] = tab.nav
  BY <1>2 DEF RestoreInv, RestoredHaveOpeners, RestoredKeepNav, Restoring
<1>4. StoredTabsAfter(old)[k] =
        [opener    |-> IF o = 0 THEN 0 ELSE o - old,
         openerNav |-> opener[w].nav,
         nav       |-> navIndex[w]]
  BY <1>1 DEF StoredTabsAfter
<1>5. tab = [opener |-> tab.opener, openerNav |-> tab.openerNav, nav |-> tab.nav]
      /\ tab.opener \in Nat
  BY <1>1 DEF StoredTabs
<1>6. CASE tab.opener \in 1 .. n
  <2>1. opener[w] = [ws |-> list[old + tab.opener], nav |-> tab.openerNav]
    BY <1>3, <1>6 DEF OpenerOf
  <2>2. old + tab.opener \in 1 .. Len(list)
    BY <1>1, <1>6
  <2>3. o = old + tab.opener
    BY <1>1, <2>1, <2>2, IndexFacts, ListFacts DEF IInv, NoDuplicates, IsInjective
  <2>4. (IF o = 0 THEN 0 ELSE o - old) = tab.opener
    BY <1>1, <1>6, <2>3
  <2>5. StoredTab(tab) = tab
    BY <1>6 DEF StoredTab
  <2> HIDE DEF o
  <2>6. opener[w].nav = tab.openerNav
    BY <2>1
  <2> QED
    BY <1>3, <1>4, <1>5, <2>4, <2>5, <2>6
<1>7. CASE tab.opener \notin 1 .. n
  <2>1. opener[w] = NoOpener
    BY <1>3, <1>7 DEF OpenerOf
  <2>2. o = 0
    BY <1>1, <2>1, ListFacts DEF GetIndexOfWebState, NoOpener
  <2>3. StoredTab(tab) =
          [opener |-> 0, openerNav |-> NoOpener.nav, nav |-> tab.nav]
    BY <1>5, <1>7 DEF StoredTab
  <2> HIDE DEF o
  <2> QED
    BY <1>3, <1>4, <2>1, <2>2, <2>3
<1> QED
  BY <1>6, <1>7

(***************************************************************************)
(* Undoing "close all", or reading the session at launch, restores what    *)
(* was saved and nothing else: DeserializeWebStateList is the inverse of   *)
(* SerializeWebStateList, whatever tabs were there before, and for stored  *)
(* sessions of any length, with openers in and out of bounds.              *)
(***************************************************************************)
THEOREM RestoresExactly == Spec => []RestoreIsExact
<1>1. RestoreInv => RestoreIsExact
  <2> SUFFICES ASSUME RestoreInv, batch.phase = "ended"
               PROVE  RestoreIsExact
    BY DEF RestoreIsExact
  <2>1. Len(list) - batch.oldCount = Len(session.tabs)
    BY DEF RestoreInv, IInv, RestoreProgress
  <2>2. DOMAIN session.tabs = 1 .. Len(session.tabs)
    BY RestoreFacts
  <2> DEFINE stored == StoredTabsAfter(batch.oldCount)
             target == [i \in DOMAIN session.tabs |-> StoredTab(session.tabs[i])]
  <2>3. /\ stored = [i \in 1 .. Len(session.tabs) |-> stored[i]]
        /\ target = [i \in 1 .. Len(session.tabs) |-> target[i]]
    BY <2>1, <2>2 DEF StoredTabsAfter
  <2>4. \A i \in 1 .. Len(session.tabs) : stored[i] = target[i]
    BY <2>2, RestoredTabsAreStored
  <2> HIDE DEF stored, target
  <2>5. stored = target
    BY <2>3, <2>4
  <2>6. session.selected # 0 => activeIndex = batch.oldCount + session.selected
    BY DEF RestoreInv, RestoredIsSelected
  <2> QED
    BY <2>5, <2>6 DEF RestoreIsExact, stored, target
<1> QED
  BY InitRestoreInv, NextRestoreInv, <1>1, PTL DEF Spec


-----------------------------------------------------------------------------
(* Where the order controller puts a tab.                                  *)

\* The last of the group is of the group, and the tab after it is not.
LEMMA LastOpenedEndsGroup ==
  ASSUME TypeOK, NEW w, NEW start \in Nat,
         NEW last, last = GetIndexOfLastWebStateOpenedBy(w, start)
  PROVE  /\ last # 0 => /\ last \in OpenedAfter(w, start, TRUE)
                        /\ last + 1 \notin OpenedAfter(w, start, TRUE)
         /\ last = 0 => OpenedAfter(w, start, TRUE) = {}
<1> DEFINE opened == OpenedAfter(w, start, TRUE)
           run    == {i \in opened : Min(opened) .. i \subseteq opened}
<1>1. /\ opened \subseteq start + 1 .. Len(list) /\ opened \in SUBSET Nat
      /\ opened \in SUBSET (0 .. Len(list)) /\ Len(list) \in Nat
  BY OpenedAfterFacts, ListFacts
<1>2. last = IF opened = {} THEN 0 ELSE Max(run)
  BY DEF GetIndexOfLastWebStateOpenedBy
<1>3. CASE opened = {}
  BY <1>2, <1>3
<1>4. CASE opened # {}
  <2> DEFINE first == Min(opened)
  <2>1. first \in opened /\ first \in Nat
    BY <1>1, <1>4, MinIsLeast
  <2>2. \A i : i \in run <=> i \in opened /\ first .. i \subseteq opened
    OBVIOUS
  <2> HIDE DEF first, run
  <2>3. first .. first = {first}
    BY <2>1
  <2>4. run \in SUBSET (0 .. Len(list)) /\ run # {}
    BY <1>1, <2>1, <2>2, <2>3
  <2>5. last \in run /\ \A x \in run : x <= last
    BY <1>1, <1>2, <1>4, <2>4, MaxIsGreatest
  <2> HIDE DEF opened
  <2>6. last \in opened /\ last \in start + 1 .. Len(list)
    BY <1>1, <2>2, <2>5
  <2>7. last \in Nat /\ last # 0
    BY <1>1, <2>6
  <2>8. last + 1 \notin opened
    <3>1. SUFFICES ASSUME last + 1 \in opened PROVE FALSE
      OBVIOUS
    <3>2. first .. last \subseteq opened
      BY <2>2, <2>5
    <3>3. first .. last + 1 \subseteq (first .. last) \union {last + 1}
      BY <2>1, <2>7
    <3>4. last + 1 \in run
      BY <2>2, <3>1, <3>2, <3>3
    <3>5. last + 1 <= last
      BY <2>5, <3>4
    <3> QED
      BY <2>7, <3>5
  <2> QED
    BY <2>6, <2>7, <2>8 DEF opened
<1> QED
  BY <1>3, <1>4


\* What InsertAtIndex does to the list, index by index.
LEMMA InsertedList ==
  ASSUME list \in Seq(WebStates), NEW w \in WebStates,
         NEW index \in 1 .. Len(list) + 1, NEW by, NEW activating,
         InsertAtIndex(w, index, by, activating)
  PROVE  /\ Len(list') = Len(list) + 1
         /\ \A j \in 1 .. Len(list) + 1 :
              list'[j] = IF j < index THEN list[j]
                         ELSE IF j = index THEN w ELSE list[j - 1]
         /\ opener' = [opener EXCEPT ![w] = by]
<1>1. list' = InsertAt(list, index, w) /\ opener' = [opener EXCEPT ![w] = by]
  BY DEF InsertAtIndex
<1> QED
  BY <1>1, InsertAtProperties

\* A tab is inserted by the order controller: it ends the group of its opener.
LEMMA InsertByOpenerStep ==
  ASSUME IInv, NEW w \in WebStates \ Tabs, NEW p \in Tabs,
         NEW activating \in BOOLEAN,
         InsertAtIndex(w, DetermineInsertionIndex(p), WebStateOpener(p), activating),
         NEW at \in 1 .. Len(list'), list'[at] \notin Tabs
  PROVE  PlacedAfterGroup(at)
<1> DEFINE i     == GetIndexOfWebState(p)
           last  == GetIndexOfLastWebStateOpenedBy(p, i)
           index == DetermineInsertionIndex(p)
           by    == WebStateOpener(p)
           group == OpenedAfter(p, i, TRUE)
<1>1. TypeOK /\ list \in Seq(WebStates) /\ Len(list) \in Nat /\ p # None
  BY ListFacts DEF IInv, TypeOK
<1>2. i \in 1 .. Len(list) /\ list[i] = p
  BY <1>1, IndexFacts
<1>3. last = 0 \/ last \in i + 1 .. Len(list)
  BY <1>1, <1>2, LastOpenedByFacts
<1>4. index = IF last # 0 THEN last + 1 ELSE i + 1
  BY <1>1 DEF DetermineInsertionIndex
<1>5. index \in 1 .. Len(list) + 1
  BY <1>1, <1>2, <1>3, <1>4
<1>6. by = [ws |-> p, nav |-> navIndex[p]]
  BY <1>1 DEF WebStateOpener
<1>7. /\ last # 0 => last \in group /\ last + 1 \notin group
      /\ last = 0 => group = {}
  <2>1. last = GetIndexOfLastWebStateOpenedBy(p, i) /\ i \in Nat
    BY <1>2
  <2> HIDE DEF last, i
  <2> QED
    BY <1>1, <2>1, LastOpenedEndsGroup, Zenon
<1>8. \A j \in i + 1 .. Len(list) : j \in group <=> opener[list[j]] = by
  <2>1. SUFFICES ASSUME NEW j \in i + 1 .. Len(list)
                 PROVE  j \in group <=> opener[list[j]] = by
    OBVIOUS
  <2>2. list[j] \in WebStates
    BY <1>1, <1>2, <2>1
  <2>3. opener[list[j]] \in Openers
    BY <1>1, <2>2 DEF TypeOK
  <2>4. opener[list[j]] = by <=> /\ opener[list[j]].ws = p
                                 /\ opener[list[j]].nav = navIndex[p]
    BY <1>6, <2>3 DEF Openers
  <2> QED
    BY <2>1, <2>4 DEF OpenedAfter, WasOpenedBy
<1>9. /\ Len(list') = Len(list) + 1
      /\ \A j \in 1 .. Len(list) + 1 :
           list'[j] = IF j < index THEN list[j]
                      ELSE IF j = index THEN w ELSE list[j - 1]
      /\ opener' = [opener EXCEPT ![w] = by]
  <2>1. /\ w \in WebStates
        /\ InsertAtIndex(w, index, by, activating)
    OBVIOUS
  <2> HIDE DEF i, last, index, by, group
  <2> QED
    BY <1>1, <1>5, <2>1, InsertedList
<1> HIDE DEF i, last, index, by, group
<1>10. \A j \in 1 .. Len(list) : list[j] \in Tabs /\ list[j] \in WebStates
  BY <1>1, ListFacts
<1>11. at = index
  BY <1>1, <1>5, <1>9, <1>10
<1>12. opener'[w] = by /\ \A x \in Tabs : opener'[x] = opener[x]
  BY <1>1, <1>9, ListFacts DEF TypeOK
<1>13. list'[at] = w
  BY <1>1, <1>5, <1>9, <1>11
<1>14. \E j \in 1 .. at - 1 : list'[j] = by.ws
  <2>1. i \in 1 .. at - 1 /\ i \in 1 .. Len(list) + 1 /\ i < index
    BY <1>1, <1>2, <1>3, <1>4, <1>11
  <2>2. list'[i] = p
    BY <1>2, <1>9, <2>1
  <2> QED
    BY <1>6, <2>1, <2>2
<1>15. list'[at - 1] = by.ws \/ opener'[list'[at - 1]] = by
  <2>1. CASE last = 0
    <3>1. at - 1 = i /\ i < index /\ i \in 1 .. Len(list) + 1
      BY <1>1, <1>2, <1>4, <1>11, <2>1
    <3> QED
      BY <1>2, <1>6, <1>9, <3>1
  <2>2. CASE last # 0
    <3>1. /\ at - 1 = last /\ last < index /\ last \in 1 .. Len(list)
          /\ last \in i + 1 .. Len(list) /\ last \in 1 .. Len(list) + 1
      BY <1>1, <1>2, <1>3, <1>4, <1>11, <2>2
    <3>2. list'[at - 1] = list[last]
      BY <1>9, <3>1
    <3>3. opener[list[last]] = by
      BY <1>7, <1>8, <2>2, <3>1
    <3> QED
      BY <1>10, <1>12, <3>1, <3>2, <3>3
  <2> QED
    BY <2>1, <2>2
<1>16. ASSUME at < Len(list') PROVE opener'[list'[at + 1]] # by
  <2>1. at \in i + 1 .. Len(list) /\ at \in 1 .. Len(list)
    BY <1>1, <1>2, <1>3, <1>4, <1>9, <1>11, <1>16
  <2>2. list'[at + 1] = list[at]
    BY <1>1, <1>9, <1>11, <2>1
  <2>3. at \notin group
    BY <1>4, <1>7, <1>11
  <2>4. opener[list[at]] # by
    BY <1>8, <2>1, <2>3
  <2> QED
    BY <1>10, <1>12, <2>1, <2>2, <2>4
<1> QED
  BY <1>12, <1>13, <1>14, <1>15, <1>16 DEF PlacedAfterGroup

(***************************************************************************)
(* A tab the order controller places comes after its opener and after the  *)
(* tabs the opener opened from the same page, next to the last of them:    *)
(* DetermineInsertionIndex finds the end of the contiguous run, however    *)
(* the tabs were moved, closed and restored before.                        *)
(***************************************************************************)
THEOREM OpenedTabsInOrder == Spec => OpenedTabsKeepOrder
<1>1. ASSUME IInv, InsertByOpener, NEW at \in 1 .. Len(list'),
             list'[at] \notin Tabs, opener'[list'[at]] # NoOpener
      PROVE  PlacedAfterGroup(at)
  <2>1. PICK w \in WebStates \ Tabs, parent \in Tabs \union {None} :
          \E flags \in FlagsFor(parent) : InsertWebState(w, flags, parent)
    BY <1>1 DEF InsertByOpener
  <2>2. PICK flags \in FlagsFor(parent) : InsertWebState(w, flags, parent)
    BY <2>1
  <2> DEFINE p          == IF "INHERIT_OPENER" \in flags
                           THEN GetActiveWebState ELSE parent
             activating == "ACTIVATE" \in flags
  <2>3. InsertAtIndex(w, DetermineInsertionIndex(p), WebStateOpener(p), activating)
    BY <2>2 DEF InsertWebState, InsertWebStateAt
  <2>4. p \in Tabs \union {None} /\ activating \in BOOLEAN
    BY <1>1, <2>1, ActiveFacts DEF IInv
  <2> HIDE DEF p, activating
  <2>5. CASE p \in Tabs
    BY <1>1, <2>1, <2>3, <2>4, <2>5, InsertByOpenerStep
  <2>6. CASE p = None
    <3>1. opener' = [opener EXCEPT ![w] = NoOpener]
      BY <2>3, <2>6 DEF InsertAtIndex, WebStateOpener
    <3>2. list'[at] = w
      <4>1. /\ list \in Seq(WebStates)
            /\ DetermineInsertionIndex(p) \in 1 .. Len(list) + 1
        BY <1>1, <2>4, InsertionIndexIsValid DEF IInv, TypeOK
      <4>2. list' = InsertAt(list, DetermineInsertionIndex(p), w)
        BY <2>3 DEF InsertAtIndex
      <4>3. ToSet(list') = Tabs \union {w}
        BY <1>1, <2>1, <4>1, <4>2, InsertAtElements DEF Tabs, IInv, NoDuplicates
      <4>4. list'[at] \in ToSet(list')
        BY <1>1 DEF ToSet
      <4> QED
        BY <1>1, <4>3, <4>4
    <3> QED
      BY <1>1, <2>1, <3>1, <3>2 DEF IInv, TypeOK
  <2> QED
    BY <2>4, <2>5, <2>6
<1>2. IInv /\ [Next]_vars =>
        [InsertByOpener =>
           \A at \in 1 .. Len(list') :
             list'[at] \notin Tabs /\ opener'[list'[at]] # NoOpener
             => PlacedAfterGroup(at)]_vars
  BY <1>1
<1> QED
  BY InitIInv, NextIInv, <1>2, PTL DEF Spec, OpenedTabsKeepOrder


-----------------------------------------------------------------------------
(* Where the selection goes when the active tab goes.                      *)

\* A tab is found at its valid index once another one is removed.
LEMMA ValidIndexFinds ==
  ASSUME TypeOK, NEW r \in 1 .. Len(list), list' = RemoveAt(list, r),
         NEW i \in 1 .. Len(list), i # r
  PROVE  /\ GetValidIndex(i, r) # 0
         /\ list'[GetValidIndex(i, r)] = list[i]
<1>1. list \in Seq(WebStates) /\ Len(list) \in Nat
  BY ListFacts DEF TypeOK
<1>2. \A j \in 1 .. Len(list) - 1 :
        list'[j] = IF j < r THEN list[j] ELSE list[j + 1]
  BY <1>1, RemoveAtProperties
<1>3. CASE r < i
  <2>1. i - 1 \in 1 .. Len(list) - 1 /\ ~(i - 1 < r) /\ i - 1 + 1 = i
    BY <1>1, <1>3
  <2>2. GetValidIndex(i, r) = i - 1
    BY <1>3 DEF GetValidIndex
  <2> QED
    BY <1>2, <2>1, <2>2
<1>4. CASE ~(r < i)
  <2>1. i \in 1 .. Len(list) - 1 /\ i < r
    BY <1>1, <1>4
  <2>2. GetValidIndex(i, r) = i
    BY <1>4 DEF GetValidIndex
  <2> QED
    BY <1>2, <2>1, <2>2
<1> QED
  BY <1>3, <1>4

\* The next tab opened by w is a tab that w opened, and is found if there is one.
LEMMA NextOpenedIsOpened ==
  ASSUME TypeOK, NEW w, NEW start \in Nat,
         NEW next, next = GetIndexOfNextWebStateOpenedBy(w, start)
  PROVE  /\ next # 0 => /\ next \in start + 1 .. Len(list)
                        /\ opener[list[next]].ws = w
         /\ next = 0 => \A i \in start + 1 .. Len(list) : opener[list[i]].ws # w
<1> DEFINE opened == OpenedAfter(w, start, FALSE)
<1>1. opened \subseteq start + 1 .. Len(list) /\ opened \in SUBSET Nat
  BY OpenedAfterFacts
<1>2. \A i : i \in opened <=> /\ i \in start + 1 .. Len(list)
                              /\ opener[list[i]].ws = w
  BY DEF OpenedAfter, WasOpenedBy
<1>3. next = IF opened = {} THEN 0 ELSE Min(opened)
  BY DEF GetIndexOfNextWebStateOpenedBy
<1> HIDE DEF opened
<1>4. CASE opened = {}
  BY <1>2, <1>3, <1>4
<1>5. CASE opened # {}
  <2>1. next \in opened
    BY <1>1, <1>3, <1>5, MinIsLeast
  <2>2. next \in start + 1 .. Len(list) /\ next # 0
    BY <1>1, <2>1
  <2> QED
    BY <1>2, <2>1, <2>2
<1> QED
  BY <1>4, <1>5

\* What SelectionStaysInFamily says of a step in which "gone" goes.
NextIsOfFamily(gone) ==
  LET next     == ActiveAt(list', activeIndex')
      after    == {list[i] : i \in activeIndex + 1 .. Len(list)}
      children == {w \in after : opener[w].ws = gone}
      parent   == opener[gone].ws
      siblings == {w \in after : opener[w].ws = parent}
  IN  CASE children # {} -> next \in children
        [] children = {} /\ parent # None ->
             next \in (IF siblings # {} THEN siblings ELSE {parent})
        [] OTHER -> TRUE

LEMMA FamilyStep ==
  ASSUME AcyclicInv, NEW r \in 1 .. Len(list), DetachWebStateAt(r),
         GetActiveWebState # None, GetActiveWebState \notin ToSet(list')
  PROVE  NextIsOfFamily(GetActiveWebState)
<1> DEFINE gone    == GetActiveWebState
           n       == Len(list)
           next    == ActiveAt(list', activeIndex')
           after   == {list[i] : i \in r + 1 .. n}
           parent  == opener[gone].ws
           child   == GetIndexOfNextWebStateOpenedBy(gone, r)
           sibling == GetIndexOfNextWebStateOpenedBy(parent, r)
           up      == GetIndexOfWebState(parent)
           chosen  == DetermineNewActiveIndex(r)
<1>1. /\ IInv /\ TypeOK /\ list \in Seq(WebStates) /\ n \in Nat
      /\ IsInjective(list) /\ DOMAIN list = 1 .. n
      /\ activeIndex \in 0 .. n
  BY ListFacts DEF AcyclicInv, IInv, TypeOK, NoDuplicates
<1>2. list' = RemoveAt(list, r)
  BY DEF DetachWebStateAt
<1>3. activeIndex \in 1 .. n /\ gone = list[activeIndex] /\ gone \in Tabs
  BY <1>1, ListFacts DEF GetActiveWebState, ActiveAt
<1>4. activeIndex = r
  <2>1. ToSet(list') = ToSet(list) \ {list[r]}
    BY <1>1, <1>2, RemoveAtElements
  <2>2. list[activeIndex] = list[r]
    BY <1>3, <2>1 DEF Tabs
  <2> QED
    BY <1>1, <1>3, <2>2 DEF IsInjective
<1>5. \A w \in Tabs : opener[w].ws # w
  <2>1. ASSUME NEW w \in Tabs PROVE opener[w].ws # w
    <3>1. {w} \in SUBSET Tabs /\ {w} # {}
      OBVIOUS
    <3> QED
      BY <3>1 DEF AcyclicInv, OpenersAreAcyclic
  <2> QED
    BY <2>1
<1>6. activeIndex' = chosen
  <2>1. chosen \in (IF n = 1 THEN {0} ELSE 1 .. n - 1)
    BY <1>1, <1>5, NewActiveIndexIsValid DEF SpeculativeFixIsDead
  <2>2. chosen \in 0 .. n - 1
    BY <1>1, <2>1
  <2>3. activeIndex' = ActiveIndexAfterDetach(r)
    BY DEF DetachWebStateAt
  <2> HIDE DEF chosen
  <2> QED
    BY <1>1, <1>4, <2>2, <2>3 DEF ActiveIndexAfterDetach, chosen
<1>7. /\ child # 0 => chosen = GetValidIndex(child, r)
      /\ child = 0 /\ parent # None /\ sibling # 0 =>
           chosen = GetValidIndex(sibling, r)
      /\ child = 0 /\ parent # None /\ sibling = 0 =>
           chosen = GetValidIndex(up, r)
  BY <1>3, <1>4 DEF DetermineNewActiveIndex
<1>8. /\ child # 0 => child \in r + 1 .. n /\ opener[list[child]].ws = gone
      /\ child = 0 => \A i \in r + 1 .. n : opener[list[i]].ws # gone
  <2>1. child = GetIndexOfNextWebStateOpenedBy(gone, r) /\ r \in Nat
    OBVIOUS
  <2> HIDE DEF child, gone
  <2> QED
    BY <1>1, <2>1, NextOpenedIsOpened
<1>9. /\ sibling # 0 => /\ sibling \in r + 1 .. n
                        /\ opener[list[sibling]].ws = parent
      /\ sibling = 0 => \A i \in r + 1 .. n : opener[list[i]].ws # parent
  <2>1. sibling = GetIndexOfNextWebStateOpenedBy(parent, r) /\ r \in Nat
    OBVIOUS
  <2> HIDE DEF sibling, parent
  <2> QED
    BY <1>1, <2>1, NextOpenedIsOpened
<1>10. parent # None => up \in 1 .. n /\ up # r /\ list[up] = parent
  <2>1. SUFFICES ASSUME parent # None
                 PROVE  up \in 1 .. n /\ up # r /\ list[up] = parent
    OBVIOUS
  <2>2. parent \in Tabs /\ parent # gone
    BY <1>1, <1>3, <1>5, <2>1 DEF IInv, NoDanglingOpener
  <2> HIDE DEF parent
  <2>3. up \in 1 .. n /\ list[up] = parent
    BY <1>1, <2>2, IndexFacts
  <2> QED
    BY <1>3, <1>4, <2>2, <2>3
<1>11. ASSUME NEW i \in 1 .. n, i # r, chosen = GetValidIndex(i, r)
       PROVE  next = list[i]
  <2>1. GetValidIndex(i, r) # 0 /\ list'[GetValidIndex(i, r)] = list[i]
    BY <1>1, <1>2, <1>11, ValidIndexFinds
  <2> QED
    BY <1>6, <1>11, <2>1 DEF ActiveAt
<1>12. NextIsOfFamily(gone) <=>
         CASE {w \in after : opener[w].ws = gone} # {} ->
                next \in {w \in after : opener[w].ws = gone}
           [] {w \in after : opener[w].ws = gone} = {} /\ parent # None ->
                next \in (IF {w \in after : opener[w].ws = parent} # {}
                          THEN {w \in after : opener[w].ws = parent}
                          ELSE {parent})
           [] OTHER -> TRUE
  BY <1>4 DEF NextIsOfFamily
<1>13. \A i \in r + 1 .. n : list[i] \in after /\ i \in 1 .. n /\ i # r
  BY <1>1
<1>14. \A w \in after : \E i \in r + 1 .. n : w = list[i]
  OBVIOUS
<1> HIDE DEF gone, n, next, after, parent, child, sibling, up, chosen
<1>15. CASE child # 0
  <2>1. next = list[child] /\ list[child] \in after /\ opener[list[child]].ws = gone
    BY <1>7, <1>8, <1>11, <1>13, <1>15
  <2> QED
    BY <1>12, <2>1 DEF gone
<1>16. CASE child = 0
  <2>1. {w \in after : opener[w].ws = gone} = {}
    BY <1>8, <1>14, <1>16
  <2>2. CASE parent = None
    BY <1>12, <2>1, <2>2 DEF gone
  <2>3. CASE parent # None /\ sibling # 0
    <3>1. /\ next = list[sibling] /\ list[sibling] \in after
          /\ opener[list[sibling]].ws = parent
      BY <1>7, <1>9, <1>11, <1>13, <1>16, <2>3
    <3> QED
      BY <1>12, <2>1, <2>3, <3>1 DEF gone
  <2>4. CASE parent # None /\ sibling = 0
    <3>1. next = parent
      BY <1>7, <1>10, <1>11, <1>16, <2>4
    <3>2. {w \in after : opener[w].ws = parent} = {}
      BY <1>9, <1>14, <2>4
    <3> QED
      BY <1>12, <2>1, <2>4, <3>1, <3>2 DEF gone
  <2> QED
    BY <2>2, <2>3, <2>4
<1> QED
  BY <1>15, <1>16

\* Only closing a tab shortens the list, by one tab.
LEMMA ShorterAfterDetach ==
  ASSUME IInv, [Next]_vars, Len(list') = Len(list) - 1
  PROVE  \E r \in 1 .. Len(list) : DetachWebStateAt(r)
<1>0. TypeOK /\ list \in Seq(WebStates) /\ Len(list) \in Nat
  BY ListFacts DEF IInv, TypeOK
<1>1. \A i \in 1 .. Len(list) + 1 : \A w \in WebStates :
        list' # InsertAt(list, i, w)
  <2>1. SUFFICES ASSUME NEW i \in 1 .. Len(list) + 1, NEW w \in WebStates,
                        list' = InsertAt(list, i, w)
                 PROVE  FALSE
    OBVIOUS
  <2>2. Len(list') = Len(list) + 1
    BY <1>0, <2>1, InsertAtProperties
  <2> QED
    BY <1>0, <2>2
<1>2. CASE Insert
  BY <1>1, <1>2 DEF Insert, InsertWebStateAt, InsertAtIndex
<1>3. CASE InsertByOpener
  <2>1. PICK w \in WebStates \ Tabs, parent \in Tabs \union {None} :
          \E flags \in FlagsFor(parent) : InsertWebState(w, flags, parent)
    BY <1>3 DEF InsertByOpener
  <2>2. PICK flags \in FlagsFor(parent) : InsertWebState(w, flags, parent)
    BY <2>1
  <2> DEFINE p == IF "INHERIT_OPENER" \in flags THEN GetActiveWebState ELSE parent
  <2>3. list' = InsertAt(list, DetermineInsertionIndex(p), w)
    BY <2>2 DEF InsertWebState, InsertWebStateAt, InsertAtIndex
  <2>4. p \in Tabs \union {None}
    BY <1>0, ActiveFacts
  <2> HIDE DEF p
  <2> QED
    BY <1>0, <1>1, <2>3, <2>4, InsertionIndexIsValid
<1>4. CASE Move
  <2>1. PICK from, to \in 1 .. Len(list) : MoveWebStateAt(from, to)
    BY <1>4 DEF Move
  <2>2. Len(list') = Len(list)
    BY <2>1, MoveStep
  <2> QED
    BY <1>0, <2>2
<1>5. CASE Replace
  <2>1. PICK w \in WebStates \ Tabs, index \in 1 .. Len(list) :
          ReplaceWebStateAt(index, w)
    BY <1>5 DEF Replace
  <2>2. Len(list') = Len(list)
    BY <2>1, ReplaceStep
  <2> QED
    BY <1>0, <2>2
<1>6. CASE RestoreTab
  <2>1. PICK w \in WebStates \ Tabs : list' = InsertAt(list, Len(list) + 1, w)
    BY <1>6 DEF RestoreTab, InsertAtIndex
  <2> QED
    BY <1>0, <1>1, <2>1
<1>7. CASE Detach
  BY <1>7 DEF Detach
<1>8. CASE CloseLast
  <2>1. list # << >> /\ DetachWebStateAt(Len(list))
    BY <1>8 DEF CloseLast
  <2>2. Len(list) \in 1 .. Len(list)
    BY <1>0, <2>1
  <2> QED
    BY <2>1, <2>2
<1>9. list' = list => FALSE
  BY <1>0
<1> QED
  BY <1>2, <1>3, <1>4, <1>5, <1>6, <1>7, <1>8, <1>9
     DEF Next, Activate, Navigate, CloseAllWebStates, ClosedAll, DiscardSession,
         Deserialize, RestoreOpeners, RestoreSelection, RestoreEnded, vars

(***************************************************************************)
(* When the active tab is closed the next one is of its family: the first  *)
(* tab after it that it opened, else the first its opener opened, else the *)
(* opener.  It takes acyclic openers: a tab that is its own opener is the  *)
(* corrupt session of crbug.com/960628.                                    *)
(***************************************************************************)
THEOREM SelectionInFamily ==
  ASSUME \A s \in StoredSessions : AcyclicSession(s)
  PROVE  Spec => SelectionStaysInFamily
<1>1. ASSUME AcyclicInv, [Next]_vars, Len(list') = Len(list) - 1,
             GetActiveWebState # None, GetActiveWebState \notin ToSet(list')
      PROVE  NextIsOfFamily(GetActiveWebState)
  <2>1. PICK r \in 1 .. Len(list) : DetachWebStateAt(r)
    BY <1>1, ShorterAfterDetach DEF AcyclicInv
  <2> QED
    BY <1>1, <2>1, FamilyStep
<1>2. AcyclicInv /\ [Next]_vars =>
        [LET gone     == GetActiveWebState
             next     == ActiveAt(list', activeIndex')
             after    == {list[i] : i \in activeIndex + 1 .. Len(list)}
             children == {w \in after : opener[w].ws = gone}
             parent   == opener[gone].ws
             siblings == {w \in after : opener[w].ws = parent}
         IN  Len(list') = Len(list) - 1 /\ gone # None /\ gone \notin ToSet(list')
             => CASE children # {} -> next \in children
                  [] children = {} /\ parent # None ->
                       next \in (IF siblings # {} THEN siblings ELSE {parent})
                  [] OTHER -> TRUE]_vars
  BY <1>1, Zenon DEF NextIsOfFamily
<1>3. Init => AcyclicInv
  BY InitAcyclic
<1>4. AcyclicInv /\ [Next]_vars => AcyclicInv'
  BY NextAcyclic
<1> QED
  BY <1>2, <1>3, <1>4, PTL DEF Spec, SelectionStaysInFamily
=============================================================================
