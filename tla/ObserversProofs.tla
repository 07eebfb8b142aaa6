--------------------------- MODULE ObserversProofs ---------------------------
(***************************************************************************)
(* Theorems about the observers of a WebStateList, which know the list     *)
(* from its notifications only, and about its selection.                   *)
(***************************************************************************)
EXTENDS WebStateListProofs

USE NoneAssumption

\* What the forwarder observes when w is active.
Only(w) == IF w = None THEN << >> ELSE << w >>

Mirrors ==
  observers = [active |-> observers.active, all |-> Tabs, items |-> list,
               selected |-> GetActiveWebState]

Follows == observers.active = Only(GetActiveWebState)

ObserversInv == IInv /\ Mirrors /\ (ReplaceAnyIndex = FALSE => Follows)

-----------------------------------------------------------------------------
(* The observers' operations.                                              *)

(***************************************************************************)
(* In a list without duplicates the grid finds the item it is told about.  *)
(***************************************************************************)
LEMMA RemoveFirstIsRemoveAt ==
  ASSUME NEW S, NEW s \in Seq(S), IsInjective(s), NEW i \in 1 .. Len(s)
  PROVE  RemoveFirst(s, s[i]) = RemoveAt(s, i)
<1> DEFINE I == {j \in 1 .. Len(s) : s[j] = s[i]}
<1>1. I = {i}
  BY DEF IsInjective
<1>2. Min(I) = i
  <2>1. {i} \in SUBSET Nat /\ {i} # {}
    OBVIOUS
  <2>2. Min({i}) \in {i}
    BY <2>1, MinIsLeast
  <2> QED
    BY <1>1, <2>2
<1>3. I # {}
  BY <1>1
<1>4. SelectInSeq(s, LAMBDA v : v = s[i]) = Min(I)
  BY <1>3 DEF SelectInSeq
<1> QED
  BY <1>2, <1>4 DEF RemoveFirst

LEMMA ReplaceAllIsExcept ==
  ASSUME NEW S, NEW s \in Seq(S), IsInjective(s), NEW i \in 1 .. Len(s), NEW e \in S
  PROVE  ReplaceAll(s, s[i], e) = [s EXCEPT ![i] = e]
<1>1. DOMAIN s = 1 .. Len(s) /\ \A j \in 1 .. Len(s) : s[j] = s[i] => j = i
  BY DEF IsInjective
<1>2. s = [j \in 1 .. Len(s) |-> s[j]]
  BY <1>1
<1> QED
  BY <1>1, <1>2 DEF ReplaceAll

\* One WebState is observed instead of another.
LEMMA OneForAnother ==
  ASSUME NEW old \in WebStates \union {None}, NEW new \in WebStates \union {None}
  PROVE  RemoveFirst(Only(old), old) \o Only(new) = Only(new)
<1>1. Only(new) \in Seq(WebStates \union {None})
  <2>1. << >> \in Seq(WebStates \union {None}) /\ << new >> \in Seq(WebStates \union {None})
    OBVIOUS
  <2> QED
    BY <2>1 DEF Only
<1>2. RemoveFirst(Only(old), old) = << >>
  <2>1. CASE old = None
    <3>1. Only(old) = << >> /\ Len(<< >>) = 0
      BY <2>1 DEF Only
    <3> QED
      BY <3>1 DEF RemoveFirst
  <2>2. CASE old # None
    <3> DEFINE s == << old >>
    <3>1. s \in Seq(WebStates \union {None}) /\ Len(s) = 1 /\ s[1] = old /\ 1 \in 1 .. Len(s)
      OBVIOUS
    <3>2. IsInjective(s)
      BY <3>1 DEF IsInjective
    <3> HIDE DEF s
    <3>3. RemoveFirst(s, s[1]) = RemoveAt(s, 1)
      BY <3>1, <3>2, RemoveFirstIsRemoveAt
    <3>4. RemoveAt(s, 1) \in Seq(WebStates \union {None}) /\ Len(RemoveAt(s, 1)) = 0
      <4>1. Len(RemoveAt(s, 1)) = Len(s) - 1 /\ RemoveAt(s, 1) \in Seq(WebStates \union {None})
        BY <3>1, RemoveAtProperties
      <4> QED
        BY <3>1, <4>1
    <3>5. RemoveAt(s, 1) = << >>
      BY <3>4, EmptySeq
    <3> QED
      BY <2>2, <3>1, <3>3, <3>5 DEF Only, s
  <2> QED
    BY <2>1, <2>2
<1>3. << >> \o Only(new) = Only(new)
  BY <1>1
<1> QED
  BY <1>2, <1>3

\* A notification of a change of the active WebState.
LEMMA NotifyMirrors ==
  ASSUME NEW o, NEW all, NEW items, NEW selected,
         NEW old \in WebStates \union {None}, NEW new \in WebStates \union {None},
         o = [active |-> observers.active, all |-> all, items |-> items,
              selected |-> selected],
         old = new => selected = new,
         observers' = NotifyIfActiveWebStateChanged(o, old, new),
         Tabs' = all, list' = items, GetActiveWebState' = new
  PROVE  Mirrors' /\ (observers.active = Only(old) => Follows')
<1> DEFINE x == RemoveFirst(observers.active, old) \o Only(new)
<1>1. o.active = observers.active
  OBVIOUS
<1>2. WebStateActivatedAt(o, old, new) = [o EXCEPT !.active = x, !.selected = new]
  BY <1>1 DEF WebStateActivatedAt, Only
<1>3. observers.active = Only(old) => x = Only(new)
  BY OneForAnother
<1> HIDE DEF x
<1>4. [o EXCEPT !.active = x, !.selected = new] =
        [active |-> x, all |-> all, items |-> items, selected |-> new]
  <2> DEFINE p == [o EXCEPT !.active = x]
  <2>1. p = [active |-> x, all |-> all, items |-> items, selected |-> selected]
    OBVIOUS
  <2>2. [o EXCEPT !.active = x, !.selected = new] = [p EXCEPT !.selected = new]
    OBVIOUS
  <2> HIDE DEF p
  <2>3. [p EXCEPT !.selected = new] =
          [active |-> x, all |-> all, items |-> items, selected |-> new]
    BY <2>1
  <2> QED
    BY <2>2, <2>3
<1>5. observers' = IF old = new THEN o
                   ELSE [active |-> x, all |-> all, items |-> items, selected |-> new]
  BY <1>2, <1>4 DEF NotifyIfActiveWebStateChanged
<1>6. CASE old = new
  <2>1. observers' = o /\ observers'.active = observers.active
    BY <1>1, <1>5, <1>6
  <2> QED
    BY <1>6, <2>1 DEF Mirrors, Follows
<1>7. CASE old # new
  <2>1. /\ observers' = [active |-> x, all |-> all, items |-> items, selected |-> new]
        /\ observers'.active = x
    BY <1>5, <1>7
  <2> QED
    BY <1>3, <2>1 DEF Mirrors, Follows
<1> QED
  BY <1>6, <1>7

-----------------------------------------------------------------------------
(* The list's operations.                                                  *)

LEMMA InsertObserved ==
  ASSUME ObserversInv, NEW w \in WebStates \ Tabs, NEW index \in 1 .. Len(list) + 1,
         NEW by, NEW activating \in BOOLEAN, InsertAtIndex(w, index, by, activating)
  PROVE  Mirrors' /\ (Follows => Follows')
<1> DEFINE shifted == IF activeIndex >= index THEN activeIndex + 1 ELSE activeIndex
           told == WebStateInsertedAt(observers, w, index,
                                      ActiveAt(InsertAt(list, index, w), shifted))
<1>1. /\ TypeOK /\ Mirrors /\ IsInjective(list) /\ list \in Seq(WebStates)
      /\ w \in WebStates /\ w \notin ToSet(list) /\ Len(list) \in Nat
      /\ activeIndex \in 0 .. Len(list)
  BY ListFacts DEF ObserversInv, IInv, TypeOK, NoDuplicates, Tabs
<1>2. /\ list' = InsertAt(list, index, w)
      /\ activeIndex' = IF activating THEN index ELSE shifted
      /\ observers' = IF activating
                      THEN NotifyIfActiveWebStateChanged(told, GetActiveWebState, w)
                      ELSE told
  BY DEF InsertAtIndex
<1>3. \A j \in 1 .. Len(list) + 1 :
        list'[j] = IF j < index THEN list[j] ELSE IF j = index THEN w ELSE list[j - 1]
  <2>1. \A j \in 1 .. Len(list) + 1 : InsertAt(list, index, w)[j] =
          IF j < index THEN list[j] ELSE IF j = index THEN w ELSE list[j - 1]
    <3>1. list \in Seq(WebStates) /\ w \in WebStates
      BY <1>1
    <3> HIDE DEF told, shifted
    <3> QED
      BY <3>1, InsertAtProperties
  <2> QED
    BY <1>2, <2>1
<1>4. Tabs' = Tabs \union {w}
  BY <1>1, <1>2, InsertAtElements DEF Tabs
<1>5. ActiveAt(list', shifted) = GetActiveWebState
  BY <1>1, <1>3 DEF ActiveAt, GetActiveWebState
<1>6. told = [active |-> observers.active, all |-> Tabs', items |-> list',
              selected |-> GetActiveWebState]
  <2>1. told = WebStateInsertedAt(observers, w, index, GetActiveWebState)
    BY <1>2, <1>5
  <2>2. /\ observers.all = Tabs /\ observers.items = list
        /\ observers.active = observers.active
    BY <1>1 DEF Mirrors
  <2>3. told = [observers EXCEPT !.all = Tabs', !.items = list',
                                 !.selected = GetActiveWebState]
    BY <1>2, <1>4, <2>1, <2>2 DEF WebStateInsertedAt
  <2> HIDE DEF told
  <2> QED
    BY <1>1, <2>3 DEF Mirrors
<1>7. GetActiveWebState \in WebStates \union {None} /\ GetActiveWebState # w
  <2>1. GetActiveWebState \in Tabs \union {None} /\ Tabs \subseteq WebStates
    BY <1>1, ActiveFacts, ListFacts
  <2> QED
    BY <1>1, <2>1 DEF Tabs
<1>8. CASE activating
  <2>1. GetActiveWebState' = w
    BY <1>2, <1>3, <1>1, <1>8 DEF GetActiveWebState, ActiveAt
  <2>2. observers' = NotifyIfActiveWebStateChanged(told, GetActiveWebState, w)
    BY <1>2, <1>8
  <2> HIDE DEF told, shifted
  <2> QED
    BY <1>1, <1>6, <1>7, <2>1, <2>2, NotifyMirrors DEF Follows
<1>9. CASE ~activating
  <2>1. GetActiveWebState' = GetActiveWebState
    BY <1>2, <1>5, <1>9 DEF GetActiveWebState
  <2> QED
    BY <1>2, <1>6, <1>9, <2>1 DEF Mirrors, Follows
<1> QED
  BY <1>8, <1>9

LEMMA DetachObserved ==
  ASSUME ObserversInv, NEW index \in 1 .. Len(list), DetachWebStateAt(index)
  PROVE  Mirrors' /\ (Follows => Follows')
<1> DEFINE w    == list[index]
           told == WebStateDetachedAt(observers, w, GetActiveWebState')
<1>1. /\ TypeOK /\ Mirrors /\ IsInjective(list) /\ list \in Seq(WebStates)
      /\ w \in WebStates /\ Len(list) \in Nat /\ activeIndex \in 0 .. Len(list) /\ IInv
  BY ListFacts DEF ObserversInv, IInv, TypeOK, NoDuplicates
<1>2. /\ list' = RemoveAt(list, index)
      /\ activeIndex' = ActiveIndexAfterDetach(index)
      /\ observers' = IF index = activeIndex
                      THEN NotifyIfActiveWebStateChanged(told, w, GetActiveWebState')
                      ELSE told
  BY DEF DetachWebStateAt, GetActiveWebState
<1>3. /\ Len(list') = Len(list) - 1
      /\ \A j \in 1 .. Len(list) - 1 : list'[j] = IF j < index THEN list[j] ELSE list[j + 1]
  BY <1>1, <1>2, RemoveAtProperties
<1>4. Tabs' = Tabs \ {w}
  BY <1>1, <1>2, RemoveAtElements DEF Tabs
<1>5. activeIndex' \in 0 .. Len(list')
  BY <1>1, DetachStep
<1>6. \A j \in 1 .. Len(list) - 1 : list'[j] \in WebStates /\ list'[j] # w
  <2>1. /\ \A i \in 1 .. Len(list) : list[i] \in WebStates
        /\ \A i, j \in 1 .. Len(list) : list[i] = list[j] => i = j
    BY <1>1, ListFacts DEF IsInjective
  <2> SUFFICES ASSUME NEW j \in 1 .. Len(list) - 1
               PROVE  list'[j] \in WebStates /\ list'[j] # w
    OBVIOUS
  <2> DEFINE k == IF j < index THEN j ELSE j + 1
  <2>2. k \in 1 .. Len(list) /\ k # index
    BY <1>1
  <2>3. list'[j] = list[k]
    BY <1>3
  <2> QED
    BY <2>1, <2>2, <2>3
<1>7. GetActiveWebState' \in WebStates \union {None} /\ GetActiveWebState' # w
  <2>1. GetActiveWebState' = IF activeIndex' = 0 THEN None ELSE list'[activeIndex']
    BY DEF GetActiveWebState, ActiveAt
  <2>2. CASE activeIndex' = 0
    BY <1>1, <2>1, <2>2
  <2>3. CASE activeIndex' # 0
    <3>1. activeIndex' \in 1 .. Len(list) - 1
      BY <1>1, <1>3, <1>5, <2>3
    <3> QED
      BY <1>6, <2>1, <2>3, <3>1
  <2> QED
    BY <2>2, <2>3
<1>8. told = [active |-> observers.active, all |-> Tabs', items |-> list',
              selected |-> GetActiveWebState']
  <2>1. RemoveFirst(list, w) = list'
    BY <1>1, <1>2, RemoveFirstIsRemoveAt
  <2>2. observers.all = Tabs /\ observers.items = list
    BY <1>1 DEF Mirrors
  <2>3. told = [observers EXCEPT !.all = Tabs', !.items = list',
                                 !.selected = GetActiveWebState']
    BY <1>4, <2>1, <2>2 DEF WebStateDetachedAt
  <2> HIDE DEF told, w
  <2> QED
    BY <1>1, <2>3 DEF Mirrors
<1>9. CASE index = activeIndex
  <2>1. w = GetActiveWebState
    BY <1>9 DEF GetActiveWebState, ActiveAt
  <2>2. observers' = NotifyIfActiveWebStateChanged(told, w, GetActiveWebState')
    BY <1>2, <1>9
  <2> HIDE DEF told, w
  <2> QED
    BY <1>1, <1>7, <1>8, <2>1, <2>2, NotifyMirrors DEF Follows
<1>10. CASE index # activeIndex
  <2>1. activeIndex' = IF activeIndex > index THEN activeIndex - 1 ELSE activeIndex
    BY <1>1, <1>2, <1>10 DEF ActiveIndexAfterDetach
  <2>2. GetActiveWebState' = GetActiveWebState
    <3>1. GetActiveWebState' = IF activeIndex' = 0 THEN None ELSE list'[activeIndex']
      BY DEF GetActiveWebState, ActiveAt
    <3>2. GetActiveWebState = IF activeIndex = 0 THEN None ELSE list[activeIndex]
      BY DEF GetActiveWebState, ActiveAt
    <3> QED
      BY <1>1, <1>3, <1>10, <2>1, <3>1, <3>2
  <2>3. observers' = told
    BY <1>2, <1>10
  <2> QED
    BY <1>8, <2>2, <2>3 DEF Mirrors, Follows
<1> QED
  BY <1>9, <1>10

\* Where the active WebState was before another one moved.
LEMMA MovedIndex ==
  ASSUME NEW n \in Nat, NEW from \in 1 .. n, NEW to \in 1 .. n, NEW a \in 1 .. n,
         from # to, a # from, NEW b,
         b = IF a \in from .. to THEN a - 1 ELSE IF a \in to .. from THEN a + 1 ELSE a
  PROVE  /\ b \in 1 .. n /\ b # to
         /\ b < to => b \in 1 .. n - 1 /\ a = IF b < from THEN b ELSE b + 1
         /\ ~(b < to) => /\ b - 1 \in 1 .. n - 1
                         /\ a = IF b - 1 < from THEN b - 1 ELSE (b - 1) + 1
OBVIOUS

LEMMA MoveObserved ==
  ASSUME ObserversInv, NEW from \in 1 .. Len(list), NEW to \in 1 .. Len(list),
         MoveWebStateAt(from, to)
  PROVE  Mirrors' /\ (Follows => Follows')
<1> DEFINE w    == list[from]
           rest == RemoveAt(list, from)
<1>1. /\ TypeOK /\ Mirrors /\ IsInjective(list) /\ list \in Seq(WebStates)
      /\ w \in WebStates /\ Len(list) \in Nat /\ activeIndex \in 0 .. Len(list)
      /\ w \in ToSet(list)
  BY ListFacts DEF ObserversInv, IInv, TypeOK, NoDuplicates, Tabs
<1>2. /\ list' = InsertAt(rest, to, w) /\ activeIndex' = MovedActiveIndex(from, to)
      /\ observers' = WebStateMoved(observers, w, to) /\ from # to
  BY DEF MoveWebStateAt
<1>3. /\ rest \in Seq(WebStates) /\ Len(rest) = Len(list) - 1
      /\ \A j \in 1 .. Len(list) - 1 : rest[j] = IF j < from THEN list[j] ELSE list[j + 1]
  BY <1>1, RemoveAtProperties
<1>4. RemoveFirst(list, w) = rest
  BY <1>1, RemoveFirstIsRemoveAt
<1>5. IsInjective(rest) /\ ToSet(rest) = ToSet(list) \ {w}
  BY <1>1, RemoveAtElements
<1> HIDE DEF rest, w
<1>6. to \in 1 .. Len(rest) + 1 /\ w \notin ToSet(rest)
  BY <1>1, <1>3, <1>5
<1>7. Tabs' = Tabs
  <2>1. ToSet(InsertAt(rest, to, w)) = ToSet(rest) \union {w}
    BY <1>1, <1>3, <1>5, <1>6, InsertAtElements
  <2> QED
    BY <1>1, <1>2, <1>5, <2>1 DEF Tabs
<1>8. \A j \in 1 .. Len(list) :
        list'[j] = IF j < to THEN rest[j] ELSE IF j = to THEN w ELSE rest[j - 1]
  <2>1. \A j \in 1 .. Len(rest) + 1 : InsertAt(rest, to, w)[j] =
          IF j < to THEN rest[j] ELSE IF j = to THEN w ELSE rest[j - 1]
    BY <1>1, <1>3, <1>6, InsertAtProperties
  <2> QED
    BY <1>1, <1>2, <1>3, <2>1
<1>9. GetActiveWebState' = GetActiveWebState
  <2>1. GetActiveWebState' = IF activeIndex' = 0 THEN None ELSE list'[activeIndex']
    BY DEF GetActiveWebState, ActiveAt
  <2>2. GetActiveWebState = IF activeIndex = 0 THEN None ELSE list[activeIndex]
    BY DEF GetActiveWebState, ActiveAt
  <2>3. CASE activeIndex = 0
    <3>1. activeIndex' = 0
      BY <1>2, <2>3 DEF MovedActiveIndex
    <3> QED
      BY <2>1, <2>2, <2>3, <3>1
  <2>4. CASE activeIndex = from
    <3>1. activeIndex' = to
      BY <1>2, <2>4 DEF MovedActiveIndex
    <3> QED
      BY <1>8, <2>1, <2>2, <2>4, <3>1 DEF w
  <2>5. CASE activeIndex # 0 /\ activeIndex # from
    <3>1. activeIndex' = IF activeIndex \in from .. to THEN activeIndex - 1
                         ELSE IF activeIndex \in to .. from THEN activeIndex + 1
                         ELSE activeIndex
      BY <1>2, <2>5 DEF MovedActiveIndex
    <3>2. activeIndex \in 1 .. Len(list) /\ from \in 1 .. Len(list) /\ to \in 1 .. Len(list)
      BY <1>1, <2>5
    <3>3. /\ activeIndex' \in 1 .. Len(list) /\ activeIndex' # to
          /\ activeIndex' < to =>
               /\ activeIndex' \in 1 .. Len(list) - 1
               /\ activeIndex = IF activeIndex' < from THEN activeIndex' ELSE activeIndex' + 1
          /\ ~(activeIndex' < to) =>
               /\ activeIndex' - 1 \in 1 .. Len(list) - 1
               /\ activeIndex = IF activeIndex' - 1 < from THEN activeIndex' - 1
                                ELSE (activeIndex' - 1) + 1
      BY <1>1, <1>2, <2>5, <3>1, <3>2, MovedIndex
    <3>4. /\ activeIndex' < to => list'[activeIndex'] = rest[activeIndex']
          /\ ~(activeIndex' < to) => list'[activeIndex'] = rest[activeIndex' - 1]
      BY <1>8, <3>3
    <3>5. ASSUME activeIndex' < to PROVE list'[activeIndex'] = list[activeIndex]
      <4>1. rest[activeIndex'] = IF activeIndex' < from THEN list[activeIndex']
                                 ELSE list[activeIndex' + 1]
        BY <1>3, <3>3, <3>5
      <4>2. activeIndex = IF activeIndex' < from THEN activeIndex' ELSE activeIndex' + 1
        BY <3>3, <3>5
      <4>3. rest[activeIndex'] = list[activeIndex]
        BY <4>1, <4>2
      <4> QED
        BY <3>4, <3>5, <4>3
    <3>6. ASSUME ~(activeIndex' < to) PROVE list'[activeIndex'] = list[activeIndex]
      <4>1. rest[activeIndex' - 1] = IF activeIndex' - 1 < from THEN list[activeIndex' - 1]
                                     ELSE list[(activeIndex' - 1) + 1]
        BY <1>3, <3>3, <3>6
      <4>2. activeIndex = IF activeIndex' - 1 < from THEN activeIndex' - 1
                          ELSE (activeIndex' - 1) + 1
        BY <3>3, <3>6
      <4>3. rest[activeIndex' - 1] = list[activeIndex]
        BY <4>1, <4>2
      <4> QED
        BY <3>4, <3>6, <4>3
    <3>7. activeIndex' # 0
      BY <3>3
    <3>8. list'[activeIndex'] = list[activeIndex]
      BY <3>5, <3>6
    <3> QED
      BY <2>1, <2>2, <2>5, <3>7, <3>8
  <2> QED
    BY <2>3, <2>4, <2>5
<1>10. observers' = [active |-> observers.active, all |-> Tabs', items |-> list',
                     selected |-> GetActiveWebState']
  BY <1>1, <1>2, <1>4, <1>7, <1>9 DEF WebStateMoved, Mirrors
<1> QED
  BY <1>9, <1>10 DEF Mirrors, Follows

LEMMA ReplaceObserved ==
  ASSUME ObserversInv, NEW index \in 1 .. Len(list), NEW w \in WebStates \ Tabs,
         ReplaceWebStateAt(index, w)
  PROVE  Mirrors' /\ (index = activeIndex /\ Follows => Follows')
<1> DEFINE old  == list[index]
           told == WebStateReplacedAt(observers, old, w)
<1>1. /\ TypeOK /\ Mirrors /\ IsInjective(list) /\ list \in Seq(WebStates)
      /\ old \in WebStates /\ Len(list) \in Nat /\ activeIndex \in 0 .. Len(list)
      /\ w \in WebStates /\ w \notin ToSet(list) /\ old \in Tabs
  BY ListFacts DEF ObserversInv, IInv, TypeOK, NoDuplicates, Tabs
<1>2. /\ list' = [list EXCEPT ![index] = w] /\ activeIndex' = activeIndex
      /\ observers' = NotifyIfActiveWebStateChanged(told, old,
                        IF index = activeIndex THEN w ELSE GetActiveWebState)
  BY DEF ReplaceWebStateAt
<1>3. \A j \in 1 .. Len(list) : list'[j] = IF j = index THEN w ELSE list[j]
  BY <1>1, <1>2
<1>4. Tabs' = (Tabs \ {old}) \union {w}
  <2> DEFINE t == [list EXCEPT ![index] = w]
  <2>1. ToSet(t) = (ToSet(list) \ {old}) \union {w}
    BY <1>1, ReplaceAtElements
  <2> QED
    BY <1>2, <2>1 DEF Tabs
<1>5. ReplaceAll(list, old, w) = list'
  <2>1. ReplaceAll(list, list[index], w) = [list EXCEPT ![index] = w]
    BY <1>1, ReplaceAllIsExcept
  <2> QED
    BY <1>2, <2>1
<1>6. told = [active |-> observers.active, all |-> Tabs', items |-> list',
              selected |-> GetActiveWebState]
  <2>1. observers.all = Tabs /\ observers.items = list
    BY <1>1 DEF Mirrors
  <2>2. told = [observers EXCEPT !.all = Tabs', !.items = list']
    BY <1>4, <1>5, <2>1 DEF WebStateReplacedAt
  <2>3. observers = [active |-> observers.active, all |-> Tabs, items |-> list,
                     selected |-> GetActiveWebState]
    BY <1>1 DEF Mirrors
  <2> DEFINE p == [observers EXCEPT !.all = Tabs']
  <2>4. p = [active |-> observers.active, all |-> Tabs', items |-> list,
             selected |-> GetActiveWebState]
    BY <2>3
  <2>5. [observers EXCEPT !.all = Tabs', !.items = list'] = [p EXCEPT !.items = list']
    BY <2>3
  <2> HIDE DEF told, old, p
  <2>6. [p EXCEPT !.items = list'] =
          [active |-> observers.active, all |-> Tabs', items |-> list',
           selected |-> GetActiveWebState]
    BY <2>4
  <2> QED
    BY <2>2, <2>5, <2>6
<1>7. /\ GetActiveWebState' = IF index = activeIndex THEN w ELSE GetActiveWebState
      /\ old # GetActiveWebState'
  <2>1. GetActiveWebState' = IF activeIndex = 0 THEN None ELSE list'[activeIndex]
    BY <1>2 DEF GetActiveWebState, ActiveAt
  <2>2. GetActiveWebState = IF activeIndex = 0 THEN None ELSE list[activeIndex]
    BY DEF GetActiveWebState, ActiveAt
  <2>3. index # activeIndex /\ activeIndex # 0 => list[activeIndex] # old
    BY <1>1 DEF IsInjective
  <2>4. w # old
    BY <1>1 DEF Tabs
  <2>5. None # old
    BY <1>1
  <2>6. CASE activeIndex = 0
    BY <2>1, <2>2, <2>5, <2>6
  <2>7. CASE activeIndex # 0
    <3>1. activeIndex \in 1 .. Len(list)
      BY <1>1, <2>7
    <3> QED
      BY <1>3, <2>1, <2>2, <2>3, <2>4, <2>7, <3>1
  <2> QED
    BY <2>6, <2>7
<1>8. GetActiveWebState' \in WebStates \union {None}
  BY <1>1, <1>7, ActiveFacts, ListFacts
<1>9. index = activeIndex => old = GetActiveWebState
  BY DEF GetActiveWebState, ActiveAt
<1>10. observers' = NotifyIfActiveWebStateChanged(told, old, GetActiveWebState')
  BY <1>2, <1>7
<1> HIDE DEF told, old
<1>11. Mirrors' /\ (observers.active = Only(old) => Follows')
  BY <1>1, <1>6, <1>7, <1>8, <1>10, NotifyMirrors
<1> QED
  BY <1>9, <1>11 DEF Follows

LEMMA ActivateObserved ==
  ASSUME ObserversInv, NEW index \in 1 .. Len(list), ActivateIndex(index),
         UNCHANGED list
  PROVE  Mirrors' /\ (Follows => Follows')
<1>1. /\ Mirrors /\ list[index] \in WebStates
      /\ GetActiveWebState \in WebStates \union {None}
  BY ListFacts, ActiveFacts DEF ObserversInv, IInv
<1>2. GetActiveWebState' = list[index] /\ Tabs' = Tabs
  BY DEF ActivateIndex, GetActiveWebState, ActiveAt, Tabs
<1>3. observers = [active |-> observers.active, all |-> Tabs', items |-> list',
                   selected |-> GetActiveWebState]
  BY <1>1, <1>2 DEF Mirrors
<1>4. observers' = NotifyIfActiveWebStateChanged(observers, GetActiveWebState, list[index])
  BY DEF ActivateIndex
<1> QED
  BY <1>1, <1>2, <1>3, <1>4, NotifyMirrors DEF Follows

LEMMA UnchangedObserved ==
  ASSUME Mirrors, UNCHANGED << list, activeIndex, observers >>
  PROVE  Mirrors' /\ (Follows => Follows')
BY DEF Mirrors, Follows, Tabs, GetActiveWebState

-----------------------------------------------------------------------------
(* The specification.                                                      *)

LEMMA InitObservers == Init => ObserversInv
<1> SUFFICES ASSUME Init PROVE ObserversInv
  OBVIOUS
<1>1. Tabs = {} /\ GetActiveWebState = None
  BY DEF Init, Tabs, ToSet, GetActiveWebState, ActiveAt
<1>2. observers = [active |-> << >>, all |-> {}, items |-> << >>, selected |-> None]
  BY DEF Init
<1>3. Mirrors /\ Follows
  BY <1>1, <1>2 DEF Init, Mirrors, Follows, Only
<1> QED
  BY <1>3, InitIInv DEF ObserversInv

LEMMA NextMirrors ==
  ASSUME ObserversInv, [Next]_vars
  PROVE  Mirrors' /\ (ReplaceAnyIndex = FALSE => (Follows => Follows'))
<1>0. /\ IInv /\ Mirrors /\ TypeOK /\ Len(list) \in Nat /\ batch.oldCount \in Nat
      /\ session.tabs \in Seq(StoredTabs) /\ Len(session.tabs) \in Nat
  BY ListFacts DEF ObserversInv, IInv, TypeOK, SessionWindows
<1>1. ASSUME NEW w \in WebStates \ Tabs, NEW index \in 1 .. Len(list) + 1,
             NEW flags, NEW parent, InsertWebStateAt(w, index, flags, parent)
      PROVE  Mirrors' /\ (Follows => Follows')
  <2> DEFINE by == WebStateOpener(IF "INHERIT_OPENER" \in flags
                                  THEN GetActiveWebState ELSE parent)
             activating == "ACTIVATE" \in flags
  <2>1. activating \in BOOLEAN /\ InsertAtIndex(w, index, by, activating)
    BY <1>1 DEF InsertWebStateAt
  <2> HIDE DEF by, activating
  <2> QED
    BY <2>1, InsertObserved
<1>2. CASE Insert
  BY <1>1, <1>2 DEF Insert
<1>3. CASE InsertByOpener
  <2>1. PICK w \in WebStates \ Tabs, parent \in Tabs \union {None} :
          \E flags \in FlagsFor(parent) : InsertWebState(w, flags, parent)
    BY <1>3 DEF InsertByOpener
  <2>2. PICK flags : InsertWebState(w, flags, parent)
    BY <2>1
  <2> DEFINE by == IF "INHERIT_OPENER" \in flags
                   THEN GetActiveWebState ELSE parent
  <2>3. DetermineInsertionIndex(by) \in 1 .. Len(list) + 1
    BY <1>0, ActiveFacts, InsertionIndexIsValid
  <2> QED
    BY <1>1, <2>2, <2>3 DEF InsertWebState
<1>4. CASE Move
  BY <1>4, MoveObserved DEF Move
\* The forwarder is only right when the replaced WebState is the active one.
<1>5. CASE Replace
  BY <1>5, ReplaceObserved DEF Replace
<1>6. CASE Detach
  BY <1>6, DetachObserved DEF Detach
<1>7. CASE CloseLast
  <2>1. Len(list) \in 1 .. Len(list)
    BY <1>0, <1>7, EmptySeq DEF CloseLast, TypeOK
  <2> QED
    BY <1>7, <2>1, DetachObserved DEF CloseLast
<1>8. CASE Activate
  BY <1>8, ActivateObserved DEF Activate
<1>9. CASE RestoreTab
  <2>1. Len(list) + 1 \in 1 .. Len(list) + 1 /\ FALSE \in BOOLEAN
    BY <1>0
  <2> QED
    BY <1>9, <2>1, InsertObserved DEF RestoreTab
<1>10. CASE RestoreSelection
  <2>1. CASE session.selected # 0
    <3>1. batch.oldCount + session.selected \in 1 .. Len(list)
      BY <1>0, <1>10, <2>1 DEF IInv, TypeOK, RestoreProgress, RestoreSelection,
                               SessionWindows
    <3> QED
      BY <1>10, <2>1, <3>1, ActivateObserved DEF RestoreSelection
  <2>2. CASE session.selected = 0
    BY <1>0, <1>10, <2>2, UnchangedObserved DEF RestoreSelection
  <2> QED
    BY <2>1, <2>2
<1>11. CASE \/ Navigate \/ CloseAllWebStates \/ ClosedAll \/ DiscardSession
            \/ Deserialize \/ RestoreOpeners \/ RestoreEnded \/ UNCHANGED vars
  <2>1. UNCHANGED << list, activeIndex, observers >>
    BY <1>11 DEF Navigate, CloseAllWebStates, ClosedAll, DiscardSession,
                 Deserialize, RestoreOpeners, RestoreEnded, vars
  <2> QED
    BY <1>0, <2>1, UnchangedObserved
<1> QED
  BY <1>2, <1>3, <1>4, <1>5, <1>6, <1>7, <1>8, <1>9, <1>10, <1>11 DEF Next

LEMMA NextObservers == ObserversInv /\ [Next]_vars => ObserversInv'
<1> SUFFICES ASSUME ObserversInv, [Next]_vars PROVE ObserversInv'
  OBVIOUS
<1>1. IInv'
  BY NextIInv DEF ObserversInv
<1>2. Mirrors' /\ (ReplaceAnyIndex = FALSE => (Follows => Follows'))
  BY NextMirrors
<1>3. ReplaceAnyIndex = FALSE => Follows
  BY DEF ObserversInv
<1> QED
  BY <1>1, <1>2, <1>3 DEF ObserversInv

(***************************************************************************)
(* The tab grid's items and selection and the WebStates the forwarder for  *)
(* all of them observes are the list's, after every operation and between  *)
(* the steps of closing all tabs and of a restore, for any number of tabs: *)
(* also when an inactive WebState is replaced.                             *)
(***************************************************************************)
THEOREM ObserversAgree == Spec => []ObserversMirrorList
<1>1. ObserversInv => ObserversMirrorList
  <2> SUFFICES ASSUME ObserversInv PROVE ObserversMirrorList
    OBVIOUS
  <2>1. observers = [active |-> observers.active, all |-> Tabs, items |-> list,
                     selected |-> GetActiveWebState]
    BY DEF ObserversInv, Mirrors
  <2>2. observers.all = Tabs
    BY <2>1
  <2>3. observers.items = list
    BY <2>1
  <2>4. observers.selected = GetActiveWebState
    BY <2>1
  <2> QED
    BY <2>2, <2>3, <2>4 DEF ObserversMirrorList
<1> QED
  BY InitObservers, NextObservers, <1>1, PTL DEF Spec

(***************************************************************************)
(* ActiveWebStateObservationForwarder observes the active WebState and no  *)
(* other as long as no inactive WebState is replaced, which no caller of   *)
(* ReplaceWebStateAt in the application does.                              *)
(***************************************************************************)
THEOREM ForwarderObservesActive ==
  ASSUME ReplaceAnyIndex = FALSE
  PROVE  Spec => []ForwarderFollowsActive
<1>1. ObserversInv => ForwarderFollowsActive
  <2> SUFFICES ASSUME ObserversInv PROVE ForwarderFollowsActive
    OBVIOUS
  <2>1. Follows /\ TypeOK
    BY DEF ObserversInv, IInv
  <2>2. activeIndex # 0 => list[activeIndex] # None
    BY <2>1, ListFacts DEF TypeOK
  <2> QED
    BY <2>1, <2>2 DEF Follows, Only, GetActiveWebState, ActiveAt, ForwarderFollowsActive
<1> QED
  BY InitObservers, NextObservers, <1>1, PTL DEF Spec

-----------------------------------------------------------------------------
(* The selection.                                                          *)

(***************************************************************************)
(* Without the fix too, DetermineNewActiveIndex chooses no tab only for    *)
(* the last tab, even of a list in which a tab is its own opener.          *)
(***************************************************************************)
LEMMA SomeTabIsChosen ==
  ASSUME IInv, NEW r \in 1 .. Len(list), Len(list) # 1
  PROVE  DetermineNewActiveIndex(r) \in Int /\ DetermineNewActiveIndex(r) # 0
<1> USE DEF IInv
<1> DEFINE parent  == opener[list[r]].ws
           child   == GetIndexOfNextWebStateOpenedBy(list[r], r)
           sibling == GetIndexOfNextWebStateOpenedBy(parent, r)
           up      == GetIndexOfWebState(parent)
           chosen  == DetermineNewActiveIndex(r)
           n       == Len(list)
<1>1. /\ child = 0 \/ child \in r + 1 .. n
      /\ sibling = 0 \/ sibling \in r + 1 .. n
  BY ListFacts, NextOpenedByFacts
<1>2. parent # None => up \in 1 .. n
  BY ListFacts, IndexFacts DEF NoDanglingOpener
<1>3. /\ child # 0 => chosen = GetValidIndex(child, r)
      /\ child = 0 /\ parent # None /\ sibling # 0 =>
           chosen = GetValidIndex(sibling, r)
      /\ child = 0 /\ parent # None /\ sibling = 0 => chosen = GetValidIndex(up, r)
      /\ child = 0 /\ parent = None => chosen = IF r = n THEN r - 1 ELSE r
  BY DEF DetermineNewActiveIndex
<1>4. n \in Nat /\ r \in 1 .. n /\ n # 1
  BY ListFacts
<1> HIDE DEF parent, child, sibling, up, chosen, n
<1>5. CASE child # 0
  BY <1>1, <1>3, <1>4, <1>5 DEF GetValidIndex, chosen
<1>6. CASE child = 0 /\ parent # None /\ sibling # 0
  BY <1>1, <1>3, <1>4, <1>6 DEF GetValidIndex, chosen
<1>7. CASE child = 0 /\ parent # None /\ sibling = 0
  BY <1>2, <1>3, <1>4, <1>7 DEF GetValidIndex, chosen
<1>8. CASE child = 0 /\ parent = None
  BY <1>3, <1>4, <1>8 DEF chosen
<1> QED
  BY <1>5, <1>6, <1>7, <1>8

LEMMA NextKeepsSelection ==
  ASSUME IInv, [Next]_vars, activeIndex # 0, list' # << >>
  PROVE  activeIndex' # 0
<1>0. /\ TypeOK /\ Len(list) \in Nat /\ activeIndex \in 1 .. Len(list)
      /\ batch.oldCount \in Nat /\ list \in Seq(WebStates)
  BY ListFacts DEF IInv, TypeOK
<1>1. ASSUME NEW w, NEW index \in 1 .. Len(list) + 1, NEW by, NEW activating,
             InsertAtIndex(w, index, by, activating)
      PROVE  activeIndex' # 0
  BY <1>0, <1>1 DEF InsertAtIndex
<1>2. CASE Insert
  BY <1>1, <1>2 DEF Insert, InsertWebStateAt
<1>3. CASE InsertByOpener
  <2>1. PICK w \in WebStates \ Tabs, parent \in Tabs \union {None} :
          \E flags \in FlagsFor(parent) : InsertWebState(w, flags, parent)
    BY <1>3 DEF InsertByOpener
  <2>2. PICK flags : InsertWebState(w, flags, parent)
    BY <2>1
  <2> DEFINE by == IF "INHERIT_OPENER" \in flags
                   THEN GetActiveWebState ELSE parent
  <2>3. DetermineInsertionIndex(by) \in 1 .. Len(list) + 1
    BY <1>0, ActiveFacts, InsertionIndexIsValid
  <2> QED
    BY <1>1, <2>2, <2>3 DEF InsertWebState, InsertWebStateAt
<1>4. CASE Move
  <2>1. PICK from \in 1 .. Len(list), to \in 1 .. Len(list) : MoveWebStateAt(from, to)
    BY <1>4 DEF Move
  <2>2. /\ activeIndex = from => activeIndex' = to
        /\ activeIndex # from =>
             activeIndex' = IF activeIndex \in from .. to THEN activeIndex - 1
                            ELSE IF activeIndex \in to .. from THEN activeIndex + 1
                            ELSE activeIndex
    BY <2>1 DEF MoveWebStateAt, MovedActiveIndex
  <2> QED
    BY <1>0, <2>1, <2>2
<1>5. ASSUME NEW index \in 1 .. Len(list), DetachWebStateAt(index)
      PROVE  activeIndex' # 0
  <2>1. activeIndex' = ActiveIndexAfterDetach(index) /\ list' = RemoveAt(list, index)
    BY <1>5 DEF DetachWebStateAt
  <2>2. Len(list) # 1
    <3>1. list' \in Seq(WebStates) /\ Len(list') = Len(list) - 1
      BY <1>5, DetachStep
    <3> QED
      BY <3>1, EmptySeq
  <2>3. activeIndex # index =>
          activeIndex' = IF activeIndex > index THEN activeIndex - 1 ELSE activeIndex
    BY <1>0, <2>1 DEF ActiveIndexAfterDetach
  <2>4. activeIndex = index =>
          activeIndex' \in {DetermineNewActiveIndex(index), Len(list) - 1}
    BY <1>0, <2>1 DEF ActiveIndexAfterDetach
  <2>5. DetermineNewActiveIndex(index) # 0
    BY <2>2, SomeTabIsChosen
  <2>6. CASE activeIndex # index
    BY <1>0, <1>5, <2>3, <2>6
  <2>7. CASE activeIndex = index
    <3>1. Len(list) - 1 # 0
      BY <1>0, <2>2
    <3> QED
      BY <2>4, <2>5, <2>7, <3>1
  <2> QED
    BY <2>6, <2>7
<1>6. CASE Detach
  BY <1>5, <1>6 DEF Detach
<1>7. CASE CloseLast
  <2>1. Len(list) \in 1 .. Len(list)
    BY <1>0
  <2> QED
    BY <1>5, <1>7, <2>1 DEF CloseLast
<1>8. CASE Activate
  BY <1>0, <1>8 DEF Activate, ActivateIndex
<1>9. CASE RestoreTab
  <2>1. Len(list) + 1 \in 1 .. Len(list) + 1
    BY <1>0
  <2> QED
    BY <1>1, <1>9, <2>1 DEF RestoreTab
<1>10. CASE RestoreSelection
  <2>1. session.selected \in Nat
    BY <1>0 DEF TypeOK, SessionWindows
  <2>2. \/ session.selected # 0 /\ activeIndex' = batch.oldCount + session.selected
        \/ activeIndex' = activeIndex
    BY <1>10 DEF RestoreSelection, ActivateIndex
  <2> QED
    BY <1>0, <2>1, <2>2
<1>11. CASE \/ Replace \/ Navigate \/ CloseAllWebStates \/ ClosedAll
            \/ DiscardSession \/ Deserialize \/ RestoreOpeners \/ RestoreEnded
            \/ UNCHANGED vars
  BY <1>11 DEF Replace, ReplaceWebStateAt, Navigate, CloseAllWebStates, ClosedAll,
               DiscardSession, Deserialize, RestoreOpeners, RestoreEnded, vars
<1> QED
  BY <1>2, <1>3, <1>4, <1>6, <1>7, <1>8, <1>9, <1>10, <1>11 DEF Next

(***************************************************************************)
(* A window that has an active tab keeps one as long as it has tabs: no    *)
(* sequence of closings, moves and restores deselects, whatever openers a  *)
(* stored session brought in.                                              *)
(***************************************************************************)
THEOREM SelectionStays == Spec => SelectionSurvives
<1>1. IInv /\ [Next]_vars =>
        [activeIndex # 0 /\ list' # << >> => activeIndex' # 0]_vars
  BY NextKeepsSelection
<1> QED
  BY InitIInv, NextIInv, <1>1, PTL DEF Spec, SelectionSurvives
=============================================================================
