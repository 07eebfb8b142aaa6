--------------------------- MODULE MCWebStateList ---------------------------
(***************************************************************************)
(* Model-checking instances of WebStateList.                               *)
(***************************************************************************)
EXTENDS WebStateList, TLC

\* The WebStates are interchangeable.
Symmetry == Permutations(WebStates)

\* A session whose openers are out of bounds, cyclic, or the tab itself: an
\* index that SerializeWebStateList never writes and -intValue can return.
CorruptSessions ==
  {[tabs |-> << [opener |-> 2, openerNav |-> 0, nav |-> 0],
                [opener |-> o, openerNav |-> 0, nav |-> 0] >>,
    selected |-> 2] : o \in {1, 2, 7}}

NoSessions == {}
=============================================================================
