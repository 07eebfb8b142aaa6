----------------------------- MODULE MCOverlays -----------------------------
(***************************************************************************)
(* Model-checking instances of Overlays.                                   *)
(***************************************************************************)
EXTENDS Overlays, TLC

\* Tabs are interchangeable, and so are requests.
Symmetry == Permutations(WebStates) \union Permutations(Requests)
=============================================================================
