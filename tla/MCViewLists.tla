---------------------------- MODULE MCViewLists ----------------------------
(***************************************************************************)
(* Places on a line.  One sees who stands on the same place, and the       *)
(* search is sure to find those on the first place only.  A step leads to  *)
(* the next place, or nowhere: at a border it does.                        *)
(***************************************************************************)
EXTENDS ViewLists, Integers, TLC

CONSTANTS Length

Line == 1 .. Length
Within(d) == {<<a, b>> \in Line \X Line : a - b \in -d .. d}
Near == Within(1)
Here == Within(0)
Corner == {<<1, 1>>}
Alike == Permutations(Players)
=============================================================================
