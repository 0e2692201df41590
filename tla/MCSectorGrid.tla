---------------------------- MODULE MCSectorGrid ----------------------------
(***************************************************************************)
(* Seven tiles to a sector and to the view range instead of fifteen, both  *)
(* odd, on a map of four by three sectors whose last column and row are    *)
(* cut off as the 2000 x 2000 map cuts them, with a wall and without a     *)
(* centre for the last sector of the first row.                            *)
(***************************************************************************)
EXTENDS SectorGrid

Wall == {<<9, 5>>, <<9, 6>>, <<9, 7>>, <<10, 7>>, <<26, 18>>}
Heap == {<<0, 0>>, <<1000, 1000>>}
=============================================================================
