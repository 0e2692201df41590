---------------------------- MODULE MCClientLoop ----------------------------
(* Four columns and three rows, obstacles in the corner, at the border and  *)
(* inside; a rock can be seen and stops, a flower can be seen and does not. *)
EXTENDS ClientLoop

Map ==
  <<"grass", "grass", "grass", "none",
    "grass", "grass", "none",  "grass",
    "grass", "none",  "grass", "grass">>
  \o
  <<"none", "none", "rock", "none",
    "none", "none", "none", "rock",
    "rock", "none", "flower", "none">>
=============================================================================
