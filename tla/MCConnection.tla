---------------------------- MODULE MCConnection ----------------------------
(***************************************************************************)
(* Packets of 3, 5, 3, 8 (the whole buffer), 4 and 3 bytes.  Payload bytes *)
(* are 1; the byte behind a fragment is 1 and makes a wrong size, or 0 by  *)
(* luck.                                                                   *)
(***************************************************************************)
EXTENDS Connection, FiniteSetsExt

Sizes == <<3, 5, 3, 8, 4, 3>>
Starts == [i \in 0 .. Packets |-> MapThenSumSet(LAMBDA j : Sizes[j], 1 .. i)]
Values ==
  [b \in Bytes |->
     IF \E i \in 1 .. Packets : b = Start[i - 1] + 1
     THEN Size(CHOOSE i \in 1 .. Packets : b = Start[i - 1] + 1)
     ELSE IF \E i \in 1 .. Packets : b = Start[i - 1] + 2 THEN 0 ELSE 1]
ZeroOrOne == {0, 1}
=============================================================================
