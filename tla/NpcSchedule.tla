---------------------------- MODULE NpcSchedule ----------------------------
(***************************************************************************)
(* What the server promises about the scheduling of its monsters: an NPC   *)
(* is asleep, waiting for its turn, or being moved by ONE thread.  A turn  *)
(* ends with the NPC queued for its next one or asleep, and only a wake-up *)
(* ends the sleep.  How the timer thread, the completion port and the      *)
(* flag SESSION::_is_active achieve this is NpcActivity.                   *)
(***************************************************************************)
CONSTANT Npcs

VARIABLE turn    \* turn[n]: where the NPC stands

Stages == {"asleep", "queued", "running"}

TurnOK == turn \in [Npcs -> Stages]

Init == turn = [n \in Npcs |-> "asleep"]

Change(n, from, to) ==
  /\ turn[n] = from
  /\ turn' = [turn EXCEPT ![n] = to]

Wake(n)  == Change(n, "asleep", "queued")
Run(n)   == Change(n, "queued", "running")
Again(n) == Change(n, "running", "queued")
Sleep(n) == Change(n, "running", "asleep")

Next == \E n \in Npcs : Wake(n) \/ Run(n) \/ Again(n) \/ Sleep(n)

Safety == Init /\ [][Next]_turn

\* A queued NPC gets its turn and a turn ends.
Liveness == \A n \in Npcs : /\ WF_turn(Run(n))
                            /\ WF_turn(Again(n) \/ Sleep(n))

Spec == Safety /\ Liveness
=============================================================================
