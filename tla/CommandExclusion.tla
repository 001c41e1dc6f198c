-------------------------- MODULE CommandExclusion --------------------------
(***************************************************************************)
(* What errbot promises its admin commands (comments in                    *)
(* ErrBot._process_command): the commands in progress are either ordinary  *)
(* ones, which may overlap, or one admin command alone; between the two    *)
(* the bot is idle, so that loading, unloading and updating plugins never  *)
(* happens under a running command.                                        *)
(***************************************************************************)
VARIABLE mode

Init == mode = "idle"

BeginShared == mode = "idle" /\ mode' = "shared"
EndShared == mode = "shared" /\ mode' = "idle"
BeginExclusive == mode = "idle" /\ mode' = "exclusive"
EndExclusive == mode = "exclusive" /\ mode' = "idle"

Next == BeginShared \/ EndShared \/ BeginExclusive \/ EndExclusive

Spec == Init /\ [][Next]_mode
=============================================================================
