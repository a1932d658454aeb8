---------------------------- MODULE GameLifecycle ----------------------------
(***************************************************************************)
(* What a game session promises to the code around it: it is created,       *)
(* starts, runs, stops and is disposed of, in that order, and a phase once  *)
(* left never comes back.  A game may be stopped, or fail, before it runs.  *)
(* GameEngine and every game of GameManager implement this.                 *)
(***************************************************************************)
VARIABLE lifecycle

Init == lifecycle = "created"

Start == lifecycle = "created" /\ lifecycle' = "starting"

Run == lifecycle = "starting" /\ lifecycle' = "running"

\* A stop, a failed start or a silent disposal.
Stop == lifecycle \in {"starting", "running"} /\ lifecycle' = "stopping"

Dispose == lifecycle = "stopping" /\ lifecycle' = "disposed"

Next == Start \/ Run \/ Stop \/ Dispose

Spec == Init /\ [][Next]_lifecycle

=============================================================================
