------------------------------ MODULE MCHandoff ------------------------------
(* Each pair of commands that can meet at the server or at the snapshot. *)
EXTENDS Handoff, TLC

CONSTANTS a, b

MCCommands ==
    {a :> "availability" @@ b :> y : y \in Ops}
    \cup {a :> "link" @@ b :> y : y \in Ops \ {"availability"}}
==============================================================================
