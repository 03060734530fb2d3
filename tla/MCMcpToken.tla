----------------------------- MODULE MCMcpToken -----------------------------
(***************************************************************************)
(* Instances of McpToken for TLC: tokens are all of one length.  A scene   *)
(* is a box with one rotation at a time, watched for longer than a grace,  *)
(* or one where two may overlap.                                           *)
(***************************************************************************)
EXTENDS McpToken, TLC

CONSTANTS r1, r2

VARIABLE scene

OneRotator == [rotators |-> {r1}, until |-> MaxTime]
TwoRotators == [rotators |-> {r1, r2}, until |-> Grace]

InScene == now <= scene.until /\ \A r \in Rotators : rot[r].pc # "idle" => r \in scene.rotators

MCInit == Init /\ scene \in {OneRotator, TwoRotators}
MCNext == UNCHANGED scene /\ Next /\ Histories /\ InScene'
MCSpec == MCInit /\ [][MCNext]_<<vars, histories, scene>>
=============================================================================
