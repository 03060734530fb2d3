----------------------------- MODULE MCPairing -----------------------------
(***************************************************************************)
(* Instances of Pairing for TLC.  Codes: two of the same peer with         *)
(* different nonces, one of another peer, one of this box itself; with a   *)
(* clock, one of the first two expires at once.  MCSpec takes the          *)
(* behaviours of Spec in which only the actors of one scene are busy, with *)
(* its codes and its clock.                                                *)
(***************************************************************************)
EXTENDS Pairing, TLC

CONSTANTS Scenes, p1, p2, n1, n2, n3, h1, h2, c1

Code(o, n, t) == [onion |-> o, nonce |-> n, expires |-> t]
MCCodes == {Code(p1, n1, 1), Code(p1, n2, 0), Code(p2, n3, 1), Code(Own, n3, 1)}
PeerCodes == {Code(p1, n1, 1), Code(p1, n2, 0), Code(p2, n3, 0), Code(Own, n3, 0)}

Accept(c) == [op |-> "accept", onion |-> c.onion, nonce |-> c.nonce]
Remove(o) == [op |-> "remove", onion |-> o, nonce |-> None]
AllTasks == {Accept(c) : c \in Codes} \cup {Remove(o) : o \in Onions}

\* Two requests of the wizard; one, while codes expire; one beside `pureprivacy pair`.
TwoRequests == [busy |-> {h1, h2}, tasks |-> AllTasks, clock |-> 0]
OneRequest == [busy |-> {h1}, tasks |-> AllTasks, clock |-> MaxTime]
BesideCli == [busy |-> {h1, c1}, clock |-> 0,
              tasks |-> {Accept(Code(p1, n1, 1)), Accept(Code(p2, n3, 0)), Remove(p1)}]
WizardScenes == {TwoRequests, OneRequest, BesideCli}
ReplayScenes == {OneRequest}

VARIABLE scene

InScene ==
    /\ now <= scene.clock
    /\ \A a \in Actors : task[a] # None => a \in scene.busy /\ task[a] \in scene.tasks

MCInit == Init /\ scene \in Scenes
MCNext == UNCHANGED scene /\ Next /\ InScene'
MCSpec == MCInit /\ [][MCNext]_<<vars, scene>> /\ Fairness
=============================================================================
