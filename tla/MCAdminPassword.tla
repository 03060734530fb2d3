-------------------------- MODULE MCAdminPassword --------------------------
(***************************************************************************)
(* Instances of AdminPassword for TLC: an operator with a browser, which   *)
(* changes passwords, and a shell, which recovers and uses sessions.  A    *)
(* scene is a box where they set the password one at a time, or one where  *)
(* a change and a recovery may overlap.                                    *)
(***************************************************************************)
EXTENDS AdminPassword, TLC

Browser == [a \in Actors |-> IF a \in Web THEN {"change", "reset"} ELSE {"look", "recover"}]

VARIABLE scene

InScene ==
    CASE scene = "in turn" -> OneSetter
      [] scene = "overlapping" -> \A a \in Actors : op[a].kind # "look"

MCInit == Init /\ scene \in {"in turn", "overlapping"}
MCNext == UNCHANGED scene /\ Next /\ Meets /\ InScene'
MCSpec == MCInit /\ [][MCNext]_<<vars, met, scene>> /\ Fairness
=============================================================================
