------------------------------ MODULE MCSetup ------------------------------
(***************************************************************************)
(* Instances of Setup for TLC.  A scene is a box whose operator waits for  *)
(* the answer, or the restart, before submitting again, or one where two   *)
(* requests overlap: two browser tabs, or a tab and `pureprivacy init`.    *)
(***************************************************************************)
EXTENDS Setup

CONSTANTS r1, r2

VARIABLE scene

OneTab == [requests |-> {r1}, passwords |-> Passwords, keys |-> Keys]
TwoTabs == [requests |-> {r1, r2}, passwords |-> {CHOOSE p \in Passwords : TRUE},
            keys |-> {CHOOSE k \in Keys : TRUE}]

InScene ==
    \A r \in Requests :
        pc[r] # "idle" => /\ r \in scene.requests /\ work[r].pw \in scene.passwords
                          /\ work[r].key \in scene.keys \cup {Absent}

MCInit == Init /\ scene \in {OneTab, TwoTabs}
MCNext == UNCHANGED scene /\ Next /\ Histories /\ InScene'
MCSpec == MCInit /\ [][MCNext]_<<vars, histories, scene>> /\ Fairness
=============================================================================
