------------------------------ MODULE MCStack ------------------------------
(***************************************************************************)
(* Instances of Stack for TLC: a box without voice through the commands    *)
(* that do not destroy, with containers that die; one through backups,     *)
(* restores and resets; one with voice on which a backup of another host   *)
(* is restored, or which is reset; one whose restore meets errors that it  *)
(* ignores; one with voice whose containers die.                           *)
(***************************************************************************)
EXTENDS Stack

NoTarball == [disk |-> Empty, made |-> FALSE, mixed |-> FALSE]
Foreign == [disk |-> [tor |-> [key |-> 9], synapse |-> [name |-> 9],
                      postgres |-> [pw |-> 9, owner |-> 9],
                      shared |-> [pw |-> 9, host |-> 9, owner |-> 9, ca |-> 9]],
            made |-> TRUE, mixed |-> FALSE]
MCScenes == {
    [commands |-> {"down", "stop", "start", "restart", "backup"}, most |-> 3, voice |-> FALSE, crashes |-> TRUE, slips |-> FALSE, tarball |-> NoTarball],
    [commands |-> {"backup", "restore", "reset"}, most |-> 3, voice |-> FALSE, crashes |-> FALSE, slips |-> FALSE, tarball |-> NoTarball],
    [commands |-> {"restore", "reset"}, most |-> 1, voice |-> TRUE, crashes |-> FALSE, slips |-> FALSE, tarball |-> Foreign],
    [commands |-> {"restore"}, most |-> 1, voice |-> FALSE, crashes |-> FALSE, slips |-> TRUE, tarball |-> Foreign],
    [commands |-> {}, most |-> 0, voice |-> TRUE, crashes |-> TRUE, slips |-> FALSE, tarball |-> NoTarball]}
=============================================================================
