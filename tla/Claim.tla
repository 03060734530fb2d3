------------------------------- MODULE Claim -------------------------------
(***************************************************************************)
(* What first-boot setup promises, without any of its mechanism: a box is  *)
(* claimed at most once, by one owner, and from that moment the bot        *)
(* credentials and the recovery hash that were published with the claim    *)
(* are final.  Until the claim they may be rewritten any number of times.  *)
(* Setup.tla is checked and proved to implement this until two forms are   *)
(* in progress at once.                                                    *)
(***************************************************************************)
CONSTANTS Owners,       \* summaries that can become the owner's record
          Credentials,  \* complete bot credential files
          Keys,         \* recovery keys
          NotYet        \* nobody has claimed the box

VARIABLES owner, creds, hash

claimVars == <<owner, creds, hash>>

Init == owner = NotYet

\* Before the claim, an attempt may leave any half-prepared files behind.
Prepare ==
    /\ owner = NotYet
    /\ owner' = NotYet

\* The claim publishes nothing but the owner: the files are already in place,
\* and the hash is that of the very key the owner is shown.
Take(o) ==
    /\ owner = NotYet
    /\ creds \in Credentials
    /\ hash = o.key
    /\ owner' = o
    /\ UNCHANGED <<creds, hash>>

Next == Prepare \/ \E o \in Owners : Take(o)

Spec == Init /\ [][Next]_claimVars
=============================================================================
