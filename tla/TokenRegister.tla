--------------------------- MODULE TokenRegister ---------------------------
(***************************************************************************)
(* What the MCP server's authentication promises its clients, without the  *)
(* files it is made of: at any moment the live token is valid, and at most *)
(* one other, the live token before it, for its grace at most.  A request  *)
(* is accepted only with a token that was valid when it came in, refused   *)
(* only with one that is not valid when it is refused, and left without an *)
(* answer only if there was a revocation meanwhile; a token that is no     *)
(* longer valid never is again.  McpToken.tla is checked and proved to     *)
(* implement this until two rotations are in progress at once.             *)
(***************************************************************************)
EXTENDS Naturals

CONSTANTS Tokens, Checks, First, Grace,
          NoToken   \* what a request that is not there has on offer

VARIABLES
    now,    \* the clock
    live,   \* the live token
    prior,  \* the token before it, and since when it is that: none or one of these
    used,   \* the tokens that are or were live
    req,    \* each request: its stage, its token, and was that valid when it came in
    cut     \* the requests during which there was a revocation

registerVars == <<now, live, prior, used, req, cut>>

NoRequest == [stage |-> "idle", token |-> NoToken, good |-> FALSE]

Init ==
    /\ now = 0
    /\ live = First
    /\ prior = {}
    /\ used = {First}
    /\ req = [c \in Checks |-> NoRequest]
    /\ cut = {}

InGrace(time, prs) == \A p \in prs : time < p.since + Grace

Valid(t) == t = live \/ \E p \in prior : p.token = t

Tick ==
    /\ now' = now + 1
    /\ prior' \in {{}, prior} /\ InGrace(now', prior')
    /\ UNCHANGED <<live, used, req, cut>>

\* A token nobody has seen goes live; the one before it keeps its grace, no other does.
Rotate(t) ==
    /\ t \in Tokens \ used
    /\ live' = t
    /\ prior' \in {{}, {[token |-> live, since |-> now]}} /\ InGrace(now, prior')
    /\ used' = used \cup {t}
    /\ UNCHANGED <<now, req, cut>>

\* Given up by the rotation to come, which may yet fail.
Lapse ==
    /\ prior' = {}
    /\ UNCHANGED <<now, live, used, req, cut>>

\* Revoked: the requests in progress may come to nothing.
Revoke ==
    /\ prior' = {}
    /\ cut' = {c \in Checks : req[c].stage = "asked"}
    /\ UNCHANGED <<now, live, used, req>>

Ask(c, t) ==
    /\ req[c].stage = "idle"
    /\ t \in used
    /\ req' = [req EXCEPT ![c] = [stage |-> "asked", token |-> t, good |-> Valid(t)]]
    /\ UNCHANGED <<now, live, prior, used, cut>>

Accept(c) ==
    /\ req[c].stage = "asked" /\ req[c].good
    /\ req' = [req EXCEPT ![c] = [@ EXCEPT !.stage = "accepted"]]
    /\ cut' = cut \ {c}
    /\ UNCHANGED <<now, live, prior, used>>

Reject(c) ==
    /\ req[c].stage = "asked" /\ ~Valid(req[c].token)
    /\ req' = [req EXCEPT ![c] = NoRequest]
    /\ cut' = cut \ {c}
    /\ UNCHANGED <<now, live, prior, used>>

\* No answer, but an error: only for a request that a revocation fell into.
Error(c) ==
    /\ req[c].stage = "asked" /\ c \in cut
    /\ req' = [req EXCEPT ![c] = NoRequest]
    /\ cut' = cut \ {c}
    /\ UNCHANGED <<now, live, prior, used>>

Ends(c) ==
    /\ req[c].stage = "accepted"
    /\ req' = [req EXCEPT ![c] = NoRequest]
    /\ UNCHANGED <<now, live, prior, used, cut>>

Next ==
    \/ Tick \/ Lapse \/ Revoke
    \/ \E t \in Tokens : Rotate(t)
    \/ \E c \in Checks :
         (\E t \in Tokens : Ask(c, t)) \/ Accept(c) \/ Reject(c) \/ Error(c) \/ Ends(c)

Spec == Init /\ [][Next]_registerVars
=============================================================================
