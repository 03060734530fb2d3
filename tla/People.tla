------------------------------- MODULE People -------------------------------
(***************************************************************************)
(* The accounts of a box, as the people page and `pureprivacy user` change *)
(* them: requests that call Synapse, which keeps the accounts.  McpBot     *)
(* composes this with the bot, whose account is one of them.               *)
(***************************************************************************)
CONSTANTS Operators,    \* people pages and shells, with one request at a time each
          Names,        \* local parts of user ids
          Admin, Bot,   \* the names that setup registered
          Passwords,
          Absent

Hosts == {"own", "unknown"}     \* this box's server name; what register_user says for want of it
Ops == {"add", "remove", "reset"}
Asks == [op : Ops, name : Names, host : Hosts \cup {"bare"}]

ASSUME NamesAssumption == {Admin, Bot} \subseteq Names /\ Admin # Bot
ASSUME PasswordsAssumption == Passwords \cap {"free", "gone", Absent} = {}

VARIABLES
    recorded,   \* the host of the admin's and of the bot's id in .setup-complete
    account,    \* Synapse: an account's password; free, or gone (deactivated) for ever
    req,        \* each operator's request
    told,       \* the password on the last page about a person
    doubtful    \* history: names about whom a page may have promised too much or too little

peopleVars == <<recorded, account, req, told, doubtful>>

Idle == [at |-> "idle", op |-> "add", name |-> Admin, host |-> "bare", pw |-> Absent]

PeopleInit ==
    /\ recorded \in [{Admin, Bot} -> Hosts]
    /\ account = [n \in Names |-> "free"]
    /\ req = [o \in Operators |-> Idle]
    /\ told = [n \in Names |-> Absent]
    /\ doubtful = {}

\* _full_user_id: a bare name gets the host of the recorded admin.
HostOf(ask) == IF ask.host = "bare" THEN recorded[Admin] ELSE ask.host

\* Mutant: looks at the name as it was typed.
RefusedAsTyped(ask) ==
    ask.op = "remove" /\ \E n \in {Admin, Bot} : ask.name = n /\ ask.host = recorded[n]

\* remove_user: "refusing to deactivate".
Refused(ask) ==
    ask.op = "remove" /\ \E n \in {Admin, Bot} : ask.name = n /\ HostOf(ask) = recorded[n]

\* A request begins, with a password drawn for it.  register_user needs no session.
Begin(o, ask) ==
    /\ req[o] = Idle /\ ~Refused(ask)
    /\ \E pw \in IF ask.op = "remove" THEN {Absent}
                 ELSE Passwords \ ({account[ask.name]} \cup {req[p].pw : p \in Operators}) :
          req' = [req EXCEPT ![o] = [at |-> IF ask.op = "add" THEN "call" ELSE "session",
                                     op |-> ask.op, name |-> ask.name, host |-> HostOf(ask), pw |-> pw]]
    /\ UNCHANGED <<recorded, account, told, doubtful>>

\* admin_session (see AdminPassword).
HasSession(o) ==
    /\ req[o].at = "session"
    /\ req' = [req EXCEPT ![o].at = "call"]
    /\ UNCHANGED <<recorded, account, told, doubtful>>

Overtaken(o) == \E p \in Operators \ {o} : req[p].at = "answer" /\ req[p].name = req[o].name
Doubt(n, if) == doubtful' = IF if THEN doubtful \cup {n} ELSE doubtful
Answering(o) == req' = [req EXCEPT ![o].at = "answer"]

\* Synapse registers a new name; a taken one is a success too.
Register(o) ==
    LET n == req[o].name IN
    /\ req[o].at = "call" /\ req[o].op = "add"
    /\ account' = IF account[n] = "free" THEN [account EXCEPT ![n] = req[o].pw] ELSE account
    /\ Doubt(n, account[n] # "free" \/ Overtaken(o))
    /\ Answering(o)
    /\ UNCHANGED <<recorded, told>>

Existing(o) == req[o].host = "own" /\ account[req[o].name] # "free"

\* Synapse sets a password and signs every device out.
SetPassword(o) ==
    LET n == req[o].name IN
    /\ req[o].at = "call" /\ req[o].op = "reset" /\ Existing(o)
    /\ account' = IF account[n] = "gone" THEN account ELSE [account EXCEPT ![n] = req[o].pw]
    /\ Doubt(n, account[n] = "gone" \/ Overtaken(o))
    /\ Answering(o)
    /\ UNCHANGED <<recorded, told>>

Deactivate(o) ==
    LET n == req[o].name IN
    /\ req[o].at = "call" /\ req[o].op = "remove" /\ Existing(o)
    /\ account' = [account EXCEPT ![n] = "gone"]
    /\ Doubt(n, Overtaken(o))
    /\ Answering(o)
    /\ UNCHANGED <<recorded, told>>

\* Mutant: the page draws a password of its own.
AnswerRedrawn(o) ==
    /\ req[o].at = "answer"
    /\ \E pw \in Passwords : told' = [told EXCEPT ![req[o].name] = pw]
    /\ req' = [req EXCEPT ![o] = Idle]
    /\ UNCHANGED <<recorded, account, doubtful>>

\* The page to share with the person; after a removal, the list of people.
Answer(o) ==
    /\ req[o].at = "answer"
    /\ told' = [told EXCEPT ![req[o].name] = req[o].pw]
    /\ req' = [req EXCEPT ![o] = Idle]
    /\ UNCHANGED <<recorded, account, doubtful>>

\* No session, no such account, Synapse refuses or its answer is lost: an error page.
PersonFails(o) ==
    /\ req[o] # Idle
    /\ Doubt(req[o].name, req[o].at = "answer")
    /\ req' = [req EXCEPT ![o] = Idle]
    /\ UNCHANGED <<recorded, account, told>>

PeopleNext(asks) ==
    \E o \in Operators :
        \/ HasSession(o) \/ Register(o) \/ SetPassword(o) \/ Deactivate(o) \/ Answer(o) \/ PersonFails(o)
        \/ \E ask \in asks : Begin(o, ask)

-----------------------------------------------------------------------------
PeopleTypeOK ==
    /\ recorded \in [{Admin, Bot} -> Hosts]
    /\ account \in [Names -> Passwords \cup {"free", "gone"}]
    /\ req \in [Operators -> [at : {"idle", "session", "call", "answer"}, op : Ops, name : Names,
                              host : Hosts, pw : Passwords \cup {Absent}] \cup {Idle}]
    /\ told \in [Names -> Passwords \cup {Absent}]
    /\ doubtful \in SUBSET Names

\* "Both paths refuse to deactivate the original admin user or the MCP bot"
\* (docs/phone-setup.md:124), whether the name is typed bare or in full, if .setup-complete
\* has the id that Synapse gave it.
ProtectedStay == \A n \in {Admin, Bot} : recorded[n] = "own" => account[n] # "gone"

\* The password on the page to share is the account's, unless the name was taken
\* (or gone), the answer to a later request was lost, or two requests for one person
\* overlapped.
SharedPasswordWorks ==
    \A n \in Names : \/ told[n] \in {Absent, account[n]}
                     \/ n \in doubtful
                     \/ \E o \in Operators : req[o].at = "answer" /\ req[o].name = n
=============================================================================
