--------------------------- MODULE AdminPassword ---------------------------
(***************************************************************************)
(* The admin's password, which two places hold: Synapse, and the wizard's  *)
(* .setup-complete.  Dashboard requests (coroutines of one event loop) and *)
(* admin_cli processes change it, or merely use an admin session; what     *)
(* they share is .setup-complete and the cached access token.              *)
(***************************************************************************)
EXTENDS TmpRename

CONSTANTS Web,        \* requests in progress in the wizard
          Cli,        \* admin_cli processes
          Passwords,
          First,      \* the password set up
          Tokens,     \* Synapse access tokens of the admin
          Kinds       \* Kinds[a]: the operations that actor a may be asked for

Actors == Web \cup Cli
Setting == {"change", "reset", "recover"}   \* the operations that set the password

ASSUME ActorsAssumption == Web \cap Cli = {}
ASSUME KindsAssumption ==
    /\ Kinds \in [Actors -> SUBSET (Setting \cup {"look"})]
    /\ \A a \in Actors : (IF a \in Web THEN "recover" ELSE "change") \notin Kinds[a]
ASSUME FirstAssumption == First \in Passwords
ASSUME TextsAssumption == (Tokens \cup Passwords) \cap Unreadable = {}
ASSUME LengthAssumption == ~Ragged   \* a new token is never longer than its file

VARIABLES
    syn,       \* Synapse: the password, the tokens it accepts, and whose temporary
               \* recovery user is active
    sentinel,  \* admin_password in .setup-complete; Empty: truncated
    cache,     \* secrets/admin_access_token and its .tmp
    op,        \* what each actor is doing
    unsettled, \* history: the last change of the password ended in less than success,
               \* or in a success while another was in progress
    met        \* history: of the operations in progress that set it, two have overlapped

vars == <<syn, sentinel, cache, op, unsettled>>

\* did: Synapse has the new password on this operation's account; calm (history):
\* the password recorded was the right one, and nobody reset it since.
Idle == [kind |-> "none", pc |-> "idle", pw |-> Absent, tok |-> Absent, new |-> Absent,
         did |-> FALSE, calm |-> FALSE]

Outcomes == {"ok", "refused", "failed"}

Init ==
    /\ syn = [pw |-> First, alive |-> {}, rec |-> {}]
    /\ sentinel = First
    /\ cache = NoFile(Actors)
    /\ op = [a \in Actors |-> Idle]
    /\ unsettled = FALSE
    /\ met = FALSE

At(a, stage) == op[a].pc = stage

\* An operation moves on, and forgets what it does not use any more.
Onward(o, stage) ==
    [o EXCEPT !.pc = stage,
              !.pw = IF stage \in {"whoami", "login"} THEN @ ELSE Absent,
              !.tok = IF stage \in {"whoami", "cache", "cacheOpen", "cacheFull", "call"}
                      THEN @ ELSE Absent,
              !.new = IF stage \in Outcomes THEN Absent ELSE @,
              !.calm = @ /\ stage \notin {"update", "ok", "failed"}]
GoTo(a, stage) == op' = [op EXCEPT ![a] = Onward(@, stage)]

-----------------------------------------------------------------------------
\* An operation begins: .setup-complete is read, and must name an admin.
\*   change: /change-admin-password     reset: /people/<admin>/reset-password, or
\*   recover: admin reset-password             user reset-password <admin>
\*   look: any other use of an admin session
Aims(k) == IF k = "look" THEN {Absent} ELSE Passwords

Started(k, n) ==
    IF k = "recover"
    THEN [Idle EXCEPT !.kind = k, !.pc = "register", !.new = n]
    ELSE [Idle EXCEPT !.kind = k, !.pc = "lookup", !.new = n, !.pw = sentinel,
                      !.calm = sentinel = syn.pw]

Begin(a, k, n) ==
    /\ At(a, "idle") /\ k \in Kinds[a] /\ n \in Aims(k)
    /\ sentinel \in Passwords
    /\ op' = [op EXCEPT ![a] = Started(k, n)]
    /\ UNCHANGED <<syn, sentinel, cache, unsettled>>

\* admin_session: the cached token, if there is one, ...
Lookup(a) ==
    /\ At(a, "lookup")
    /\ op' = [op EXCEPT ![a] = IF cache.live \in {Absent, Empty}
                               THEN Onward(@, "login")
                               ELSE [Onward(@, "whoami") EXCEPT !.tok = cache.live]]
    /\ UNCHANGED <<syn, sentinel, cache, unsettled>>

\* Mutant: the cached token is not tried out first.
WhoamiSkipped(a) ==
    /\ At(a, "whoami")
    /\ GoTo(a, "call")
    /\ UNCHANGED <<syn, sentinel, cache, unsettled>>

\* ... if Synapse still knows it (an error counts as no); ...
Whoami(a) ==
    /\ At(a, "whoami")
    /\ \/ op[a].tok \in syn.alive /\ GoTo(a, "call")
       \/ GoTo(a, "login")
    /\ UNCHANGED <<syn, sentinel, cache, unsettled>>

\* ... or a new one, for the password read at the beginning.  (A token nobody holds
\* any more is as good as new.)
Held == {cache.live, cache.tmp} \cup {op[a].tok : a \in Actors}

NewToken == CHOOSE t \in Tokens : t \notin Held

Login(a) ==
    /\ At(a, "login") /\ op[a].pw = syn.pw
    /\ Tokens \ Held # {}
    /\ syn' = [syn EXCEPT !.alive = (@ \cap Held) \cup {NewToken}]
    /\ op' = [op EXCEPT ![a] = [Onward(@, "cache") EXCEPT !.tok = NewToken]]
    /\ UNCHANGED <<sentinel, cache, unsettled>>

LoginRefused(a) ==
    /\ At(a, "login") /\ op[a].pw # syn.pw
    /\ GoTo(a, "refused")
    /\ UNCHANGED <<syn, sentinel, cache, unsettled>>

\* _store_cached_admin_token
OpenCache(a) ==
    /\ At(a, "cache")
    /\ cache' = Opened(cache, a)
    /\ GoTo(a, "cacheOpen")
    /\ UNCHANGED <<syn, sentinel, unsettled>>

FillCache(a) ==
    /\ At(a, "cacheOpen")
    /\ cache' \in Filled(cache, a, op[a].tok)
    /\ GoTo(a, "cacheFull")
    /\ UNCHANGED <<syn, sentinel, unsettled>>

ReplaceCache(a) ==
    /\ At(a, "cacheFull") /\ cache.tmp # Absent
    /\ cache' = Replaced(cache)
    /\ GoTo(a, "call")
    /\ UNCHANGED <<syn, sentinel, unsettled>>

\* Somebody else's .tmp of the same name, and it is gone.
CacheMoved(a) ==
    /\ At(a, "cacheFull") /\ cache.tmp = Absent
    /\ cache' = Closed(cache, {a})
    /\ GoTo(a, "failed")
    /\ UNCHANGED <<syn, sentinel, unsettled>>

-----------------------------------------------------------------------------
\* Synapse carries out a reset: it signs out every device of the admin's but those
\* of `kept`.
SetPassword(a, kept, stage) ==
    /\ syn' = [syn EXCEPT !.pw = op[a].new, !.alive = kept]
    /\ op' = [b \in Actors |-> IF b = a THEN [Onward(op[b], stage) EXCEPT !.did = TRUE]
                                       ELSE [op[b] EXCEPT !.calm = FALSE]]

\* What follows the answer: only a change is recorded.
AfterAnyReset(a) == "ok"    \* mutant: a change is not recorded either
AfterReset(a) == IF op[a].kind = "change" THEN "update" ELSE "ok"

\* reset_user_password.  The answer may be lost on its way.
Reset(a) ==
    /\ At(a, "call") /\ op[a].kind \in Setting /\ op[a].tok \in syn.alive
    /\ \E stage \in {AfterReset(a), "failed"} : SetPassword(a, {op[a].tok}, stage)
    /\ UNCHANGED <<sentinel, cache, unsettled>>

Look(a) ==
    /\ At(a, "call") /\ op[a].kind = "look" /\ op[a].tok \in syn.alive
    /\ GoTo(a, "ok")
    /\ UNCHANGED <<syn, sentinel, cache, unsettled>>

CallRefused(a) ==
    /\ At(a, "call") /\ op[a].tok \notin syn.alive
    /\ GoTo(a, "refused")
    /\ UNCHANGED <<syn, sentinel, cache, unsettled>>

-----------------------------------------------------------------------------
\* Mutant: the recovery user always has the same name, so that one left behind by an
\* earlier recovery, whose password nobody knows, is in the way.
RegisterOneName(a) ==
    /\ At(a, "register")
    /\ syn' = [syn EXCEPT !.rec = @ \cup {a}]
    /\ GoTo(a, IF a \in syn.rec THEN "refused" ELSE "recLogin")
    /\ UNCHANGED <<sentinel, cache, unsettled>>

\* admin reset-password: an admin with a name of its own is registered, ...
Register(a) ==
    /\ At(a, "register")
    /\ syn' = [syn EXCEPT !.rec = @ \cup {a}]
    /\ \E stage \in {"recLogin", "failed"} : GoTo(a, stage)
    /\ UNCHANGED <<sentinel, cache, unsettled>>

\* ... logged in, ...
RecLogin(a) ==
    /\ At(a, "recLogin")
    /\ GoTo(a, "recReset")
    /\ UNCHANGED <<syn, sentinel, cache, unsettled>>

\* ... used for the reset, ...
RecReset(a) ==
    /\ At(a, "recReset")
    /\ \E stage \in {"recDrop", "failed"} : SetPassword(a, {}, stage)
    /\ UNCHANGED <<sentinel, cache, unsettled>>

\* ... and deactivated.
Deactivate(a) == syn' = [syn EXCEPT !.rec = @ \ {a}]

RecDrop(a) ==
    /\ At(a, "recDrop")
    /\ Deactivate(a)
    /\ \E stage \in {"update", "failed"} : GoTo(a, stage)
    /\ UNCHANGED <<sentinel, cache, unsettled>>

\* Synapse answers one of the two with an error: a last attempt at deactivating.
RecError(a) ==
    /\ op[a].pc \in {"recReset", "recDrop"}
    /\ GoTo(a, "cleanup")
    /\ UNCHANGED <<syn, sentinel, cache, unsettled>>

Cleanup(a) ==
    /\ At(a, "cleanup")
    /\ Deactivate(a) \/ UNCHANGED syn
    /\ GoTo(a, "failed")
    /\ UNCHANGED <<sentinel, cache, unsettled>>

-----------------------------------------------------------------------------
\* update_admin_password: .setup-complete is read and truncated, ...
Truncate(a) ==
    /\ At(a, "update") /\ sentinel # Empty
    /\ sentinel' = Empty
    /\ GoTo(a, "write")
    /\ UNCHANGED <<syn, cache, unsettled>>

\* ... and written.  The last things after it, a counter and the answer, may fail.
Fill(a) ==
    /\ At(a, "write")
    /\ sentinel' = op[a].new
    /\ \E stage \in {"ok", "failed"} : GoTo(a, stage)
    /\ UNCHANGED <<syn, cache, unsettled>>

\* A call or a write fails, or .setup-complete is not JSON (only then can the update
\* fail before it truncates).
Fails(a) ==
    /\ op[a].pc \notin {"idle", "lookup", "cleanup"} \cup Outcomes
    /\ At(a, "update") => sentinel = Empty
    /\ GoTo(a, "failed")
    /\ cache' = Closed(cache, {a})
    /\ UNCHANGED <<syn, sentinel, unsettled>>

Leave(A) == op' = [a \in Actors |-> IF a \in A THEN Idle ELSE op[a]]

\* The actor reports how it went.
Report(a) ==
    /\ op[a].pc \in Outcomes
    /\ Leave({a})
    /\ unsettled' = IF At(a, "ok") /\ op[a].kind \in {"change", "recover"} /\ ~met THEN FALSE
                    ELSE unsettled \/ op[a].did
    /\ UNCHANGED <<syn, sentinel, cache>>

\* The wizard stops with all its requests, or a process is killed.
Die(A) ==
    /\ \E a \in A : op[a].pc \notin {"idle"} \cup Outcomes
    /\ Leave(A)
    /\ cache' = Closed(cache, A)
    /\ unsettled' = (unsettled \/ \E a \in A : op[a].did)
    /\ UNCHANGED <<syn, sentinel>>

\* rotate-admin-token
Forget ==
    /\ Cli # {} /\ cache.live # Absent
    /\ cache' = [cache EXCEPT !.live = Absent]
    /\ UNCHANGED <<syn, sentinel, op, unsettled>>

-----------------------------------------------------------------------------
\* Files are written without an await: no other request of the wizard runs meanwhile.
Blocking(a) == op[a].pc \in {"cacheOpen", "cacheFull", "write"}
Runs(a) == a \in Web => \A b \in Web \ {a} : ~Blocking(b)

Step(a) ==
    \/ Lookup(a) \/ Whoami(a) \/ Login(a) \/ LoginRefused(a)
    \/ OpenCache(a) \/ FillCache(a) \/ ReplaceCache(a) \/ CacheMoved(a)
    \/ Reset(a) \/ Look(a) \/ CallRefused(a)
    \/ Register(a) \/ RecLogin(a) \/ RecReset(a) \/ RecDrop(a) \/ Cleanup(a)
    \/ Truncate(a) \/ Fill(a) \/ Report(a)

Next ==
    \/ \E a \in Actors :
         /\ Runs(a)
         /\ \/ \E k \in Kinds[a], n \in Passwords \cup {Absent} : Begin(a, k, n)
            \/ Step(a) \/ RecError(a) \/ Fails(a)
    \/ Die(Web) \/ (\E c \in Cli : Die({c})) \/ Forget

\* The history of who met whom.
Setters == {a \in Actors : op[a].kind \in Setting}
OneSetter == \A a, b \in Setters : a = b
Meets == met' = (Setters' # {} /\ (met \/ ~OneSetter'))

Spec == Init /\ [][Next /\ Meets]_<<vars, met>>

\* Calls return or time out; an operator goes on trying to recover.
Recover == \E c \in Cli, n \in Passwords : Begin(c, "recover", n)
Fairness == SF_vars(Recover) /\ \A a \in Actors : WF_vars(Runs(a) /\ Step(a))

FairSpec == Spec /\ Fairness

-----------------------------------------------------------------------------
Stages ==
    {"idle", "lookup", "whoami", "login", "cache", "cacheOpen", "cacheFull", "call", "register",
     "recLogin", "recReset", "recDrop", "cleanup", "update", "write"} \cup Outcomes

Operations ==
    [kind : {"none", "look"} \cup Setting, pc : Stages, pw : {Absent} \cup Passwords,
     tok : {Absent, Garbage} \cup Tokens, new : {Absent} \cup Passwords,
     did : BOOLEAN, calm : BOOLEAN]

\* The domain of each variable.
TypeOK ==
    /\ syn \in [pw : Passwords, alive : SUBSET Tokens, rec : SUBSET Cli]
    /\ sentinel \in {Empty} \cup Passwords
    /\ cache \in File(Actors, Tokens)
    /\ op \in [Actors -> Operations]
    /\ unsettled \in BOOLEAN
    /\ met \in BOOLEAN

\* .setup-complete records Synapse's password unless an operation has yet to report, or
\* the last one that set it reported less than success (a reset of the admin as of any
\* other user counts as that), or met another: a change or a recovery that met no other
\* and reports success puts right whatever came before.
NoSilentDrift == sentinel # syn.pw => unsettled \/ \E a \in Actors : op[a].did

\* Nothing the cached token or its file goes through makes Synapse refuse an operation
\* that started out with the right password.
CacheIsHarmless == \A a \in Actors : At(a, "refused") => ~op[a].calm

\* "then update the local sentinel atomically" (server.py:910): whatever failed or died,
\* .setup-complete still names an admin when nobody is at work, and the dashboard and
\* the recovery, which both start from it, can be used.
RecoveryAvailable == (\A a \in Actors : At(a, "idle")) => sentinel \in Passwords

\* When nothing fails any more and nobody but a recovery sets the password, an operator
\* who goes on recovering gets the two to agree, whatever was left behind by failures,
\* short of a torn .setup-complete.
Trouble ==
    \E a \in Actors :
        \/ At(a, "idle") /\ op'[a].kind \in {"change", "reset"}
        \/ op[a].pc \notin {"idle"} \cup Outcomes /\ op'[a].pc \in {"idle", "failed", "cleanup"}
Heals == (<>[][~Trouble]_vars) => []<>(sentinel \in {syn.pw, Empty})
=============================================================================
