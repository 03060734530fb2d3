------------------------------- MODULE Setup -------------------------------
(***************************************************************************)
(* First-boot setup of the appliance: POST /setup of the wizard, the       *)
(* Synapse registration endpoint it calls, and the files it leaves on the  *)
(* shared volume.                                                          *)
(*                                                                         *)
(* do_setup is an async handler: other requests run only while it awaits   *)
(* Synapse, and after the last await it holds the event loop (loop) until  *)
(* it has written every file.  A crash of the wizard, or an I/O error, can *)
(* still fall between any two of those writes, and each write_text first   *)
(* truncates the file (Torn) and then fills it.                            *)
(*                                                                         *)
(* A registration in flight survives the request that sent it: Synapse may *)
(* still carry it out after the wizard timed out, crashed or restarted.    *)
(***************************************************************************)
EXTENDS FiniteSets

CONSTANTS Requests,      \* POST /setup requests that can be in progress at once
          Users,         \* admin usernames that pass the form's validation
          Passwords,     \* admin passwords that pass the form's validation
          Bot,           \* localpart of the MCP bot, "pureprivacy-mcp"
          BotPasswords,  \* values random_password(32) can draw
          Keys,          \* values generate_recovery_key() can draw
          Absent,        \* no such file, account, reply or request
          Torn           \* a file that was truncated and not yet filled

Names == Users \cup {Bot}
Secrets == Passwords \cup BotPasswords
Account == [pw : Secrets, admin : BOOLEAN]
Credentials == [pw : BotPasswords, made : BOOLEAN]
Summary == [user : Users, pw : Passwords, key : Keys, made : BOOLEAN]
Form == [user : Users, pw : Passwords, token : BOOLEAN]
Registration == [req : Requests \cup {Absent}, name : Names,
                 pw : Secrets, admin : BOOLEAN]
Work == [user : Users, pw : Passwords, made : BOOLEAN, botMade : BOOLEAN,
         botPw : BotPasswords \cup {Absent}, key : Keys \cup {Absent}]

ASSUME SentinelAssumption ==
    /\ Absent # Torn
    /\ Absent \notin Requests \cup BotPasswords \cup Keys \cup Account
    /\ {Absent, Torn} \cap (Credentials \cup Summary \cup Keys \cup Work) = {}

VARIABLES
    onion,      \* has Tor published onion_hostname?
    wizard,     \* the wizard container: "up" or "down"
    tokenFile,  \* is secrets/setup_token on disk, non-empty?
    creds,      \* secrets/mcp_bot_credentials.json
    hash,       \* secrets/recovery_hash (named by the key it is the hash of)
    sentinel,   \* .setup-complete
    accounts,   \* Synapse's user table
    inbox,      \* registration calls Synapse has not carried out yet
    reply,      \* Synapse's answer to the call a request is awaiting
    pc,         \* where each request is in do_setup
    work,       \* the local variables of each request
    loop,       \* request that holds the event loop, past its last await
    met,        \* history: were two requests ever in progress at once?
    contested   \* history: names Synapse was ever to have with two passwords

files == <<tokenFile, creds, hash, sentinel>>
synapse == <<accounts, inbox>>
vars == <<onion, wizard, tokenFile, creds, hash, sentinel,
          accounts, inbox, reply, pc, work, loop>>    \* all but the histories
histories == <<met, contested>>

Committing == {"creds", "credsTorn", "hash", "hashTorn",
               "sentinel", "sentinelTorn", "token"}
Awaiting == {"admin", "bot"}

\* SetupState.complete: the sentinel file exists, whatever is in it.
Complete == sentinel # Absent

\* The passwords at stake for a name: the account's, and those on their way.
AtStake(n) == {m.pw : m \in {c \in inbox : c.name = n}}
                \cup {a.pw : a \in {accounts[n]} \ {Absent}}

-----------------------------------------------------------------------------
Init ==
    /\ onion = FALSE
    /\ wizard = "down"
    /\ tokenFile = FALSE
    /\ creds = Absent
    /\ hash = Absent
    /\ sentinel = Absent
    /\ accounts = [n \in Names |-> Absent]
    /\ inbox = {}
    /\ reply = [r \in Requests |-> Absent]
    /\ pc = [r \in Requests |-> "idle"]
    /\ work = [r \in Requests |-> Absent]
    /\ loop = Absent
    /\ met = FALSE
    /\ contested = {}

\* Tor's publisher writes the hostname once the hidden service has one.
PublishOnion ==
    /\ ~onion
    /\ onion' = TRUE
    /\ UNCHANGED <<wizard, files, synapse, reply, pc, work, loop>>

\* Container start: the lifespan hook mints the setup token unless setup is
\* complete, and keeps one that is already there.
WizardStart ==
    /\ wizard = "down"
    /\ wizard' = "up"
    /\ tokenFile' = (tokenFile \/ ~Complete)
    /\ UNCHANGED <<onion, creds, hash, sentinel, synapse, reply, pc, work, loop>>

\* Calls whose caller is gone stay with Synapse, which may yet serve them.
Orphaned(calls, callers) ==
    {IF m.req \in callers THEN [m EXCEPT !.req = Absent] ELSE m : m \in calls}

\* The wizard container dies, or is restarted, at any point.
WizardCrash ==
    /\ wizard = "up"
    /\ wizard' = "down"
    /\ inbox' = Orphaned(inbox, Requests)
    /\ reply' = [r \in Requests |-> Absent]
    /\ pc' = [r \in Requests |-> "idle"]
    /\ work' = [r \in Requests |-> Absent]
    /\ loop' = Absent
    /\ UNCHANGED <<onion, files, accounts>>

\* The checks of do_setup that read state.  Any refusal (already complete, no
\* onion, wrong token) leaves everything as it is.
AdmitsClaimedBox(f) == onion /\ tokenFile /\ f.token    \* mutant: no complete check
Admits(f) == ~Complete /\ onion /\ tokenFile /\ f.token

\* do_setup up to its first await, for a well-formed form.
Submit(r, f) ==
    /\ wizard = "up" /\ loop = Absent /\ pc[r] = "idle"
    /\ Admits(f)
    /\ pc' = [pc EXCEPT ![r] = "admin"]
    /\ work' = [work EXCEPT ![r] =
                  [user |-> f.user, pw |-> f.pw, made |-> FALSE, botMade |-> FALSE,
                   botPw |-> Absent, key |-> Absent]]
    /\ inbox' = inbox \cup
                  {[req |-> r, name |-> f.user, pw |-> f.pw, admin |-> TRUE]}
    /\ UNCHANGED <<onion, wizard, files, accounts, reply, loop>>

\* Synapse carries out a registration: a new account, or "User ID already
\* taken", which register_user turns into success under the name's own user id
\* (the shipped homeserver serves the document _discover_user_id reads), with
\* whatever password the account has.
SynapseRegister(m) ==
    LET free == accounts[m.name] = Absent IN
    /\ m \in inbox
    /\ inbox' = inbox \ {m}
    /\ accounts' = IF free
                     THEN [accounts EXCEPT ![m.name] = [pw |-> m.pw, admin |-> m.admin]]
                     ELSE accounts
    /\ reply' = IF m.req = Absent
                  THEN reply
                  ELSE [reply EXCEPT ![m.req] = IF free THEN "created" ELSE "taken"]
    /\ UNCHANGED <<onion, wizard, files, pc, work, loop>>

\* A call whose caller is gone may also never be served.
SynapseDrop(m) ==
    /\ m \in inbox /\ m.req = Absent
    /\ inbox' = inbox \ {m}
    /\ UNCHANGED <<onion, wizard, files, accounts, reply, pc, work, loop>>

\* Mutant: the bot is registered with one drawn password and remembered with another.
AdminRegisteredDrawingTwice(r) ==
    /\ pc[r] = "admin" /\ reply[r] # Absent /\ loop = Absent
    /\ \E b, c \in BotPasswords :
         /\ work' = [work EXCEPT ![r] =
                       [@ EXCEPT !.made = (reply[r] = "created"), !.botPw = c]]
         /\ inbox' = inbox \cup
                       {[req |-> r, name |-> Bot, pw |-> b, admin |-> FALSE]}
    /\ pc' = [pc EXCEPT ![r] = "bot"]
    /\ reply' = [reply EXCEPT ![r] = Absent]
    /\ UNCHANGED <<onion, wizard, files, accounts, loop>>

\* The admin call returned: draw the bot's password and register the bot.  made
\* and botMade are history, of use to no one but the properties: Synapse made
\* the account for this very call.
AdminRegistered(r) ==
    /\ pc[r] = "admin" /\ reply[r] # Absent /\ loop = Absent
    /\ \E b \in BotPasswords :
         /\ work' = [work EXCEPT ![r] =
                       [@ EXCEPT !.made = (reply[r] = "created"), !.botPw = b]]
         /\ inbox' = inbox \cup
                       {[req |-> r, name |-> Bot, pw |-> b, admin |-> FALSE]}
    /\ pc' = [pc EXCEPT ![r] = "bot"]
    /\ reply' = [reply EXCEPT ![r] = Absent]
    /\ UNCHANGED <<onion, wizard, files, accounts, loop>>

\* Mutant: does not wait for Synapse to have the bot.
BotRegisteredUnawaited(r) ==
    /\ pc[r] = "bot" /\ loop = Absent
    /\ work' = work
    /\ pc' = [pc EXCEPT ![r] = "creds"]
    /\ reply' = [reply EXCEPT ![r] = Absent]
    /\ loop' = r
    /\ UNCHANGED <<onion, wizard, files, synapse>>

\* The bot call returned: no await is left, the request keeps the loop.
BotRegistered(r) ==
    /\ pc[r] = "bot" /\ reply[r] # Absent /\ loop = Absent
    /\ work' = [work EXCEPT ![r].botMade = (reply[r] = "created")]
    /\ pc' = [pc EXCEPT ![r] = "creds"]
    /\ reply' = [reply EXCEPT ![r] = Absent]
    /\ loop' = r
    /\ UNCHANGED <<onion, wizard, files, synapse>>

\* Mutant: the one-time token is spent on a failed attempt.
RegistrationFailsBurningToken(r) ==
    /\ pc[r] \in Awaiting /\ loop = Absent
    /\ pc' = [pc EXCEPT ![r] = "idle"]
    /\ work' = [work EXCEPT ![r] = Absent]
    /\ reply' = [reply EXCEPT ![r] = Absent]
    /\ inbox' = Orphaned(inbox, {r})
    /\ tokenFile' = FALSE
    /\ UNCHANGED <<onion, wizard, creds, hash, sentinel, accounts, loop>>

\* Any exception of register_user (timeout, refusal, Synapse down, the lookup
\* of a taken name failing) ends the request with a 500.
RegistrationFails(r) ==
    /\ pc[r] \in Awaiting /\ loop = Absent
    /\ pc' = [pc EXCEPT ![r] = "idle"]
    /\ work' = [work EXCEPT ![r] = Absent]
    /\ reply' = [reply EXCEPT ![r] = Absent]
    /\ inbox' = Orphaned(inbox, {r})
    /\ UNCHANGED <<onion, wizard, files, accounts, loop>>

-----------------------------------------------------------------------------
\* The commit: four writes in this order, none of them awaited.
Goto(r, from, to) == pc[r] = from /\ pc' = [pc EXCEPT ![r] = to]

TearCreds(r) ==
    /\ Goto(r, "creds", "credsTorn")
    /\ creds' = Torn
    /\ UNCHANGED <<onion, wizard, tokenFile, hash, sentinel, synapse, reply, work, loop>>

\* Mutant: goes on to the sentinel before the recovery hash.
FillCredsThenSentinel(r) ==
    /\ Goto(r, "credsTorn", "sentinel")
    /\ creds' = [pw |-> work[r].botPw, made |-> work[r].botMade]
    /\ UNCHANGED <<onion, wizard, tokenFile, hash, sentinel, synapse, reply, work, loop>>

FillCreds(r) ==
    /\ Goto(r, "credsTorn", "hash")
    /\ creds' = [pw |-> work[r].botPw, made |-> work[r].botMade]
    /\ UNCHANGED <<onion, wizard, tokenFile, hash, sentinel, synapse, reply, work, loop>>

TearHash(r) ==
    /\ Goto(r, "hash", "hashTorn")
    /\ \E k \in Keys : work' = [work EXCEPT ![r].key = k]
    /\ hash' = Torn
    /\ UNCHANGED <<onion, wizard, tokenFile, creds, sentinel, synapse, reply, loop>>

FillHash(r) ==
    /\ Goto(r, "hashTorn", "sentinel")
    /\ hash' = work[r].key
    /\ UNCHANGED <<onion, wizard, tokenFile, creds, sentinel, synapse, reply, work, loop>>

TearSentinel(r) ==
    /\ Goto(r, "sentinel", "sentinelTorn")
    /\ sentinel' = Torn
    /\ UNCHANGED <<onion, wizard, tokenFile, creds, hash, synapse, reply, work, loop>>

FillSentinel(r) ==
    /\ Goto(r, "sentinelTorn", "token")
    /\ sentinel' = [user |-> work[r].user, pw |-> work[r].pw,
                    key |-> work[r].key, made |-> work[r].made]
    /\ UNCHANGED <<onion, wizard, tokenFile, creds, hash, synapse, reply, work, loop>>

Release(r) ==
    /\ work' = [work EXCEPT ![r] = Absent]
    /\ loop' = Absent

\* _invalidate_setup_token swallows an OSError: the token may stay on disk.
RetireToken(r) ==
    /\ Goto(r, "token", "idle")
    /\ tokenFile' \in {FALSE, tokenFile}
    /\ Release(r)
    /\ UNCHANGED <<onion, wizard, creds, hash, sentinel, synapse, reply>>

\* A write raises (disk full, I/O error): a 500 with the files as they are.
WriteFails(r) ==
    /\ pc[r] \in Committing \ {"token"}
    /\ pc' = [pc EXCEPT ![r] = "idle"]
    /\ Release(r)
    /\ UNCHANGED <<onion, wizard, files, synapse, reply>>

Commit(r) ==
    \/ TearCreds(r) \/ FillCreds(r)
    \/ TearHash(r) \/ FillHash(r)
    \/ TearSentinel(r) \/ FillSentinel(r)
    \/ RetireToken(r)

Fault ==
    \/ WizardCrash
    \/ \E r \in Requests : RegistrationFails(r) \/ WriteFails(r)

Next ==
    \/ PublishOnion \/ WizardStart \/ WizardCrash
    \/ \E m \in inbox : SynapseRegister(m) \/ SynapseDrop(m)
    \/ \E r \in Requests :
         \/ \E f \in Form : Submit(r, f)
         \/ AdminRegistered(r) \/ BotRegistered(r)
         \/ RegistrationFails(r)
         \/ Commit(r) \/ WriteFails(r)

Histories ==
    /\ met' = (met \/ \E p, q \in Requests : p # q /\ pc'[p] # "idle" /\ pc'[q] # "idle")
    /\ contested' = contested \cup {n \in Names : \E p, q \in AtStake(n)' : p # q}

Spec == Init /\ [][Next /\ Histories]_<<vars, histories>>

\* Containers are restarted by docker, Tor keeps publishing, Synapse serves the
\* calls it gets, the event loop runs what is runnable, and the operator submits
\* a correct form again as long as setup is refused nowhere.
Fairness ==
    /\ WF_vars(PublishOnion) /\ WF_vars(WizardStart)
    /\ WF_vars(\E m \in inbox : m.req # Absent /\ SynapseRegister(m))
    /\ WF_vars(\E r \in Requests, f \in Form : Submit(r, f))
    /\ \A r \in Requests :
         /\ WF_vars(AdminRegistered(r)) /\ WF_vars(BotRegistered(r))
         /\ WF_vars(Commit(r))

FairSpec == Spec /\ Fairness
-----------------------------------------------------------------------------
\* Every variable stays within its domain; in particular no file ever holds the
\* summary, credentials or hash of an attempt that had not got that far.
TypeOK ==
    /\ onion \in BOOLEAN
    /\ wizard \in {"up", "down"}
    /\ tokenFile \in BOOLEAN
    /\ creds \in Credentials \cup {Absent, Torn}
    /\ hash \in Keys \cup {Absent, Torn}
    /\ sentinel \in Summary \cup {Absent, Torn}
    /\ accounts \in [Names -> Account \cup {Absent}]
    /\ inbox \in SUBSET Registration
    /\ reply \in [Requests -> {Absent, "created", "taken"}]
    /\ pc \in [Requests -> {"idle"} \cup Awaiting \cup Committing]
    /\ work \in [Requests -> Work \cup {Absent}]
    /\ loop \in Requests \cup {Absent}
    /\ met \in BOOLEAN
    /\ contested \in SUBSET Names

\* Until there is a .setup-complete, whole or torn, the operator's token works
\* while the wizard runs: no failure at an await, or at a write before the sentinel's,
\* burns it (the earlier bug server.py:369-373 describes).  Excepted: the write of
\* the sentinel itself, which torn by a fault does lock the operator out (Stuck).
RetryPossible == wizard = "up" /\ ~Complete => tokenFile

\* A box that shows its owner a summary has, in Synapse, the account the summary
\* names and the bot: whatever was lost, retried or reordered on the way there.
AccountsBehindSummary ==
    sentinel \in Summary => accounts[sentinel.user] # Absent /\ accounts[Bot] # Absent

\* name is registered, and with this password, if Synapse made the account for
\* the attempt that says so or was never to have the name with another password.
Backed(name, pw, made) ==
    /\ accounts[name] # Absent
    /\ made \/ name \notin contested => accounts[name].pw = pw

\* What the box records logs in, for the owner's summary and for the bot's
\* credentials, across lost answers, orphaned calls, overlaps and retries: always
\* if the account was made in the attempt that recorded it, and in a retry that
\* found the name taken as long as no attempt, of an owner or of the bot, came
\* with another password for that name.  Excepted, because it does fail: a taken
\* name retried with another password, as every retry does for the bot; the box then
\* records, under the right user id, what Synapse never stored (BotCanLogIn).
RecordedLogsIn ==
    /\ sentinel \in Summary => Backed(sentinel.user, sentinel.pw, sentinel.made)
    /\ creds \in Credentials => Backed(Bot, creds.pw, creds.made)

\* The sentinel appears only over a complete hand-over: bot credentials and
\* recovery hash whole on disk.  A crash or failure before it leaves the box
\* unclaimed, even if another attempt was torn half way.
ClaimAfterHandover ==
    [][~Complete /\ Complete' => creds \in Credentials /\ hash \in Keys]_vars

\* The recovery key on the dashboard is the one recovery_hash verifies: the two files
\* come from the same attempt, unless two requests were ever in progress at once.
RecoveryKeyUsable == ~met /\ sentinel \in Summary => hash = sentinel.key

\* "Token is consumed on first use; setup is otherwise refused" (SECURITY.md:67):
\* once a box shows its owner a summary, no other setup replaces it.
ClaimedOnce == [][(sentinel \in Summary) => (sentinel' = sentinel)]_vars

\* "The caller knows the original password" (synapse.py:59-60): the bot
\* credentials of a claimed box are those of the bot's Synapse account.
BotCanLogIn ==
    sentinel \in Summary /\ creds \in Credentials => accounts[Bot].pw = creds.pw

\* Setup implements the abstract claim until two requests are in progress at once.
Promise == INSTANCE Claim WITH
    Owners <- Summary, NotYet <- Absent,
    owner <- IF sentinel \in Summary THEN sentinel ELSE Absent
ImplementsClaim == Promise!Init /\ [][met' \/ Promise!Next]_(Promise!claimVars)

\* A fault between truncating and filling .setup-complete left it torn for good: the
\* box has no owner and refuses setup.
Stuck == sentinel = Torn /\ \A r \in Requests : pc[r] # "sentinelTorn"

\* However often Synapse, the wizard or the disk failed before, once failures
\* stop the box gets an owner: the token, half-written files, half-registered
\* users and orphaned calls of earlier attempts are no obstacle, and a torn
\* sentinel, which is one for ever, is the only one.
SetupCompletes == (<>[][~Fault]_vars) => <>(sentinel \in Summary \/ Stuck)
-----------------------------------------------------------------------------
(***************************************************************************)
(* The inductive invariant behind the theorems, in named parts.            *)
(***************************************************************************)
HasHash == {"sentinel", "sentinelTorn", "token"}
HasCreds == {"hash", "hashTorn"} \cup HasHash

\* What each request has computed, and who holds the event loop.
LocalsInv ==
    \A r \in Requests :
      /\ pc[r] # "idle" => work[r] \in Work
      /\ pc[r] \in Committing \cup {"bot"} => work[r].botPw \in BotPasswords
      /\ pc[r] \in {"hashTorn"} \cup HasHash => work[r].key \in Keys
      /\ pc[r] \in Committing <=> loop = r

\* Every call in flight with a caller is the one its caller awaits.
CallsInv ==
    /\ \A r \in Requests : reply[r] # Absent => pc[r] \in Awaiting
    /\ \A m \in inbox : m.req # Absent =>
         /\ reply[m.req] = Absent
         /\ \/ /\ pc[m.req] = "admin"
               /\ m.name = work[m.req].user /\ m.pw = work[m.req].pw
            \/ pc[m.req] = "bot" /\ m.name = Bot /\ m.pw = work[m.req].botPw
    /\ \A m, n \in inbox : m.req # Absent /\ m.req = n.req => m = n

\* What a committing request has put on disk.
FilesInv ==
    \A r \in Requests :
      /\ pc[r] \in HasCreds => creds \in Credentials
      /\ pc[r] \in HasHash => hash = work[r].key
      /\ pc[r] = "sentinelTorn" => sentinel = Torn
      /\ pc[r] = "token" => sentinel \in Summary

\* What Synapse holds behind a request's progress, and which names are contested.
ContestedInv == \A n \in Names : \A p, q \in AtStake(n) : p # q => n \in contested
AccountsInv ==
    \A r \in Requests :
      /\ pc[r] = "admin" /\ reply[r] # Absent =>
           Backed(work[r].user, work[r].pw, reply[r] = "created")
      /\ pc[r] \in Committing \cup {"bot"} =>
           Backed(work[r].user, work[r].pw, work[r].made)
      /\ pc[r] = "bot" /\ reply[r] # Absent =>
           Backed(Bot, work[r].botPw, reply[r] = "created")
      /\ pc[r] \in Committing => Backed(Bot, work[r].botPw, work[r].botMade)

SetupInv ==
    /\ TypeOK /\ LocalsInv /\ CallsInv /\ FilesInv /\ AccountsInv /\ ContestedInv
    /\ RetryPossible /\ AccountsBehindSummary /\ RecordedLogsIn

\* Until two requests were in progress at once, none is left in progress once the box
\* is claimed but the one that claimed it, and the key on show is the one hashed.
OneAtATime == \A p, q \in Requests : pc[p] # "idle" /\ pc[q] # "idle" => p = q
SerialInv ==
    ~met => /\ OneAtATime
            /\ Complete => \A r \in Requests : pc[r] \in {"idle", "sentinelTorn", "token"}
            /\ sentinel \in Summary => hash = sentinel.key
=============================================================================
