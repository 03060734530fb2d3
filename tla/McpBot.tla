------------------------------- MODULE McpBot -------------------------------
(***************************************************************************)
(* The MCP server's Matrix bot: it waits for the credentials that setup    *)
(* writes, logs in or restores its session, syncs, accepts invitations and *)
(* posts for the tools.  It shares Synapse's accounts with the people page *)
(* (People).  An operation of asyncio ends at its awaits; the process may  *)
(* stop between any two.                                                   *)
(***************************************************************************)
EXTENDS People, Naturals, FiniteSets

CONSTANTS Scenes,       \* what a behaviour may be about: what operators ask for, whether the
                        \* mcp service is enabled, the rooms, and the passwords that are drawn
          Rooms,
          Inviters, Local,  \* users who invite the bot; those of this box
          Allowlist,    \* MCP_INVITE_ALLOWLIST
          Calls,        \* tool calls at a time
          Empty,        \* a file that was truncated and not filled
          MaxJoins      \* attempts at joining a room: 3

ASSUME BotAssumption ==
    /\ Scenes \subseteq [asks : SUBSET Asks, mcp : BOOLEAN, rooms : SUBSET Rooms, passwords : SUBSET Passwords]
    /\ Allowlist \subseteq Inviters /\ Local \subseteq Inviters /\ Inviters \cap {"out", "in"} = {}
    /\ Rooms # {} /\ MaxJoins \in Nat \ {0}
    /\ Empty \notin Passwords /\ Empty # Absent
    /\ {Absent, Empty} \cap {"good", "dead"} = {}

VARIABLES
    scene,      \* what this behaviour is about
    handed,     \* the bot password that a setup request has in hand
    creds,      \* mcp_bot_credentials.json: its password
    complete,   \* .setup-complete is there
    session,    \* session.json: its token, which Synapse knows ("good") or not ("dead")
    pc,         \* where the bot is
    bot,        \* the MatrixBot: password, token, ready, rooms it knows, invitations it
                \* has been sent, those still to handle, attempts at joining the next one
    member,     \* Synapse: the bot is in or out of each room, or was invited by somebody
    call,       \* tool calls
    vouched,    \* history: rooms that somebody allowed has invited it to
    missed      \* history: rooms whose latest invitation it could not accept

setupVars == <<scene, handed, creds, complete>>
roomVars == <<member, vouched>>
vars == <<peopleVars, setupVars, session, pc, bot, roomVars, call, missed>>

NoBot == [pw |-> Absent, token |-> Absent, ready |-> FALSE,
          rooms |-> {}, sent |-> {}, todo |-> {}, tries |-> 0]
NoCall == [at |-> "idle", room |-> CHOOSE r \in Rooms : TRUE]
Tokens == {"good", "dead"}

Init ==
    /\ PeopleInit
    /\ scene \in Scenes
    /\ handed = Absent /\ creds = Absent /\ complete = FALSE
    /\ session = Absent /\ pc = "wait" /\ bot = NoBot
    /\ member = [r \in Rooms |-> "out"]
    /\ call = [c \in Calls |-> NoCall]
    /\ vouched = {} /\ missed = {}

-----------------------------------------------------------------------------
\* Setup, as far as the bot sees it (see Setup).  It registers the admin and the bot,
\* or finds the bot's name taken by an earlier attempt, ...
SetupRegisters ==
    /\ ~complete /\ handed = Absent
    /\ \E pw \in scene.passwords :
          /\ handed' = pw
          /\ account' = [account EXCEPT ![Admin] = IF @ = "free" THEN CHOOSE p \in Passwords : TRUE ELSE @,
                                        ![Bot] = IF @ = "free" THEN pw ELSE @]
    /\ UNCHANGED <<recorded, req, told, doubtful, scene, creds, complete, session, pc, bot, roomVars, call,
                   missed>>

\* ... truncates the credentials, fills them, and is complete.
SetupTears ==
    /\ handed # Absent /\ creds # Empty /\ creds # handed
    /\ creds' = Empty
    /\ UNCHANGED <<peopleVars, scene, handed, complete, session, pc, bot, roomVars, call, missed>>

SetupFills ==
    /\ handed # Absent /\ creds = Empty
    /\ creds' = handed
    /\ UNCHANGED <<peopleVars, scene, handed, complete, session, pc, bot, roomVars, call, missed>>

SetupEnds ==
    /\ handed # Absent
    /\ handed' = Absent /\ complete' = (creds = handed)
    /\ UNCHANGED <<peopleVars, scene, creds, session, pc, bot, roomVars, call, missed>>

\* The people page.  What Synapse does to the bot's account ends its sessions.
Dead(token) == IF token = "good" THEN "dead" ELSE token
PeopleStep ==
    /\ complete /\ PeopleNext(scene.asks)
    /\ LET over == account'[Bot] # account[Bot] IN
         /\ session' = IF over THEN Dead(session) ELSE session
         /\ bot' = IF over THEN [bot EXCEPT !.token = Dead(@)] ELSE bot
    /\ UNCHANGED <<setupVars, pc, roomVars, call, missed>>

-----------------------------------------------------------------------------
\* The bot's own steps change no more than these.
Elsewhere == UNCHANGED <<peopleVars, setupVars, vouched, call>>
Moves(to) == pc' = to /\ Elsewhere

\* setup_bot: every five seconds it looks for credentials that can be read.
Poll ==
    /\ pc = "wait" /\ scene.mcp /\ creds \in Passwords
    /\ bot' = [NoBot EXCEPT !.pw = creds]
    /\ Moves("start") /\ UNCHANGED <<session, member, missed>>

\* MatrixBot.start restores the session on file, whatever Synapse thinks of it, ...
Restore ==
    /\ pc = "start" /\ session \in Tokens
    /\ bot' = [bot EXCEPT !.token = session]
    /\ Moves("upload") /\ UNCHANGED <<session, member, missed>>

\* Mutant: a session file that cannot be read is not replaced.
LogInIfAbsent ==
    /\ pc = "start" /\ session = Absent /\ account[Bot] = bot.pw
    /\ bot' = [bot EXCEPT !.token = "good"]
    /\ Moves("save") /\ UNCHANGED <<session, member, missed>>

\* ... or logs in and saves the session, in place.
LogIn ==
    /\ pc = "start" /\ session \notin Tokens /\ account[Bot] = bot.pw
    /\ bot' = [bot EXCEPT !.token = "good"]
    /\ Moves("save") /\ UNCHANGED <<session, member, missed>>

WrongPassword ==
    /\ pc = "start" /\ session \notin Tokens /\ account[Bot] # bot.pw
    /\ bot' = NoBot
    /\ Moves("wait") /\ UNCHANGED <<session, member, missed>>

SaveTears ==
    /\ pc = "save" /\ session' = Empty
    /\ Moves("fill") /\ UNCHANGED <<bot, member, missed>>

\* Mutant: goes on with a session whose saving failed, and fills the file no more.
SaveGivesUp ==
    /\ pc = "fill" /\ session' \in {session, bot.token}
    /\ Moves("upload") /\ UNCHANGED <<bot, member, missed>>

SaveFills ==
    /\ pc = "fill" /\ session' = bot.token
    /\ Moves("upload") /\ UNCHANGED <<bot, member, missed>>

\* keys_upload; then the tools see the bot, and it syncs.
UploadKeys ==
    /\ pc = "upload"
    /\ Moves("sync") /\ UNCHANGED <<session, bot, member, missed>>

\* start() raises: another attempt later, with the credentials as they are then.
StartFails ==
    /\ pc \in {"start", "save", "fill", "upload"}
    /\ bot' = NoBot
    /\ Moves("wait") /\ UNCHANGED <<session, member, missed>>

-----------------------------------------------------------------------------
\* A sync that Synapse accepts tells the bot its rooms and new invitations.  (One that
\* fails is tried again: nothing has changed.)
Joined == {r \in Rooms : member[r] = "in"}
Unsent == {r \in Rooms : member[r] \in Inviters} \ bot.sent
Sync ==
    /\ pc = "sync" /\ bot.token = "good"
    /\ ~bot.ready \/ bot.rooms # Joined \/ Unsent # {}
    /\ bot' = [bot EXCEPT !.rooms = Joined, !.sent = @ \cup Unsent,
                          !.todo = {[room |-> r, who |-> member[r]] : r \in Unsent}]
    /\ Moves("invites") /\ UNCHANGED <<session, member, missed>>

\* _invite_is_allowed.  The bot takes the server in its credentials for its own.
Allowed(who) == (who \in Local /\ recorded[Bot] = "own") \/ who \in Allowlist

\* Mutant: leaves the loop with the first room it has joined.
HandledAll(i) == [bot EXCEPT !.todo = {}, !.tries = 0]
Handled(i) == [bot EXCEPT !.todo = @ \ {i}, !.tries = 0]

Ignore(i) ==
    /\ pc = "invites" /\ i \in bot.todo /\ ~Allowed(i.who)
    /\ bot' = Handled(i)
    /\ Moves(pc) /\ UNCHANGED <<session, member, missed>>

\* Mutant: joins whatever it is invited to.
JoinAnyone(i) ==
    /\ pc = "invites" /\ i \in bot.todo /\ bot.token = "good" /\ member[i.room] # "out"
    /\ member' = [member EXCEPT ![i.room] = "in"]
    /\ bot' = Handled(i)
    /\ Moves(pc) /\ UNCHANGED <<session, missed>>

\* _on_invite joins the room, by whatever invitation stands now, ...
Join(i) ==
    /\ pc = "invites" /\ i \in bot.todo /\ Allowed(i.who)
    /\ bot.token = "good" /\ member[i.room] # "out"
    /\ member' = [member EXCEPT ![i.room] = "in"]
    /\ bot' = Handled(i)
    /\ Moves(pc) /\ UNCHANGED <<session, missed>>

\* Mutant: one attempt too many.
JoinRefusedLate(i) ==
    /\ pc = "invites" /\ i \in bot.todo /\ Allowed(i.who)
    /\ IF bot.tries < MaxJoins
         THEN bot' = [bot EXCEPT !.tries = @ + 1] /\ missed' = missed
         ELSE bot' = Handled(i) /\ missed' = missed \cup {i.room}
    /\ Moves(pc) /\ UNCHANGED <<session, member>>

\* ... and gives up after MaxJoins errors of Synapse's.
JoinRefused(i) ==
    /\ pc = "invites" /\ i \in bot.todo /\ Allowed(i.who)
    /\ IF bot.tries + 1 < MaxJoins
         THEN bot' = [bot EXCEPT !.tries = @ + 1] /\ missed' = missed
         ELSE bot' = Handled(i) /\ missed' = missed \cup {i.room}
    /\ Moves(pc) /\ UNCHANGED <<session, member>>

\* The exception of a call that did not get through ends the sync.  Whether the library
\* delivers the rest of its invitations again is the library's affair.
Remaining == {i.room : i \in bot.todo}
SyncBreaks ==
    /\ pc = "invites" /\ bot.todo # {}
    /\ \E again \in SUBSET Remaining :
          bot' = [bot EXCEPT !.todo = {}, !.tries = 0, !.sent = @ \ again]
    /\ missed' = missed \cup Remaining
    /\ Moves("sync") /\ UNCHANGED <<session, member>>

\* The first sync that comes to its end makes the bot ready, and it stays so.
Synced ==
    /\ pc = "invites" /\ bot.todo = {}
    /\ bot' = [bot EXCEPT !.ready = TRUE]
    /\ Moves("sync") /\ UNCHANGED <<session, member, missed>>

\* The container stops, or the process dies, and starts again.
Crash ==
    /\ pc # "wait"
    /\ pc' = "wait" /\ bot' = NoBot
    /\ call' = [c \in Calls |-> NoCall]
    /\ UNCHANGED <<peopleVars, setupVars, session, roomVars, missed>>

-----------------------------------------------------------------------------
\* A tool resolves its room: not before the bot is ready, and only one that it knows.
Use(c, r) ==
    /\ call[c] = NoCall /\ bot.ready /\ r \in bot.rooms
    /\ \E at \in {"look", "upload", "send"} : call' = [call EXCEPT ![c] = [at |-> at, room |-> r]]
    /\ UNCHANGED <<peopleVars, setupVars, session, pc, bot, roomVars, missed>>

\* get_room_history, get_room_members and mark_read change nothing that others see.
Look(c) ==
    /\ call[c].at = "look"
    /\ call' = [call EXCEPT ![c] = NoCall]
    /\ UNCHANGED <<peopleVars, setupVars, session, pc, bot, roomVars, missed>>

\* upload_file uploads, and then sends as send_message does.
Upload(c) ==
    /\ call[c].at = "upload" /\ bot.token = "good"
    /\ call' = [call EXCEPT ![c].at = "send"]
    /\ UNCHANGED <<peopleVars, setupVars, session, pc, bot, roomVars, missed>>

Send(c) ==
    /\ call[c].at = "send" /\ bot.token = "good" /\ member[call[c].room] = "in"
    /\ call' = [call EXCEPT ![c] = NoCall]
    /\ UNCHANGED <<peopleVars, setupVars, session, pc, bot, roomVars, missed>>

ToolFails(c) ==
    /\ call[c] # NoCall
    /\ call' = [call EXCEPT ![c] = NoCall]
    /\ UNCHANGED <<peopleVars, setupVars, session, pc, bot, roomVars, missed>>

-----------------------------------------------------------------------------
\* Users invite the bot (anew), withdraw an invitation, or turn it out of a room.
Invite(r, who) ==
    /\ account[Bot] \in Passwords /\ r \in scene.rooms /\ member[r] # "in"
    /\ member' = [member EXCEPT ![r] = who]
    /\ vouched' = IF Allowed(who) THEN vouched \cup {r} ELSE vouched
    /\ bot' = [bot EXCEPT !.sent = @ \ {r}]
    /\ missed' = missed \ {r}
    /\ UNCHANGED <<peopleVars, setupVars, session, pc, call>>

TurnOut(r) ==
    /\ member[r] # "out"
    /\ member' = [member EXCEPT ![r] = "out"]
    /\ UNCHANGED <<peopleVars, setupVars, session, pc, bot, vouched, call, missed>>

-----------------------------------------------------------------------------
SetupStep == SetupRegisters \/ SetupTears \/ SetupFills \/ SetupEnds
Goes == Poll \/ Restore \/ LogIn \/ WrongPassword \/ SaveTears \/ SaveFills \/ UploadKeys \/ Sync \/ Synced
Invitations == [room : Rooms, who : Inviters]
Handles == \E i \in Invitations : Ignore(i) \/ Join(i) \/ JoinRefused(i)
Trouble == StartFails \/ SyncBreaks \/ Crash
Next ==
    \/ SetupStep \/ PeopleStep \/ Goes \/ Handles \/ Trouble
    \/ \E r \in Rooms : TurnOut(r) \/ \E who \in Inviters : Invite(r, who)
    \/ \E c \in Calls : Look(c) \/ Upload(c) \/ Send(c) \/ ToolFails(c) \/ \E r \in Rooms : Use(c, r)

Spec == Init /\ [][Next]_vars

\* The event loop runs the bot on; each of its calls to Synapse returns.
FairSpec == Spec /\ WF_vars(Goes \/ Handles)

-----------------------------------------------------------------------------
TypeOK ==
    /\ PeopleTypeOK
    /\ handed \in Passwords \cup {Absent} /\ creds \in Passwords \cup {Absent, Empty} /\ complete \in BOOLEAN
    /\ session \in {Absent, Empty} \cup Tokens
    /\ pc \in {"wait", "start", "save", "fill", "upload", "sync", "invites"}
    /\ bot \in [pw : Passwords \cup {Absent}, token : {Absent} \cup Tokens, ready : BOOLEAN,
                rooms : SUBSET Rooms, sent : SUBSET Rooms, todo : SUBSET Invitations, tries : 0..MaxJoins-1]
    /\ scene \in Scenes /\ member \in [Rooms -> Inviters \cup {"out", "in"}]
    /\ call \in [Calls -> [at : {"idle", "look", "upload", "send"}, room : Rooms]]
    /\ vouched \in SUBSET Rooms /\ missed \in SUBSET Rooms

\* The bot is in, knows of, and posts to no room that nobody allowed has invited it to
\* (SECURITY.md:69, M14), however invitations are replaced while it handles them.
Posting == {call[c].room : c \in {d \in Calls : call[d].at # "idle"}}
OnlyWhereInvited == Joined \cup bot.rooms \cup Posting \subseteq vouched

\* From the upload of its keys on, the bot runs on the session on file: a crash, a stop
\* or a broken sync brings it back as the same device, the one its store has the keys
\* of, and what an operator's reset makes of the one it makes of the other; a stop that
\* cuts the saving short comes before any of its work.
SessionOnFile == pc \in {"upload", "sync", "invites"} => session \in Tokens /\ session = bot.token

\* The bot's credentials are right, trouble stops, and no reset of the bot's account has
\* left a dead session on file: that one the bot restores at every start, for ever.
Untroubled ==
    /\ <>[][Goes \/ Handles \/ ~Trouble]_vars
    /\ []scene.mcp /\ <>[](creds = account[Bot] /\ session # "dead")

\* Once credentials that Synapse accepts are there and trouble stops, the bot becomes
\* ready and stays so, whatever torn files, dead attempts and resets came before.
BotComesUp == Untroubled => <>[]bot.ready

\* Then no invitation that it is allowed to accept stays open, unless Synapse refused it.
Open(r) == member[r] \in Inviters /\ Allowed(member[r]) /\ r \notin missed
InvitationsTaken == Untroubled => \A r \in Rooms : []<>~Open(r)
=============================================================================
