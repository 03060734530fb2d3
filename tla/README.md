# Pureprivacy in TLA+

Models of the parts of pureprivacy in which several actors share state, the TLC
runs that check them on small instances, and theorems about them that TLAPS
checks for instances of every size.

    tlc -config MCSetup.cfg MCSetup.tla     model-check one instance
    tlapm SetupProofs.tla                   check one module's proofs

`PROJECT.json` lists every run, every mutant, the source lines behind every
definition, the hazards of the code, and the theorems.

Paths are relative to the repository; `server.py`, `secrets.py`, `pairing.py`,
`auth.py` and `admin_cli.py` without a directory are the wizard's, in
`wizard/src/wizard/`.

## 1. The system

A box is a docker-compose stack: `init` (generates secrets once), `tor`
(publishes its onion hostname), `privoxy`, `postgres`, `synapse`, `coturn`, the
`wizard` (a FastAPI dashboard), `mcp` (an MCP server with a Matrix bot) and, with
the voice profile, `livekit`, `lk-jwt` and `synapse-fed-proxy`. The host drives
it with `scripts/pureprivacy`, which runs the wizard's `admin_cli` as a process
of its own inside the wizard's container.

There is no database of the appliance's own. The components share **files on one
volume** and call **Synapse** over HTTP and **docker** over its socket. Nothing
takes a lock. What keeps actors apart, or does not, is how they are scheduled:

| actors | scheduling | consequence |
|---|---|---|
| `async def` handlers of the wizard | one event loop | interleave only at `await`; a crash or an I/O error can still fall between any two writes |
| `def` handlers of the wizard | a pool of threads | interleave anywhere |
| `admin_cli` | a process each | interleave anywhere, with each other and with the wizard |
| MCP server | another container | reads files while the wizard replaces them |
| Synapse | another container | serves a call after its caller gave up; reads `pairings.json` only when it boots |

Files are written in two ways. Some are written in place: truncated, then filled
(`.setup-complete`, the bot's credentials, the recovery hash, `.prev`, the bot's
`session.json`). The others are written to a temporary file that is renamed, under
**one temporary name per file** (`TmpRename`).

### Inventory

| component | state | operations | interacts through | hard behaviour | correct when |
|---|---|---|---|---|---|
| First-boot setup (`server.py` do_setup, `synapse.py`, `secrets.py`, `recovery.py`) | setup token, bot credentials, recovery hash, `.setup-complete`, Synapse's accounts | mint token, submit, register admin, register bot, four writes, retire token | HTTP to Synapse, files | two requests at once; an answer lost after Synapse acted; a retry over a half-done attempt; a crash between writes | an operator is never locked out; a claimed box has its accounts and files; what it records is true |
| Pairing (`pairing.py`, pair handlers, `admin_cli pair-*`, `docker_client.py`, `render_config.py`) | `pairings.json`, Synapse's whitelist, health of Synapse | accept, remove, restart, wait for health, render | file, docker, event loop, CLI processes | read-modify-write without a lock; a restart that fails or is overtaken; replay | no peer lost or doubled; success means applied; no silent drift; convergence |
| MCP token (`server.py` rotate/revoke, MCP `server.py` valid_tokens) | token file, `.prev` and its mtime | rotate, revoke, check | two files read one after the other | rotation during a check; two rotations; a crash between stash and rename; time | a good token is never refused, a bad one never accepted, a revoked one stays dead |
| Admin password, session, recovery (`change_admin_password`, `admin_cli.py`) | password in Synapse and in `.setup-complete`, cached access token, temporary recovery users | change, reset, recover, log in, cache, forget | Synapse, files | the two places disagree after a failure; a token dies in another's hands; a recovery dies half way | the record is right or somebody was told; the cache never hurts; recovery heals |
| MCP bot and tools (`matrix_bot.py`, `tools.py`, MCP `server.py`, `config.py`) | session file, sync position, rooms, invitations | wait for credentials, log in or restore, upload keys, sync, accept invitations, post for a tool | setup's credentials file, Synapse, the people page | torn credentials; a stored session Synapse forgot; an invitation replaced while it is handled; a sync that breaks half way | becomes ready and stays so, is only where it was invited |
| People (`admin_cli.py`, people handlers) | Synapse's accounts | add, remove, reset | Synapse | a taken name, a lost answer, two operators, a name typed in two ways | the password shown is the account's; the admin and the bot stay |
| Login, sessions, limiter (`auth.py`, `server.py`) | session key, failures per address, the first-login sentinel | log in, log out, verify | threads | check before record; two first uses of a key | cookies hold; at most so many attempts in a window; the first password disappears |
| CSRF check and CLI token (`csrf.py`, `admin_cli.py`) | two keys | sign a form, check it, rotate, read | threads, processes | a key minted twice; a token rotated between reading and sending | what was handed out is accepted |
| Reveal counters (`secrets.py`) | three counter files | raise on render, zero | threads | lost updates; a page that fails after counting | no reveal uncounted |
| Pair code on offer (`pairing.py`) | `active_pair_code.json` | mint, reload, discard, expire | threads | two first views; look and unlink | the code shown is the one kept |
| Boot, lifecycle (`scripts/pureprivacy`, `docker-compose.yml`, entrypoints) | containers, four volumes, the profile file | up, down, stop, start, restart | docker, health checks | containers die and return in any order; a command fails half way | the volumes agree on one onion, password and owner; `up` gets the box to serve |
| Backup, restore, reset (`scripts/pureprivacy`) | the tarball | copy, empty, fill, remove the volumes | docker | any step fails; a container that still runs | a tarball is of one box; a restore brings back exactly it |
| Voice certificate (`synapse-fed-proxy`, `lk-jwt`) | a certificate in the proxy's layer and on the volume, the trust in the token service's | mint, publish, trust | restarts in any order | one side restarts alone, expiry, another onion | the token service trusts the proxy it is routed to |
| TURN, HTTP proxy, QR codes, pages, installers | none | | | | |

## 2. Modules

| module | models | its proofs |
|---|---|---|
| `Setup`, `Claim` | first-boot setup, and what it promises without its mechanism | `SetupProofs` |
| `TmpRename` | writing a file through a shared temporary name; used by `Pairing`, `McpToken`, `AdminPassword` and `Dashboard` | `TmpRenameProofs` |
| `Pairing` | pairing, its file, and the Synapse container | `PairingProofs` |
| `McpToken`, `TokenRegister` | the bearer token of the MCP server, and what it promises its clients without the files | `McpTokenProofs` |
| `AdminPassword` | the admin's password, session and recovery | `AdminPasswordProofs` |
| `Dashboard` | login, sessions, limiter, form tokens, reveal counters, pair code, CLI token | `DashboardProofs` |
| `People`, `McpBot` | the accounts of a box; the bot and its tools composed with them | `McpBotProofs` |
| `Stack` | containers, volumes, voice certificate and the host's commands | `StackProofs` |

`MC<module>.tla` holds what the instances need beyond constants, and
`MC<module>.cfg` or `MC<module>_<run>.cfg` one instance each. An instance takes the
behaviours of the specification in which only what belongs to one **scene** happens: who
is busy, with what, for how long. A scene is chosen at the start and kept.

Several properties hold only while no two actors have had the same thing in hand, which
the code does not rule out. The specifications then keep a **history** of that (`met`, in
`Dashboard` `raced`), on which no state of the code depends, and the property says what holds
without such a meeting. So theorems need no assumption that actors take turns.

In every module an operator whose comment begins with "Mutant" (or "mutant", at the end
of its line) is a plausible bug of the definition below it; it is used by no
specification, and shows that a property notices it.

### Setup

Requests are coroutines: `Submit` runs to the first await, `AdminRegistered` and
`BotRegistered` run when Synapse has answered, and the commit holds the event
loop (`loop`) to its end. Its writes are steps nonetheless, two for each file
(`TearCreds`, `FillCreds`, ...), because a crash (`WizardCrash`) or an I/O error
(`WriteFails`) can fall between them. A registration is a message in `inbox`, and
outlives its request: after a time-out or crash Synapse may still carry it out
(`SynapseRegister`) or not (`SynapseDrop`). A taken name is a success for
`register_user`, under the name's own user id, as the shipped `homeserver.yaml.tmpl`
serves the document it looks that up in; a box can so record a password that the
account does not have. Field validation is abstracted to the forms that pass it. Two
variables are history: `met`, two requests were in progress at once; `contested`, the
names that calls with two passwords were to register. A record has `made`: did Synapse
make the account for the attempt that wrote it?

A `.setup-complete` torn by a fault at its own write counts as complete, in the code and
here: the box has no owner and refuses setup (`Stuck`, divergence 5). `RetryPossible` and
`SetupCompletes` except it openly.

`Claim` is the promise: one owner, and the files in place and final from then on. Setup
implements it until two requests meet.

### TmpRename

A file is its name's content, its temporary name's content, and where each
writer's open descriptor points. `Opened`, `Filled`, `Replaced`, `Closed` are the
system calls. Renaming what another writer has open makes that writer fill the
live file; when contents differ in length (`Ragged`) the result may be one text
with the tail of another (`Garbage`). Empty, absent and garbage contents are
`Unreadable`: what the readers take for no data.

### Pairing

A handler reads (`Enter`), checks (`Refuse`), writes and renames, asks docker to
restart Synapse, and waits for health. `loop` is the event loop: free only while
docker or Synapse is being waited for. CLI processes run the same steps without
it, and without a restart. `synapse` is the container: it renders its whitelist
from the file when it boots (`Render`). `notice` remembers that somebody was told
less than success since. Entries are a set: their order means nothing to any
reader. `met` is history: the actors at work on the file whose work has overlapped
another's, from the read to the rename. The loop keeps handlers from one another, so one
of the two is a CLI process.

### McpToken

A rotation reads the live token, stashes it in `.prev`, and replaces the live
file; `/revoke-prev-token` unlinks `.prev`. The check of the MCP server reads
the live token, then the age of `.prev`, then whether it is there, then its text, with
rotations and revocations in between; if it is gone between the last two, the check ends
in a 500 whatever the token (`CheckBreaks`). `retired`, `revoked`, `met` (two rotations
were in progress at once), `cut` (checks in progress during a revocation) and a check's
`start`, `good` and `dead` are history that only the properties read. The clock is
bounded by `MaxTime`.

`TokenRegister` is the promise: one live token, at most one other in its grace, and a
request answered by what is valid at one moment of it (when it came in, if it is
accepted; when it is answered, if it is refused), or left without an answer if there was
a revocation during it. Its `Lapse` is the truncation of `.prev` by a rotation to come. `McpToken` implements it until two
rotations meet.

### AdminPassword

`change`, `reset` and `look` get an admin session first: the cached token if
`whoami` knows it, otherwise a login with the password read at the beginning and
a new cached token. `recover` registers a temporary admin, logs it in, resets
with it, deactivates it. `change` and `recover` then rewrite `.setup-complete` in
place (`Truncate`, `Fill`). A reset in Synapse signs out every token but the
caller's. Answers may be lost after Synapse acted; unlike in `Setup`, a call is
carried out before its caller gives up, or not at all. `look` stands for every
other use of a session (list, add, remove, pages), `reset` for
`/people/<admin>/reset-password`, which `people.html` offers for the admin too.
`met` and `unsettled` are history: of the operations in progress that set the password
two have overlapped; the last one that set it ended in less than a recorded success, or
met another.

### Dashboard

Each request is a thread (`req`) that runs a `Script` of operations, which is what
the handler of its page calls in order: `Home`, for instance, is `verify`,
`countPassword`, `countRecovery`, `render`. An operation uses one file (`Uses`). It
makes do with what it reads (`Use`), or it replaces it (`Need`, `Open`, `Fill`,
`Replace`), because the file is missing, the code is about to expire, or a counter is
to change. `Result` is what it makes of the text: hand out a cookie, a form token or
a code (`gift`, which reaches the browser's `jar` with `Answer`), compare it with
what was sent, or go on. The limiter is three steps: `Attempt` reads the list,
`Refuse` or `Admit` writes it back. `Tick` ages the attempts, `CodeExpires` the code,
`Restart` ends every request and empties the limiter. `raced` is history: the files
(or the limiter's list) that two requests have had in hand at once. The properties
say what holds for the others.

### People and McpBot

`People` has one request per operator, each with at most one call of Synapse: it is
refused at once (`Refused`), waits for an admin session, is carried out (`Register`,
`SetPassword`, `Deactivate`), and is answered, or its answer is lost. A taken name is
a success, as in `register_user`. `doubtful` is history: the people about whom a page
may have said something else than what Synapse holds.

`McpBot` composes it with the bot: `PeopleStep` is a step of `People`, and what it
does to the bot's account kills the bot's sessions. `SetupRegisters` to `SetupEnds`
are setup as the bot sees it. The bot polls for credentials, restores or logs in
(`Restore`, `LogIn`), saves its session in place, uploads keys, and syncs. A sync
that Synapse accepts leaves the bot rooms and invitations, handled one by one with
retries. `Crash`, `StartFails` and `SyncBreaks` are the ways out. `call` is the tool
calls: a room is resolved when the call begins and used later. `vouched` and `missed`
are history.

### Stack

`disk` is the four volumes that must agree (`tor`, `synapse`, `postgres`, `shared`;
`mcp_data` is `McpBot`'s session). Onions, passwords and certificates are numbers, as
only their being the same matters. `box` is each container: in its entrypoint, up,
stopped or not there. The entrypoints are actions of their own, as containers die
and come back in any order (`Crashes`). A command is `cmd`: it advances volume by
volume, and can fail anywhere (`Fails`). What it stops and removes it stops and removes
one by one, dependents first, and may get anywhere with it (`GetsTo`): `down`, `stop`,
the `stop` of a backup, the `down` of a restore and of a reset. `start`, `restart` and
the end of a backup run `init` again, as `up` does. `Compose` starts a container once
what it depends on is healthy. `cert` and `jwt` live in the layers of the proxy and of
the token service, which survive a restart but not a recreation. Only `up` knows the
voice profile; its removal of the voice services is another error it ignores
(`UpHalfDone`).

The two errors that `cmd_restore` ignores are choices: its `down` may leave containers
running (line 1414), and a file may stay where the volumes are emptied (line 1435).
`cmd.spoilt` notes that one happened. A reset removes its containers, gives up if it
could not, and then the volumes one at a time in any order (`Removes`). `mixed` is
history: a restore or a reset has begun to change volumes and none has since gone
through; one that went on over an ignored error, or restored a backup that was `mixed`,
or could not remove a volume, leaves it set.

## 3. What the runs check

| run | instance | shows |
|---|---|---|
| `setup` | 2 passwords, 2 keys, the bot's name as a user; scenes: 1 form at a time, 2 overlapping forms | until there is a `.setup-complete`, no failure nor overlap burns the token (`RetryPossible`), or claims a box without its accounts (`AccountsBehindSummary`) or files (`ClaimAfterHandover`); what is recorded logs in, but for a taken name that was retried with another password (`RecordedLogsIn`); the invariant of the proofs (`SetupInv`); until two requests meet the recovery key on show is the one hashed (`RecoveryKeyUsable`) and setup implements `Claim` (`ImplementsClaim`); retrying gives the box an owner once failures stop, unless `.setup-complete` was left torn (`SetupCompletes`) |
| `setup_twice` | 2 requests | **violated**: `ClaimedOnce`, see divergence 1 |
| `setup_retry_bot` | 1 request at a time | **violated**: `BotCanLogIn`, divergence 2 |
| `pairing_wizard` | 2 peers and this box, 4 codes; scenes: 2 handlers, 1 handler while a code expires, a handler beside a CLI process | `UniqueEntries`, `NoSilentDrift`, `SuccessMeansApplied`; no peer is lost but by a writer that overlapped a CLI process (`NoLostPeer`); every request is answered (`HandlerEnds`); once the file is left alone Synapse comes to agree with it (`Converges`) |
| `pairing_replay` | 1 handler, clock | **violated**: `CodeConsumedOnce`, divergence 3 |
| `token_serial` | 3 tokens, 1 check, grace 2; scenes: 1 rotation at a time and clock to 3, 2 rotations and clock to 2 | no good token is refused, but for the 500 when `.prev` vanishes between the look and the read (`NoSpuriousReject`); until two rotations meet the live file holds a token (`LiveUsableAlone`), `AcceptWithinGrace`, `RevokedStaysDead`, and `McpToken` implements `TokenRegister` (`ImplementsRegister`) |
| `token_partial` | 2 rotations | **violated**: `LiveUsable`, divergence 4 |
| `admin_serial` | 1 browser, 1 shell, 2 passwords, 3 tokens; scenes: in turn, overlapping | `.setup-complete` is right, or somebody was told less than success, or the last operations to set the password met (`NoSilentDrift`); the cached token turns nobody away (`CacheIsHarmless`); an operator who keeps recovering gets the two to agree (`Heals`) |
| `admin_torn` | the same | **violated**: `RecoveryAvailable`, divergence 5 |
| `dashboard` | 2 browsers, 7 mixes of pages | cookies, form tokens, CLI tokens and pair codes hold until withdrawn (`HandedOutHolds`), attempts are capped (`AttemptsCapped`), reveals counted (`RevealsCounted`), and the first password hidden after a login (`PasswordHidden`); the first three only where no two requests met over the file |
| `bot` | 2 operators, 3 names, 3 passwords, 2 rooms, 3 inviters, 1 tool call, 4 scenes | `ProtectedStay`, `SharedPasswordWorks`, `OnlyWhereInvited`, the bot uploads and syncs only with the session that is whole on file (`SessionOnFile`); it becomes ready and stays so (`BotComesUp`) and leaves no invitation open (`InvitationsTaken`) once trouble stops |
| `stack` | 5 scenes | `VolumesAreOneBox`, `TarballIsOneBox`, until a restore or a reset is cut short among the volumes or goes on past an error, and again when one has gone through; `RestoredExactly`, of a restore that ignored no error; `up`, repeated, gets the box to serve and voice to trust its proxy (`ComesUp`); the invariant of the proofs (`StackInv`) |

The type invariants are checked by `dashboard` and `bot`, and by `setup` and `stack` as
part of `SetupInv` and `StackInv`. For every module they are proved (section 4).

**Bounds.** Two actors of a kind suffice for the hazards listed: each is a step of
one actor between two steps of another, and a third adds no new order of the
files involved, as a file has one live name and one temporary name. Two
passwords (keys, peers) make a wrong one distinguishable from the right one; two
codes of one peer make a replay and a re-pairing possible; three tokens let a
token be live, another in its grace or cached, and a third be new. In
`AdminPassword` three also lets a cached, an abandoned and a held token differ;
a login waits when all three are held. `MaxTime` and `Grace` let a token or code
expire before, in and after each step. `pairing_wizard` lets one code of four expire.

The scenes, in `Dashboard` *mixes*, keep apart what need not be explored together. Where
actors take turns they have the most data and time; where they overlap, as much as the
overlap needs: one password and one key (`setup`), one grace (`token_serial`), two codes
and one removal (`pairing_wizard`), no use of a session besides (`admin_serial`). Pages that share no file cannot meet, so each mix holds the pages that share
one. The scenes of `bot` are people who come and go, removals as they may be typed,
a bot whose account is reset under it, and a bot with rooms. Those of `stack` are
three commands out of `down`, `stop`, `start`, `restart` and `backup` without voice under
crashes; three out of `backup`, `restore` and `reset`; one restore of another host's
backup, or one reset, with voice; such a restore over the errors it ignores; and voice
under crashes and ageing. The bounds of numbers:
`MaxCount` (2) lets a counter be raised twice and lose an update; `MaxAttempts` (1; 5 in
the code) and `Window` (1) let an attempt be the one too many, and age; `MaxJoins` (2; 3
in the code) a join fail, and fail for good. `Marks` (3) are as many texts as two
browsers can hold beside the file. `Ids` (1..9) are as many as three commands can need;
were they not, TLC would stop at a `CHOOSE` without a witness. No other number is
bounded.

**Symmetry** is used in no run. **Deadlock** is checked in every run but
`admin_serial`: there a `.setup-complete` left torn stops everything for good,
which is divergence 5.

**Fairness**, in the runs with liveness only:
- `setup`: docker restarts the wizard, Tor publishes, Synapse serves the
  calls whose callers wait, the loop runs what is ready, and the operator goes on
  submitting some form (weak fairness each). Not assumed: that a call without a caller is
  served or dropped. Liveness is claimed when faults stop.
- `pairing_wizard`: a handler not waiting goes on; docker answers or times out in
  60 s; the wait for health ends within 120 s (strong fairness, because others
  hold the loop in between and asyncio serves what is ready in turn); the
  entrypoint renders; an operator who was told less than success restarts
  Synapse, as the error page says (`notice /\ SynapseRestart`). Not assumed: that
  Synapse becomes healthy, or stays up.
- `admin_serial`: calls return or time out, so an operation goes on (weak
  fairness); an operator begins recoveries again and again (strong fairness, as
  other operations come in between). Liveness is claimed when failures stop and
  only recoveries set the password.
- `bot`: the event loop runs the bot on, and its calls return (weak fairness of
  `Goes \/ Handles`). Liveness is claimed (`Untroubled`) when crashes, failed starts
  and broken syncs stop, the service is enabled, the session on file is not one that
  Synapse forgot, which the bot restores for ever, and the
  credentials on file come to be the account's. That last condition excludes divergence 2.
- `stack`: entrypoints and commands go on (weak fairness), and the operator runs
  `up` again and again, with and without voice where the scene has it (strong
  fairness, as `up` cannot be given while a command runs). Liveness is claimed
  when failures, crashes, ageing and other commands stop, of a box that is not
  `mixed`. "Stop" means that no further step is one of these and none of the steps
  listed first: `AllHealthy` and `Fails`, say, can be the same step.

## 4. What is proved

Every theorem holds for every value of the constants under the named
assumptions of its module. Those assumptions say that markers such as `Absent`
differ from data, that bounds are numbers, that actors are of one kind,
(tokens, password, dashboard) that two texts have one length, and (stack) that a tarball which
is there from the start and not `mixed` is of one box.

- **`SetupProofs`**: `TypeCorrect`; `SetupInvariant`; from it
  `RetryAlwaysPossible`, `SummaryBacked`, `RecordedPasswordLogsIn` and
  `HandoverBeforeClaim` for any number of concurrent requests; `RecoveryKeyVerifies` and
  `ClaimImplemented` (setup implements `Claim`), until two of them meet. None
  of the properties is inductive: `SetupInv` adds what each request has computed at
  its stage and that at most one of them is past its last await (`LocalsInv`), that
  every call in flight with a caller is the one awaited (`CallsInv`), and that
  accounts exist behind what was computed and written (`FilesInv`, `AccountsInv`). The
  last two theorems need `SerialInv`: before requests meet, none is in progress over a
  claimed box but the one that claimed it.
- **`TmpRenameProofs`**: every operation maps files to files, and keeps any
  property that the texts written have. The other modules cite these lemmas.
- **`PairingProofs`**: `TypeCorrect`, `EntriesStayUnique`, `DriftIsNeverSilent`,
  `SuccessIsApplied` and `LossTakesAnOverlap` for any number of handlers and CLI
  processes; `WizardLosesNoPeer` where there is no CLI process: no peer is lost but on
  request. Uniqueness needs every list that was read, is being written or is in either
  file to be unambiguous (`UniqueInv`). `SuccessIsApplied` follows from the absence of
  silent drift: success is the only end of a request that leaves no notice behind, and
  Synapse is then healthy. A loss takes `AloneInv`: an actor that has met nobody has read
  what is still on file, and the temporary file is its own.
- **`McpTokenProofs`**: `TypeCorrect` and `NoGoodTokenRefused` for any number of
  rotations; `LiveTokenUsable`, `GraceIsBounded`, `RevocationIsFinal` and
  `RegisterImplemented` (`McpToken` implements `TokenRegister`) until two of them meet.
  The invariants: tokens in flight are known to nobody (`UnknownInv`); which file a
  rotation has open, and that what it stashes is live (`AloneInv`); `.prev` holds a token
  retired no later than its mtime, or the live one (`TimeInv`); a revoked token is in
  neither file and stashed by nobody (`RevInv`). The refinement maps the two files to the
  live token and the one in its grace, and needs two more: once a rotation has opened
  `.prev` nothing in it but the live token can be in its grace (`PrevInv`), so no other
  is when the new one goes live; and a token that was no good when a check came in is
  none at any later moment of that check (`GoodInv`), so an acceptance is never wrong. A
  check that breaks is one of `cut`.
  Step by step: `RotationMapped`, `CheckMapped`, `OtherMapped`.
- **`AdminPasswordProofs`**: `TypeCorrect`, `CachedTokenHarmless` and `DriftIsReported`
  however many operations overlap. An undisturbed operation holds the right password
  or a token Synapse accepts at every stage (`SessionInv`); while those that set the
  password have not met, the one that has set it and not yet recorded it is alone and is
  about to record that password (`AimInv`), so its success settles the matter, whatever
  happened before it began (`DriftInv`).
- **`DashboardProofs`**: `TypeCorrect`, `HandedOut`, `Counts`, `CappedOneByOne`,
  `HiddenAfterLogin` for any number of browsers, any pages at once. The invariants
  speak, file by file, of the files not in `raced`: at most one request is writing it,
  its temporary file is what that request filled, and what answers are about to hand
  out is what the file says. A counter is at least what was shown plus what is about
  to be; a request in the limiter has read the list as it stands.
- **`McpBotProofs`**: `BotInvariant`, `TypeCorrect`, `ProtectedForEver`, `SharedWorks`,
  `InvitedOnly`, `RunsOnSavedSession` for any number of operators, names, rooms, inviters
  and tool calls. The invariant adds that every room the bot knows, is in, handles an
  allowed invitation of or has resolved for a tool was vouched for, and what is on file
  while the bot logs in, saves its session and runs on it.
- **`StackProofs`**: `TypeCorrect`, `StackInvariant`, `OneBoxAlways`, `OneBoxBackedUp`,
  `BackAsItWas` for any scenes, with the exceptions their statements make (`mixed`,
  `spoilt`). `StackInv` adds what a restore has emptied and filled so far unless it ignored
  an error (`RestoreInv`), what a reset has removed (`ResetInv`), and that what a backup has
  copied is still what the volumes hold (`BackupInv`), for while the stack is halted
  nothing but the published certificate changes.

**Only model-checked**: all liveness (`SetupCompletes`, `HandlerEnds`,
`Converges`, `Heals`, `BotComesUp`, `InvitationsTaken`, `ComesUp`), since the provers
handle neither fairness nor ENABLED. Every invariant, action property and refinement that
a passing run checks is proved. Induction over data (what a recursive definition
computes for every input) is out of the provers' reach, and so are RECURSIVE operators;
no module uses any.

## 5. Where code and documents disagree

1. `setup_twice`: the token check comes before the first await, its retirement
   comes last. Two requests in progress both complete, and the second replaces
   the first owner's summary (SECURITY.md, M12: "consumed on first use").
2. `setup_retry_bot`: `register_user` takes "already taken" for success on the
   ground that "the caller knows the original password"; `do_setup` draws a new
   one on every attempt, so a retry publishes credentials the bot cannot log in
   with.
3. `pairing_replay`: the single-use check looks at the entries on file, so
   removing a peer, or re-pairing it with a newer code, makes the older code
   acceptable again until it expires.
4. `token_partial`: two rotations share `mcp_bearer_token.tmp`; one renames the
   file the other has just truncated, and the MCP server finds the live token
   empty. The comment says it "never reads a partial file".
5. `admin_torn`: `.setup-complete` is rewritten in place, not "atomically"; a
   death between truncation and write leaves no admin, and neither dashboard nor
   recovery starts. Setup's own write of that file has the same gap: a box that
   is complete, has no owner, and refuses setup.

Met while modelling, without a run of their own. Pairing, tokens and the password:
- A CLI process between its read and its write of `pairings.json` undoes the
  wizard's change or has its own undone: `NoLostPeer` fails without its exception for
  writers that have met.
- After a failed restart, repeating accept answers 409 and repeating remove 404,
  and neither restarts Synapse; only the operator does.
- "Always includes the live token" (`mcp-server/.../server.py:71`): a revocation between
  `is_file` and `read_text` of `.prev` raises, and the holder of the live token gets a 500.
- With two rotations at once a revoked token can come back into `.prev`
  (`RevokedStaysDead` fails). A second rotation ends the first token's grace at
  once, though `home.html:567` promises it ten minutes.
- Two changes of the password at once can both report success and leave
  `.setup-complete` with the other's; a reset of the admin on the people page reports
  success and does not record the password at all. `NoSilentDrift` counts both as
  unsettled, and fails if it does not.
- A recovery that fails outside its `try`, or whose clean-up fails, leaves its
  temporary administrator active, and a password drawn at random is lost with it.

The dashboard:
- Logins are "capped at LOGIN_RATELIMIT_MAX in any LOGIN_RATELIMIT_WINDOW_S window"
  (`server.py:500`), and "each render counts as a reveal" (`server.py:285`): not when two
  threads meet between the check and the record. `AttemptsCapped` and `RevealsCounted`
  except those behaviours, and fail without the exception.
- Two first uses of a key or a code each draw one; one of the two is handed out and
  not kept. A pair code once shown stays valid at the peer until it expires, even if
  it was replaced here.

People and the bot:
- A name that is taken or removed is reported as added, or reset, with a password
  Synapse never stored (`doubtful`).
- "Both paths refuse to deactivate the original admin user or the MCP bot"
  (`docs/phone-setup.md:124`), and "same-homeserver inviters are always allowed"
  (`matrix_bot.py:52`): neither when the user id on file has the host `unknown`, which
  `register_user` records when the well-known document was not served.
- A session that Synapse forgot, as after a reset of the bot's account, locks the bot out
  for good: it is restored at every start, and the bot's readiness does not notice.
  `BotComesUp` excepts it, and fails if it does not.
- "the wizard rewrites it atomically on every setup" (`config.py:57`, of the bot's
  credentials): it truncates and fills them. The bot copes, as it reads again.
- An invitation whose join failed, or that a broken sync left, is not retried until
  Synapse sends it again.

The stack:
- `backup` "stops the stack ..., then starts it again" (`docs/installation.md:144`): a
  backup that fails in between leaves it stopped. Whether the stack runs is judged
  by Postgres alone.
- `down`, `stop`, `restart`, `backup` and `restore` leave the voice containers running, and
  `reset` with voice up cannot remove the `shared` volume they hold, before it says
  "Run `pureprivacy up` to start fresh" (`scripts/pureprivacy:1455`).
- A proxy that restarts with a fresh certificate: "lk-jwt picks it up"
  (`synapse-fed-proxy/entrypoint.sh:43`) only if the token service starts after it was
  published. `ComesUp` therefore needs `up` without voice, which removes
  the two, in between.
- A box left `mixed` by an interrupted restore or reset stays so until one goes through.
  A reset that removed `shared` and not `postgres` makes `init` draw a password that does
  not open the database.
- A restore's volumes come back "exactly as they were" (`docs/installation.md:180`), and
  are emptied "so we don't leave stale files" (`scripts/pureprivacy:1434`): containers that
  `down` left running go on writing, files that cannot be deleted stay, and the restore
  says it is done. `RestoredExactly` excepts both, and fails if it does not.
- Tor's health check passes with a name that an older key left there.

## 6. Not modelled

`PROJECT.json` gives the reason for every component. TURN, the HTTP proxy, QR codes and
pages are rendering; installers, the systemd unit and the test scripts run once,
outside the running system. Inside the modelled components these are abstracted:
field validation, formats and encodings of codes and files (a file is whole, empty or
garbage), file modes, the well-known document's contents, Synapse's own storage and
rate limits. Left out:
- pure tests of one request: the comparison of Origin and Host, and the path jail of
  the tools (a function of the host's file system);
- the CLI token as an alternative to the cookie, and a second client address, whose
  limiter list is its own;
- what reading tools and lists return, as it changes nothing; end-to-end encryption,
  which is the library's; a dashboard page that fails because `.prev` vanishes between its
  look and its mtime (an error page, with no state behind it; the same gap in the MCP
  server's check is modelled);
- what becomes of a name in a URL: `admin_cli.py` (62-64, 239) puts the id in unquoted, so
  forms that Synapse would decode to another id are outside `People`;
- a well-known document that was not served while setup ran. Of its consequence, the host
  `unknown` on file, `People` and `McpBot` have only the comparison of ids;
- invitations whose state names several inviters for the bot: `Sync` has one event with
  the true inviter for each;
- the read of `.setup-complete` before its rewrite, which `Truncate` merges with the
  truncation, and which containers compose happens to stop first among those that do not
  depend on each other;
- two commands of the host's shell at once, image pulls, status, logs, verify, the
  encryption of a tarball.

## 7. Plan

Done: `Setup` with `Claim`; `Pairing` on `TmpRename`; `McpToken` with `TokenRegister`; `AdminPassword`; `Dashboard`;
`People` with `McpBot`; `Stack`, each with its proofs. What would add most next:

1. `SetupBot`: `Setup` and `McpBot` in one module, with divergence 2 as a failure of the
   bot's liveness.
2. Two boxes that exchange codes (`Dashboard`'s code on offer and `Pairing`'s accept), with
   "they federate once both have accepted" as the abstract specification.
3. `Dashboard` against an abstract issuer: what is handed out holds until it is
   withdrawn, as a refinement rather than an invariant.
