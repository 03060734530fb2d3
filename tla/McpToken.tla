------------------------------ MODULE McpToken ------------------------------
(***************************************************************************)
(* The bearer token of the MCP server: the wizard's /rotate-token and      *)
(* /revoke-prev-token, which run in threads of their own, the two files    *)
(* secrets/mcp_bearer_token and .prev, and the MCP server, another         *)
(* process, which reads both files for every request it authenticates.     *)
(***************************************************************************)
EXTENDS Naturals, TmpRename

CONSTANTS Rotators,  \* rotation requests in progress in the wizard
          Checks,    \* requests in progress at the MCP server
          Tokens,    \* what token_hex may draw; it never draws one twice
          First,     \* the token the init container generated
          Grace,     \* MCP_TOKEN_GRACE_SECONDS
          MaxTime    \* bound on the clock

ASSUME TokenAssumption == First \in Tokens /\ Tokens \cap Unreadable = {}
ASSUME FileNamesAssumption == Absent # Empty
ASSUME LengthAssumption == ~Ragged    \* token_hex(32) and a newline
ASSUME TimeAssumption == Grace \in Nat /\ MaxTime \in Nat

VARIABLES
    now,      \* wall clock
    file,     \* mcp_bearer_token and its .tmp
    prev,     \* .prev: its text, its mtime, and the rotations that have it open
    drawn,    \* tokens that were ever drawn
    rot,      \* each rotation: its stage, the token it stashes, and its new token
    chk,      \* each check: its stage, the token on offer and the live one it read;
              \* history: when it began, was its token good, what was revoked by then
    retired,  \* history: when each token was replaced
    revoked,  \* history: the tokens that were revoked
    met,      \* history: were two rotations ever in progress at once?
    cut       \* history: the checks in progress during which .prev was revoked

vars == <<now, file, prev, drawn, rot, chk, retired, revoked>>
histories == <<met, cut>>

Resting == [pc |-> "idle", stash |-> Absent, new |-> Absent]
NoCheck == [pc |-> "idle", offered |-> Absent, live |-> Absent, start |-> 0,
            good |-> FALSE, dead |-> {}]
NoPrev == [text |-> Absent, mtime |-> 0, open |-> {}]
Never == MaxTime + 1

Init ==
    /\ now = 0
    /\ file = [NoFile(Rotators) EXCEPT !.live = First]
    /\ prev = NoPrev
    /\ drawn = {First}
    /\ rot = [r \in Rotators |-> Resting]
    /\ chk = [c \in Checks |-> NoCheck]
    /\ retired = [t \in Tokens |-> Never]
    /\ revoked = {}
    /\ met = FALSE
    /\ cut = {}

Tick ==
    /\ now < MaxTime
    /\ now' = now + 1
    /\ UNCHANGED <<file, prev, drawn, rot, chk, retired, revoked>>

-----------------------------------------------------------------------------
\* A rotation begins: the current token is read, if there is one.
ReadLive(r) ==
    /\ rot[r].pc = "idle"
    /\ file.live \in Tokens
    /\ rot' = [rot EXCEPT ![r] = [pc |-> "stash", stash |-> file.live, new |-> Absent]]
    /\ UNCHANGED <<now, file, prev, drawn, chk, retired, revoked>>

NothingToStash(r) ==
    /\ rot[r].pc = "idle"
    /\ file.live \notin Tokens
    /\ rot' = [rot EXCEPT ![r] = [pc |-> "mint", stash |-> Absent, new |-> Absent]]
    /\ UNCHANGED <<now, file, prev, drawn, chk, retired, revoked>>

\* Mutant: .prev is not truncated when it is opened.
OpenPrevAsIs(r) ==
    /\ rot[r].pc = "stash"
    /\ prev' = [text |-> IF prev.text = Absent THEN Empty ELSE prev.text, mtime |-> now,
                open |-> prev.open \cup {r}]
    /\ rot' = [rot EXCEPT ![r] = [@ EXCEPT !.pc = "prevOpen"]]
    /\ UNCHANGED <<now, file, drawn, chk, retired, revoked>>

\* prev_path.write_bytes(...): .prev is created or truncated ...
OpenPrev(r) ==
    /\ rot[r].pc = "stash"
    /\ prev' = [text |-> Empty, mtime |-> now, open |-> prev.open \cup {r}]
    /\ rot' = [rot EXCEPT ![r] = [@ EXCEPT !.pc = "prevOpen"]]
    /\ UNCHANGED <<now, file, drawn, chk, retired, revoked>>

\* ... and written, its mode and its mtime set.  Should it have been revoked in
\* between, the text goes nowhere: the mtime set is that of another's .prev.
FillPrev(r) ==
    /\ rot[r].pc = "prevOpen" /\ prev.text # Absent
    /\ prev' = [text |-> IF r \in prev.open THEN rot[r].stash ELSE prev.text,
                mtime |-> now, open |-> prev.open \ {r}]
    /\ rot' = [rot EXCEPT ![r] = [@ EXCEPT !.pc = "mint"]]
    /\ UNCHANGED <<now, file, drawn, chk, retired, revoked>>

\* Mutant: no temporary file.
OpenInPlace(r, t) ==
    /\ rot[r].pc = "mint"
    /\ t \in Tokens \ drawn
    /\ drawn' = drawn \cup {t}
    /\ file' = [live |-> Empty, tmp |-> t, at |-> [file.at EXCEPT ![r] = "live"]]
    /\ rot' = [rot EXCEPT ![r] = [@ EXCEPT !.pc = "opened", !.new = t]]
    /\ UNCHANGED <<now, prev, chk, retired, revoked>>

\* token_hex draws a new token, for the temporary file.
OpenTmp(r, t) ==
    /\ rot[r].pc = "mint"
    /\ t \in Tokens \ drawn
    /\ drawn' = drawn \cup {t}
    /\ file' = Opened(file, r)
    /\ rot' = [rot EXCEPT ![r] = [@ EXCEPT !.pc = "opened", !.new = t]]
    /\ UNCHANGED <<now, prev, chk, retired, revoked>>

\* A live token that gives way to another is retired.
Retire == retired' = [t \in Tokens |-> IF t = file.live /\ t # file'.live THEN now ELSE retired[t]]

FillTmp(r) ==
    /\ rot[r].pc = "opened"
    /\ file' \in Filled(file, r, rot[r].new)
    /\ rot' = [rot EXCEPT ![r] = [@ EXCEPT !.pc = "filled"]]
    /\ Retire
    /\ UNCHANGED <<now, prev, drawn, chk, revoked>>

\* The new token goes live.
Replace(r) ==
    /\ rot[r].pc = "filled" /\ file.tmp # Absent
    /\ file' = Replaced(file)
    /\ rot' = [rot EXCEPT ![r] = Resting]
    /\ Retire
    /\ UNCHANGED <<now, prev, drawn, chk, revoked>>

\* A write fails, or another thread removed the file this one means to chmod or
\* rename: a 500.
RotationFails(r) ==
    /\ rot[r].pc \in {"stash", "prevOpen", "mint", "opened"}
         \/ (rot[r].pc = "filled" /\ file.tmp = Absent)
    /\ file' = Closed(file, {r})
    /\ prev' = [prev EXCEPT !.open = @ \ {r}]
    /\ rot' = [rot EXCEPT ![r] = Resting]
    /\ UNCHANGED <<now, drawn, chk, retired, revoked>>

\* Mutant: unlinks another file.
RevokeTmp ==
    /\ prev.text # Absent
    /\ file' = [file EXCEPT !.tmp = Absent]
    /\ revoked' = revoked \cup (({prev.text} \cap Tokens) \ {file.live})
    /\ UNCHANGED <<now, prev, drawn, rot, chk, retired>>

\* /revoke-prev-token: unlink.
Revoke ==
    /\ prev.text # Absent
    /\ prev' = NoPrev
    /\ revoked' = revoked \cup (({prev.text} \cap Tokens) \ {file.live})
    /\ UNCHANGED <<now, file, drawn, rot, chk, retired>>

WizardCrash ==
    /\ \E r \in Rotators : rot[r].pc # "idle"
    /\ file' = Closed(file, Rotators)
    /\ prev' = [prev EXCEPT !.open = {}]
    /\ rot' = [r \in Rotators |-> Resting]
    /\ UNCHANGED <<now, drawn, chk, retired, revoked>>

-----------------------------------------------------------------------------
\* A client offers a token it was given: one that is or was live.
Known == {t \in Tokens : t = file.live \/ retired[t] # Never}

PrevIsThere == prev.text # Absent    \* mutant: its age is not looked at
PrevIsYoung == prev.text # Absent /\ now < prev.mtime + Grace

\* The tokens the MCP server takes at one moment.
GoodNow(t) == t = file.live \/ (PrevIsYoung /\ t = prev.text)

\* Mutant: the live token is the one read when the server started.
CheckLiveCached(c) ==
    /\ chk[c].pc = "idle"
    /\ \E t \in Known :
         chk' = [chk EXCEPT ![c] = [pc |-> "age", offered |-> t, live |-> First,
                                    start |-> now, good |-> GoodNow(t), dead |-> revoked]]
    /\ UNCHANGED <<now, file, prev, drawn, rot, retired, revoked>>

\* The MCP server: valid_tokens reads the live token, ...
CheckLive(c) ==
    /\ chk[c].pc = "idle"
    /\ \E t \in Known :
         chk' = [chk EXCEPT ![c] = [pc |-> "age", offered |-> t, live |-> file.live,
                                    start |-> now, good |-> GoodNow(t), dead |-> revoked]]
    /\ UNCHANGED <<now, file, prev, drawn, rot, retired, revoked>>

\* The answer: the token on offer is among those read, or it is not.
Answer(c, accepted) ==
    chk' = [chk EXCEPT ![c] = IF @.offered \in accepted THEN [@ EXCEPT !.pc = "accepted"]
                                                       ELSE NoCheck]

\* ... then the age of .prev, ...
CheckAge(c) ==
    /\ chk[c].pc = "age"
    /\ IF PrevIsYoung THEN chk' = [chk EXCEPT ![c] = [@ EXCEPT !.pc = "prev"]]
                      ELSE Answer(c, {chk[c].live})
    /\ UNCHANGED <<now, file, prev, drawn, rot, retired, revoked>>

\* ... then, in _read_token, whether it is still there, ...
CheckPrev(c) ==
    /\ chk[c].pc = "prev"
    /\ IF prev.text = Absent THEN Answer(c, {chk[c].live})
                             ELSE chk' = [chk EXCEPT ![c] = [@ EXCEPT !.pc = "text"]]
    /\ UNCHANGED <<now, file, prev, drawn, rot, retired, revoked>>

\* ... then its text.
CheckText(c) ==
    /\ chk[c].pc = "text" /\ prev.text # Absent
    /\ Answer(c, {chk[c].live, prev.text})
    /\ UNCHANGED <<now, file, prev, drawn, rot, retired, revoked>>

\* Revoked between those two, read_text raises, and nothing catches it: a 500,
\* whatever token was on offer.
CheckBreaks(c) ==
    /\ chk[c].pc = "text" /\ prev.text = Absent
    /\ chk' = [chk EXCEPT ![c] = NoCheck]
    /\ UNCHANGED <<now, file, prev, drawn, rot, retired, revoked>>

\* The accepted request is over.
CheckEnds(c) ==
    /\ chk[c].pc = "accepted"
    /\ chk' = [chk EXCEPT ![c] = NoCheck]
    /\ UNCHANGED <<now, file, prev, drawn, rot, retired, revoked>>

-----------------------------------------------------------------------------
Next ==
    \/ Tick \/ Revoke \/ WizardCrash
    \/ \E r \in Rotators :
         \/ ReadLive(r) \/ NothingToStash(r) \/ OpenPrev(r) \/ FillPrev(r)
         \/ \E t \in Tokens : OpenTmp(r, t)
         \/ FillTmp(r) \/ Replace(r) \/ RotationFails(r)
    \/ \E c \in Checks :
         CheckLive(c) \/ CheckAge(c) \/ CheckPrev(c) \/ CheckText(c) \/ CheckBreaks(c) \/ CheckEnds(c)

Asking(c) == chk[c].pc \in {"age", "prev", "text"}
Revoking == prev.text # Absent /\ prev'.text = Absent
Histories ==
    /\ met' = (met \/ \E r, s \in Rotators : r # s /\ rot'[r].pc # "idle" /\ rot'[s].pc # "idle")
    /\ cut' = {c \in Checks : Asking(c)' /\ (c \in cut \/ Revoking)}

Spec == Init /\ [][Next /\ Histories]_<<vars, histories>>

-----------------------------------------------------------------------------
TypeOK ==
    /\ now \in 0..MaxTime
    /\ file \in File(Rotators, Tokens)
    /\ prev \in [text : {Absent, Empty} \cup Tokens, mtime : 0..MaxTime, open : SUBSET Rotators]
    /\ drawn \in SUBSET Tokens
    /\ rot \in [Rotators -> [pc : {"idle", "stash", "prevOpen", "mint", "opened", "filled"},
                             stash : {Absent} \cup Tokens,
                             new : {Absent} \cup Tokens]]
    /\ chk \in [Checks -> [pc : {"idle", "age", "prev", "text", "accepted"},
                           offered : {Absent} \cup Tokens,
                           live : Unreadable \cup Tokens,
                           start : 0..MaxTime, good : BOOLEAN, dead : SUBSET Tokens]]
    /\ retired \in [Tokens -> 0..Never]
    /\ revoked \in SUBSET Tokens
    /\ met \in BOOLEAN
    /\ cut \in SUBSET Checks

\* "Atomic write via tmp + rename so the MCP server never reads a partial file"
\* (server.py:972): the live token's file holds a token at all times.
LiveUsable == file.live \in Tokens

\* It does as long as no two rotations were in progress at once, whatever fails or crashes.
LiveUsableAlone == met \/ LiveUsable

\* A check turns away a token only if it would still be turned away by one made at
\* that very moment: an agent that migrates during a rotation is never refused for
\* reading one file before and the other after.  Excepted, because it does happen: the
\* 500 of a check that found .prev there and young and not there to read (CheckBreaks),
\* which the holder of the live token gets too.
NoSpuriousReject ==
    [][\A c \in Checks : Asking(c) /\ chk'[c].pc = "idle" =>
         ~GoodNow(chk[c].offered) \/ (chk[c].pc = "text" /\ prev.text = Absent)]_vars

\* Until two rotations meet, a token is accepted only from a request made while it was
\* live or within its grace, whatever crashes and failed rotations left in .prev.
AcceptWithinGrace ==
    \A c \in Checks :
        ~met /\ chk[c].pc = "accepted" =>
            \/ chk[c].start <= retired[chk[c].offered]
            \/ chk[c].start < retired[chk[c].offered] + Grace

\* Until two rotations meet, a revoked token is refused by every request made after the
\* revocation, also when a rotation was in progress.
RevokedStaysDead ==
    \A c \in Checks : ~met /\ chk[c].pc = "accepted" => chk[c].offered \notin chk[c].dead

\* The register this is, read off the files: the token in its grace, if there is one,
\* and each request's answer or the want of one.
InPrev == {t \in Tokens : PrevIsYoung /\ t = prev.text /\ t # file.live}
Prior == {[token |-> t, since |-> retired[t]] : t \in InPrev}
Requests == [c \in Checks |-> [stage |-> IF Asking(c) THEN "asked" ELSE chk[c].pc,
                              token |-> chk[c].offered, good |-> chk[c].good]]
Register == INSTANCE TokenRegister WITH
    NoToken <- Absent, live <- file.live, prior <- Prior, used <- Known, req <- Requests

\* Until two rotations meet, the two files and the reads a rotation can come between
\* amount to one register of the tokens that are valid: a request gets an answer that is
\* right at one moment of it, or none because of a revocation during it, a token's grace
\* is never renewed, and nothing that lost it becomes valid again.
ImplementsRegister == Register!Init /\ [][met' \/ Register!Next]_(Register!registerVars)
=============================================================================
