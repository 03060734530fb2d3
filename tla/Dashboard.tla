----------------------------- MODULE Dashboard -----------------------------
(***************************************************************************)
(* The wizard's pages once setup is complete, as far as they share files   *)
(* or memory: logging in, the home page with its reveal counters, the pair *)
(* code on offer, and the shell's CLI token.  Each request runs in a       *)
(* thread of its own, from operation to operation; an operation reads a    *)
(* small file under /shared and, if need be, replaces it (TmpRename).      *)
(***************************************************************************)
EXTENDS Naturals, Sequences, FiniteSets, TmpRename

CONSTANTS Browsers,     \* browsers and shells, with one request at a time each
          Mixes,        \* what a behaviour may be about: the pages asked for, the keys that
                        \* exist when it begins, and whether anybody has logged in by then
          Marks,        \* keys, tokens and pair codes that may be drawn
          MaxCount,     \* bound on the reveal counters
          MaxAttempts,  \* LOGIN_RATELIMIT_MAX
          Window        \* LOGIN_RATELIMIT_WINDOW_S

Drawn == {"session", "csrf", "cli", "code"}                 \* files of a random text
Counters == {"passwordViews", "recoveryViews", "autoViews"}
Names == Drawn \cup Counters

\* What each page does, in order.
LoginPage == <<"guest", "pending", "render">>
Login == <<"form", "attempt", "sign", "mark">>
Logout == <<"form", "leave">>
Home == <<"verify", "countPassword", "countRecovery", "render">>
ZeroPassword == <<"verify", "form", "zeroPassword">>
ZeroRecovery == <<"verify", "form", "zeroRecovery">>
PairPage == <<"verify", "offer", "render">>
NewCode == <<"verify", "form", "drop">>      \* (/pair/accept ends with the same "drop")
Shell == <<"fetch", "token">>
RotateToken == <<"redraw">>
Script == [loginPage |-> LoginPage, login |-> Login, logout |-> Logout, home |-> Home,
           zero |-> ZeroPassword, zeroKey |-> ZeroRecovery, pair |-> PairPage, newCode |-> NewCode,
           shell |-> Shell, rotate |-> RotateToken]
Pages == DOMAIN Script

\* The file that an operation uses.
Uses == [
    guest |-> "session", verify |-> "session", sign |-> "session",
    form |-> "csrf", render |-> "csrf", token |-> "cli", redraw |-> "cli", offer |-> "code",
    countAuto |-> "autoViews", countPassword |-> "passwordViews", countRecovery |-> "recoveryViews",
    zeroPassword |-> "passwordViews", zeroRecovery |-> "recoveryViews"]

Counting == {"countAuto", "countPassword", "countRecovery"}
Zeroing == {"zeroPassword", "zeroRecovery"}
Guarded == {"guest", "verify", "form", "token"}   \* they compare the file with what was sent
Others == {"pending", "attempt", "mark", "leave", "fetch", "drop"}

ASSUME MarksAssumption == Marks # {} /\ Marks \cap Nat = {} /\ (Marks \cup Nat) \cap Unreadable = {}
ASSUME BrowsersAssumption == IsFiniteSet(Browsers)
ASSUME LengthAssumption == ~Ragged
ASSUME MixesAssumption == Mixes \subseteq [pages : SUBSET Pages, keys : SUBSET {"session", "csrf"}, entered : BOOLEAN]
ASSUME NumbersAssumption == MaxCount \in Nat /\ MaxAttempts \in Nat \ {0} /\ Window \in Nat

VARIABLES
    mix,       \* what this behaviour is about
    file,      \* each file and its .tmp
    stale,     \* the pair code on file has less than 30 seconds left
    entered,   \* .first-login-done
    attempts,  \* _login_attempts of the one address: ages of the attempts it lists
    req,       \* each browser's request
    jar,       \* what each browser holds: cookie, form token, CLI token, pair code
    raced,     \* history: what two requests have had in hand at once
    seen,      \* history: pages that revealed a secret, since its counter was zeroed
    passed,    \* history: ages of the attempts the limiter let pass
    greeted    \* history: a login was answered with a success

vars == <<mix, file, stale, entered, attempts, req, jar, raced, seen, passed, greeted>>

Nothing == [f \in Drawn |-> Absent]

\* rest: the operations to come; text: what the file is to hold; list: the attempts
\* read; gift: what the answer will hand out; had: the counters it has raised;
\* late (history): it began after a login was answered.
Idle == [page |-> "none", rest |-> <<>>, at |-> "next", text |-> Absent, list |-> <<>>,
         gift |-> Nothing, had |-> {}, late |-> FALSE]

\* _lifespan has written the CLI token.  The browsers have a form if there is a key for
\* it, and a cookie if they have logged in.
FirstMark == CHOOSE m \in Marks : TRUE
Signed == mix.keys \ (IF mix.entered THEN {} ELSE {"session"})

Init ==
    /\ mix \in Mixes
    /\ file = [f \in Names |-> IF f \in mix.keys \cup {"cli"} THEN [NoFile(Browsers) EXCEPT !.live = FirstMark]
                               ELSE NoFile(Browsers)]
    /\ stale = FALSE /\ entered = mix.entered /\ greeted = mix.entered
    /\ attempts = <<>> /\ passed = <<>>
    /\ req = [b \in Browsers |-> Idle]
    /\ jar = [b \in Browsers |-> [f \in Drawn |-> IF f \in Signed THEN FirstMark ELSE Absent]]
    /\ raced = {}
    /\ seen = [f \in Counters |-> 0]

Op(b) == IF req[b].rest = <<>> THEN "answer" ELSE Head(req[b].rest)
About(b) == Uses[Op(b)]
Ready(b, ops) == Op(b) \in ops /\ req[b].at = "next"
Becomes(b, r) == req' = [req EXCEPT ![b] = r]
Onward(b) == [req[b] EXCEPT !.rest = Tail(@), !.at = "next", !.text = Absent, !.list = <<>>]
Turn(b, ops) == [req[b] EXCEPT !.rest = ops, !.at = "next", !.list = <<>>]

Begin(b, p) ==
    /\ req[b] = Idle /\ p \in mix.pages
    /\ Becomes(b, [Idle EXCEPT !.page = p, !.rest = Script[p], !.late = greeted])
    /\ UNCHANGED <<mix, file, stale, entered, attempts, jar, raced, seen, passed, greeted>>

-----------------------------------------------------------------------------
\* What two requests have in hand at once: one writes the file, or withdraws what
\* it says, while another is writing it or has yet to answer with what it said.
Writing(b, f) == req[b].at \in {"open", "opened", "full"} /\ About(b) = f
InHand(b, f) == Writing(b, f) \/ f \in req[b].had
Race(f, others) == raced' = IF others = {} THEN raced ELSE raced \cup {f}

\* What an operation made of the text it read or wrote.
Result(b, got) ==
    CASE Op(b) = "guest" -> IF jar[b]["session"] = got THEN Idle ELSE Onward(b)
      [] Op(b) \in Guarded \ {"guest"} -> IF jar[b][About(b)] = got THEN Onward(b) ELSE Idle
      [] Op(b) \in Counting -> [Onward(b) EXCEPT !.had = @ \cup {About(b)}]
      [] Op(b) \in {"sign", "render", "offer"} -> [Onward(b) EXCEPT !.gift[About(b)] = got]
      [] OTHER -> Onward(b)

Turned(b) == IF Op(b) = "guest" THEN Onward(b) ELSE Idle

\* Nothing was sent: no file is read.
NothingSent(b) ==
    /\ Ready(b, Guarded) /\ jar[b][About(b)] = Absent
    /\ Becomes(b, Turned(b))
    /\ UNCHANGED <<mix, file, stale, entered, attempts, jar, raced, seen, passed, greeted>>

\* Mutant: no pair code is kept.
UsableUnlessCode(f) == file[f].live \in Marks /\ f # "code"

\* The text on file will do.
Usable(f) == file[f].live \in Marks /\ ~(f = "code" /\ stale)
Proceeds(b) == Ready(b, DOMAIN Uses) /\ (Op(b) \in Guarded => jar[b][About(b)] # Absent)

\* The file holds a text that will do.  (A cookie or a form of 12 hours ago will not.)
Use(b) ==
    /\ Proceeds(b) /\ Op(b) \notin Counting \cup Zeroing \cup {"redraw"}
    /\ Usable(About(b))
    /\ \/ Becomes(b, Result(b, file[About(b)].live))
       \/ Op(b) \in {"guest", "verify", "form"} /\ Becomes(b, Turned(b))
    /\ UNCHANGED <<mix, file, stale, entered, attempts, jar, raced, seen, passed, greeted>>

\* It is to hold another one.
Free(f) == {m \in Marks : /\ m \notin {file[f].live, file[f].tmp}
                          /\ \A c \in Browsers : m \notin {req[c].text, req[c].gift[f], jar[c][f]}}
Count(f) == IF file[f].live \in Nat THEN file[f].live ELSE 0
\* Mutant: a counter is zeroed by emptying its file.
NewTextsEmptied(b) ==
    IF Op(b) \in Counting THEN {Count(About(b)) + 1} \cap 0..MaxCount
      ELSE IF Op(b) \in Zeroing THEN {Empty}
      ELSE {m \in Free(About(b)) : /\ Op(b) = "redraw" \/ ~Usable(About(b))
                                   /\ m = CHOOSE n \in Free(About(b)) : TRUE}

NewTexts(b) ==
    IF Op(b) \in Counting THEN {Count(About(b)) + 1} \cap 0..MaxCount
      ELSE IF Op(b) \in Zeroing THEN {0}
      ELSE {m \in Free(About(b)) : /\ Op(b) = "redraw" \/ ~Usable(About(b))
                                   /\ m = CHOOSE n \in Free(About(b)) : TRUE}

Need(b) ==
    /\ Proceeds(b)
    /\ \E text \in NewTexts(b) : Becomes(b, [req[b] EXCEPT !.at = "open", !.text = text])
    /\ Race(About(b), {c \in Browsers \ {b} : IF Op(b) \in Zeroing THEN InHand(c, About(b))
                                                                  ELSE Writing(c, About(b))})
    /\ UNCHANGED <<mix, file, stale, entered, attempts, jar, seen, passed, greeted>>

Open(b) ==
    /\ req[b].at = "open"
    /\ file' = [file EXCEPT ![About(b)] = Opened(@, b)]
    /\ Becomes(b, [req[b] EXCEPT !.at = "opened"])
    /\ UNCHANGED <<mix, stale, entered, attempts, jar, raced, seen, passed, greeted>>

Fill(b) ==
    /\ req[b].at = "opened"
    /\ \E g \in Filled(file[About(b)], b, req[b].text) : file' = [file EXCEPT ![About(b)] = g]
    /\ Becomes(b, [req[b] EXCEPT !.at = "full"])
    /\ UNCHANGED <<mix, stale, entered, attempts, jar, raced, seen, passed, greeted>>

\* What browsers hold of a file that now says something else by intent.
Withdrawn(f) == [c \in Browsers |-> [jar[c] EXCEPT ![f] = Absent]]
Unoffered == [c \in Browsers |-> [req[c] EXCEPT !.gift["code"] = Absent]]

Replace(b) ==
    /\ req[b].at = "full" /\ file[About(b)].tmp # Absent
    /\ file' = [file EXCEPT ![About(b)] = Replaced(@)]
    /\ Becomes(b, Result(b, req[b].text))
    /\ stale' = (stale /\ About(b) # "code")
    /\ jar' = IF Op(b) = "redraw" THEN Withdrawn("cli") ELSE jar
    /\ seen' = IF Op(b) \in Zeroing THEN [seen EXCEPT ![About(b)] = 0] ELSE seen
    /\ UNCHANGED <<mix, entered, attempts, raced, passed, greeted>>

-----------------------------------------------------------------------------
\* is_first_login_pending: the login page shows the password, and counts that.
Pending(b) ==
    /\ Ready(b, {"pending"})
    /\ Becomes(b, Turn(b, IF entered THEN <<"render">> ELSE <<"countAuto", "render">>))
    /\ UNCHANGED <<mix, file, stale, entered, attempts, jar, raced, seen, passed, greeted>>

\* _login_rate_limit_check reads the attempts of the last minute, ...
Attempt(b) ==
    /\ Ready(b, {"attempt"})
    /\ Becomes(b, [req[b] EXCEPT !.at = "limit", !.list = attempts])
    /\ Race("attempts", {c \in Browsers : req[c].at = "limit"})
    /\ UNCHANGED <<mix, file, stale, entered, attempts, jar, seen, passed, greeted>>

\* ... and stores them again: refused when there are too many, else with this one.
\* Then the password is right or wrong.
TooManyByOne(b) == Len(req[b].list) > MaxAttempts    \* mutant
TooMany(b) == Len(req[b].list) >= MaxAttempts
Refuse(b) ==
    /\ req[b].at = "limit" /\ TooMany(b)
    /\ attempts' = req[b].list
    /\ Becomes(b, Turn(b, <<"render">>))
    /\ UNCHANGED <<mix, file, stale, entered, jar, raced, seen, passed, greeted>>

Admit(b) ==
    /\ req[b].at = "limit" /\ ~TooMany(b)
    /\ attempts' = Append(req[b].list, 0)
    /\ passed' = IF "attempts" \in raced THEN <<>> ELSE Append(passed, 0)
    /\ \E ops \in {Tail(req[b].rest), <<"render">>} : Becomes(b, Turn(b, ops))
    /\ UNCHANGED <<mix, file, stale, entered, jar, raced, seen, greeted>>

\* Mutant: nobody retires the first login.
MarkForgotten(b) ==
    /\ Ready(b, {"mark"})
    /\ Becomes(b, Onward(b))
    /\ UNCHANGED <<mix, file, stale, entered, attempts, jar, raced, seen, passed, greeted>>

\* mark_first_login_done
Mark(b) ==
    /\ Ready(b, {"mark"})
    /\ entered' = TRUE
    /\ Becomes(b, Onward(b))
    /\ UNCHANGED <<mix, file, stale, attempts, jar, raced, seen, passed, greeted>>

\* clear_session_cookie
Leave(b) ==
    /\ Ready(b, {"leave"})
    /\ jar' = [jar EXCEPT ![b]["session"] = Absent]
    /\ Becomes(b, Onward(b))
    /\ UNCHANGED <<mix, file, stale, entered, attempts, raced, seen, passed, greeted>>

\* The shell reads the CLI token, for the request that it is about to make.
Fetch(b) ==
    /\ Ready(b, {"fetch"})
    /\ jar' = [jar EXCEPT ![b]["cli"] = IF file["cli"].live \in Marks THEN file["cli"].live ELSE Absent]
    /\ Becomes(b, Onward(b))
    /\ UNCHANGED <<mix, file, stale, entered, attempts, raced, seen, passed, greeted>>

\* discard_active_code looks whether there is a code, ...
Look(b) ==
    /\ Ready(b, {"drop"})
    /\ Becomes(b, IF file["code"].live = Absent THEN Onward(b) ELSE [req[b] EXCEPT !.at = "unlink"])
    /\ UNCHANGED <<mix, file, stale, entered, attempts, jar, raced, seen, passed, greeted>>

\* ... and unlinks it.
Unlink(b) ==
    /\ req[b].at = "unlink" /\ file["code"].live # Absent
    /\ file' = [file EXCEPT !["code"] = Unlinked(@)]
    /\ stale' = FALSE
    /\ jar' = Withdrawn("code")
    /\ Race("code", {c \in Browsers \ {b} : Writing(c, "code")})
    /\ req' = [Unoffered EXCEPT ![b] = Onward(b)]
    /\ UNCHANGED <<mix, entered, attempts, seen, passed, greeted>>

\* The answer: the browser keeps what it is handed, the operator sees what is shown.
Answer(b) ==
    /\ req[b] # Idle /\ req[b].rest = <<>>
    /\ jar' = [jar EXCEPT ![b] = [f \in Drawn |-> IF req[b].gift[f] = Absent THEN @[f] ELSE req[b].gift[f]]]
    /\ seen' = [f \in Counters |-> IF f \in req[b].had \ raced THEN seen[f] + 1 ELSE seen[f]]
    /\ greeted' = (greeted \/ req[b].gift["session"] # Absent)
    /\ Becomes(b, Idle)
    /\ UNCHANGED <<mix, file, stale, entered, attempts, raced, passed>>

\* Mutant: a page that cannot count is shown all the same.
FailsUncounted(b) ==
    /\ req[b].at \in {"open", "opened"} /\ Op(b) \in Counting
    /\ file' = [f \in Names |-> Closed(file[f], {b})]
    /\ Becomes(b, Result(b, Absent))
    /\ UNCHANGED <<mix, stale, entered, attempts, jar, raced, seen, passed, greeted>>

\* A write fails, or the file to rename or unlink is gone: a 500.
Fails(b) ==
    /\ \/ req[b].at \in {"open", "opened"} \/ Ready(b, {"mark"})
       \/ req[b].at = "full" /\ file[About(b)].tmp = Absent
       \/ req[b].at = "unlink" /\ file["code"].live = Absent
    /\ file' = [f \in Names |-> Closed(file[f], {b})]
    /\ Becomes(b, Idle)
    /\ UNCHANGED <<mix, stale, entered, attempts, jar, raced, seen, passed, greeted>>

-----------------------------------------------------------------------------
\* The wizard restarts.  (rotate is a process of its own: see Fails for its end.)
Served == {b \in Browsers : req[b].page # "rotate"}
Restart ==
    /\ \E b \in Served : req[b] # Idle
    /\ req' = [b \in Browsers |-> IF b \in Served THEN Idle ELSE req[b]]
    /\ file' = [f \in Names |-> Closed(file[f], Served)]
    /\ attempts' = <<>> /\ passed' = <<>> /\ raced' = raced \ {"attempts"}
    /\ UNCHANGED <<mix, stale, entered, jar, seen, greeted>>

\* Time passes: attempts grow old.  (The oldest come first.)
Gone(list) == Cardinality({i \in DOMAIN list : list[i] >= Window})
Older(list) == [i \in 1..(Len(list) - Gone(list)) |-> list[i + Gone(list)] + 1]
Tick ==
    /\ attempts # <<>>
    /\ attempts' = Older(attempts) /\ passed' = Older(passed)
    /\ req' = [b \in Browsers |-> [req[b] EXCEPT !.list = Older(@)]]
    /\ UNCHANGED <<mix, file, stale, entered, jar, raced, seen, greeted>>

\* The pair code has less than 30 seconds left.
CodeExpires ==
    /\ file["code"].live \in Marks /\ ~stale
    /\ stale' = TRUE
    /\ jar' = Withdrawn("code") /\ req' = Unoffered
    /\ UNCHANGED <<mix, file, entered, attempts, raced, seen, passed, greeted>>

-----------------------------------------------------------------------------
Next ==
    \/ Restart \/ Tick \/ CodeExpires
    \/ \E b \in Browsers :
         \/ \E p \in Pages : Begin(b, p)
         \/ NothingSent(b) \/ Use(b) \/ Need(b) \/ Open(b) \/ Fill(b) \/ Replace(b)
         \/ Pending(b) \/ Attempt(b) \/ Refuse(b) \/ Admit(b) \/ Mark(b) \/ Leave(b)
         \/ Fetch(b) \/ Look(b) \/ Unlink(b) \/ Answer(b) \/ Fails(b)

Spec == Init /\ [][Next]_vars

-----------------------------------------------------------------------------
Texts == Marks \cup 0..MaxCount
Holdings == [Drawn -> {Absent} \cup Marks]

\* The domain of each variable.
TypeOK ==
    /\ mix \in Mixes
    /\ file \in [Names -> File(Browsers, Texts)]
    /\ stale \in BOOLEAN /\ entered \in BOOLEAN /\ greeted \in BOOLEAN
    /\ attempts \in Seq(Nat) /\ passed \in Seq(Nat)
    /\ req \in [Browsers -> [page : Pages \cup {"none"}, rest : Seq(Others \cup DOMAIN Uses),
                             at : {"next", "open", "opened", "full", "limit", "unlink"},
                             text : {Absent} \cup Texts, list : Seq(Nat),
                             gift : Holdings, had : SUBSET Counters, late : BOOLEAN]]
    /\ jar \in [Browsers -> Holdings]
    /\ raced \in SUBSET (Names \cup {"attempts"})
    /\ seen \in [Counters -> Nat]

\* What the wizard hands out holds as long as it says: the cookie of a login, the token
\* in a form and the one the shell read are still accepted, and the code the operator
\* has sent to a peer is still the one on offer.  Only requests that met over the file
\* can break that.
HandedOutHolds ==
    \A f \in Drawn \ raced : \A b \in Browsers : jar[b][f] \in {Absent, file[f].live}

\* "capped at LOGIN_RATELIMIT_MAX in any LOGIN_RATELIMIT_WINDOW_S window"
\* (server.py:500): true until two attempts are checked at the same time.
AttemptsCapped == "attempts" \notin raced => Len(passed) <= MaxAttempts

\* "each render counts as a reveal" (server.py:285): no page shows a secret uncounted,
\* unless requests met over the counter.
RevealsCounted == \A f \in Counters \ raced : seen[f] <= Count(f)

\* Once somebody was told that the login succeeded, no login page asked for shows the
\* password any more.
PasswordHidden ==
    \A b \in Browsers : req[b].late => "autoViews" \notin req[b].had /\ ~Writing(b, "autoViews")
=============================================================================
