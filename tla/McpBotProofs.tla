---------------------------- MODULE McpBotProofs ----------------------------
(***************************************************************************)
(* Theorems about McpBot and the accounts of People, for every set of      *)
(* operators, names, passwords, rooms, inviters and calls.                 *)
(***************************************************************************)
EXTENDS McpBot, TLAPS

Requests == [at : {"idle", "session", "call", "answer"}, op : Ops, name : Names,
             host : Hosts, pw : Passwords \cup {Absent}] \cup {Idle}

-----------------------------------------------------------------------------
\* Requests are replaced whole or moved on.
LEMMA MovedOn ==
    ASSUME NEW r \in Requests, r.at # "idle", NEW at \in {"session", "call", "answer"}
    PROVE  LET s == [r EXCEPT !.at = at]
           IN  s \in Requests /\ s.at = at /\ s.op = r.op /\ s.name = r.name /\ s.host = r.host /\ s.pw = r.pw
BY DEF Requests, Idle

\* What a request of one operator does to the others: nothing.
LEMMA OneMoves ==
    ASSUME PeopleTypeOK, NEW o \in Operators, NEW at \in {"session", "call", "answer"},
           req[o].at # "idle", req' = [req EXCEPT ![o].at = at]
    PROVE  /\ req' \in [Operators -> Requests]
           /\ \A p \in Operators \ {o} : req'[p] = req[p]
           /\ req'[o].at = at /\ req'[o].op = req[o].op /\ req'[o].name = req[o].name
           /\ req'[o].host = req[o].host /\ req'[o].pw = req[o].pw
<1>1. req \in [Operators -> Requests]
  BY DEF PeopleTypeOK, Requests
<1> DEFINE s == [req[o] EXCEPT !.at = at]
<1>2. s \in Requests /\ s.at = at /\ s.op = req[o].op /\ s.name = req[o].name /\ s.host = req[o].host /\ s.pw = req[o].pw
  BY <1>1, MovedOn
<1>3. req' = [req EXCEPT ![o] = s]
  OBVIOUS
<1> HIDE DEF s
<1>4. QED
  BY <1>1, <1>2, <1>3

\* Operator by operator, a step of the people page moves one request or ends it.
LEMMA Ended ==
    ASSUME PeopleTypeOK, NEW o \in Operators, req' = [req EXCEPT ![o] = Idle]
    PROVE  /\ req' \in [Operators -> Requests]
           /\ \A p \in Operators \ {o} : req'[p] = req[p]
           /\ req'[o] = Idle
BY DEF PeopleTypeOK, Requests

\* A request that begins has a password of its own, or none to remove somebody.
Drawn(r) == IF r.op = "remove" THEN r.pw = Absent ELSE r.at # "idle" => r.pw \in Passwords

LEMMA Begun ==
    ASSUME PeopleTypeOK, NEW o \in Operators, NEW ask \in Asks, Begin(o, ask)
    PROVE  /\ req' \in [Operators -> Requests]
           /\ \A p \in Operators \ {o} : req'[p] = req[p]
           /\ req'[o].at \in {"session", "call"}
           /\ req'[o].op = ask.op /\ req'[o].name = ask.name /\ req'[o].host = HostOf(ask)
           /\ Drawn(req'[o])
           /\ ~Refused(ask)
           /\ UNCHANGED <<recorded, account, told, doubtful>>
<1>1. req \in [Operators -> Requests] /\ recorded \in [{Admin, Bot} -> Hosts]
  BY DEF PeopleTypeOK, Requests
<1>2. PICK pw \in IF ask.op = "remove" THEN {Absent}
                  ELSE Passwords \ ({account[ask.name]} \cup {req[p].pw : p \in Operators}) :
            req' = [req EXCEPT ![o] = [at |-> IF ask.op = "add" THEN "call" ELSE "session",
                                       op |-> ask.op, name |-> ask.name, host |-> HostOf(ask), pw |-> pw]]
  BY DEF Begin
<1> DEFINE s == [at |-> IF ask.op = "add" THEN "call" ELSE "session",
                 op |-> ask.op, name |-> ask.name, host |-> HostOf(ask), pw |-> pw]
<1>3. HostOf(ask) \in Hosts
  BY <1>1 DEF HostOf, Asks, Hosts
<1>4. s \in Requests /\ Drawn(s)
  BY <1>2, <1>3 DEF Requests, Asks, Drawn
<1>5. s.at \in {"session", "call"} /\ s.op = ask.op /\ s.name = ask.name /\ s.host = HostOf(ask)
  OBVIOUS
<1> HIDE DEF s
<1>6. req' = [req EXCEPT ![o] = s]
  BY <1>2 DEF s
<1>7. QED
  BY <1>1, <1>4, <1>5, <1>6 DEF Begin

-----------------------------------------------------------------------------
\* A request to deactivate somebody was let through only for an account that is
\* neither of the two; a removal has no password; an answer shows what Synapse stored.
Spares(r) ==
    r.op = "remove" /\ r.host = "own" => \A n \in {Admin, Bot} : r.name = n => recorded[n] # "own"
Stored(r) == r.at = "answer" => r.pw \in {Absent, account[r.name]} \/ r.name \in doubtful
PeopleInv ==
    /\ PeopleTypeOK
    /\ \A o \in Operators :
         /\ Drawn(req[o])
         /\ Spares(req[o])
         /\ Stored(req[o])
    /\ ProtectedStay
    /\ SharedPasswordWorks

\* Any request may come to nothing, ...
LEMMA FailsInv ==
    ASSUME PeopleInv, NEW o \in Operators, PersonFails(o)
    PROVE  PeopleInv'
<1>1. PeopleTypeOK BY DEF PeopleInv
<1>2. /\ req' \in [Operators -> Requests] /\ \A p \in Operators \ {o} : req'[p] = req[p]
      /\ req'[o] = Idle /\ UNCHANGED <<recorded, account, told>>
  BY <1>1, Ended DEF PersonFails
<1>3. doubtful' = IF req[o].at = "answer" THEN doubtful \cup {req[o].name} ELSE doubtful
  BY DEF PersonFails, Doubt
<1>4. req[o].name \in Names
  BY <1>1, NamesAssumption DEF PeopleTypeOK, Idle
<1>5. PeopleTypeOK'
  BY <1>1, <1>2, <1>3, <1>4 DEF PeopleTypeOK, Requests
<1>6. ASSUME NEW p \in Operators
      PROVE  /\ Drawn(req[p])'
             /\ Spares(req[p])' /\ Stored(req[p])'
  BY <1>2, <1>3 DEF PeopleInv, Drawn, Spares, Stored, Idle
<1>7. ProtectedStay'
  BY <1>2 DEF PeopleInv, ProtectedStay
<1>8. SharedPasswordWorks'
  BY <1>2, <1>3 DEF PeopleInv, SharedPasswordWorks
<1>9. QED BY <1>5, <1>6, <1>7, <1>8 DEF PeopleInv

\* ... be answered, ...
LEMMA AnswerInv ==
    ASSUME PeopleInv, NEW o \in Operators, Answer(o)
    PROVE  PeopleInv'
<1>1. PeopleTypeOK BY DEF PeopleInv
<1>2. /\ req' \in [Operators -> Requests] /\ \A p \in Operators \ {o} : req'[p] = req[p]
      /\ req'[o] = Idle /\ UNCHANGED <<recorded, account, doubtful>>
  BY <1>1, Ended DEF Answer
<1>3. told' = [told EXCEPT ![req[o].name] = req[o].pw] /\ req[o].at = "answer"
  BY DEF Answer
<1>4. req[o].name \in Names /\ req[o].pw \in Passwords \cup {Absent}
  BY <1>1, NamesAssumption DEF PeopleTypeOK, Idle
<1>5. PeopleTypeOK'
  BY <1>1, <1>2, <1>3, <1>4 DEF PeopleTypeOK, Requests
<1>6. ASSUME NEW p \in Operators
      PROVE  /\ Drawn(req[p])'
             /\ Spares(req[p])' /\ Stored(req[p])'
  BY <1>2 DEF PeopleInv, Drawn, Spares, Stored, Idle
<1>7. ProtectedStay'
  BY <1>2 DEF PeopleInv, ProtectedStay
<1>8. SharedPasswordWorks'
  <2> SUFFICES ASSUME NEW n \in Names
               PROVE  told'[n] \in {Absent, account[n]} \/ n \in doubtful
                      \/ \E p \in Operators : req'[p].at = "answer" /\ req'[p].name = n
    BY <1>2 DEF SharedPasswordWorks
  <2>1. CASE n = req[o].name
    BY <2>1, <1>1, <1>3 DEF PeopleInv, Stored, PeopleTypeOK
  <2>2. CASE n # req[o].name
    BY <2>2, <1>1, <1>2, <1>3 DEF PeopleInv, SharedPasswordWorks, PeopleTypeOK
  <2>3. QED BY <2>1, <2>2
<1>9. QED BY <1>5, <1>6, <1>7, <1>8 DEF PeopleInv

\* ... or have Synapse change one account, and await its answer.
LEMMA CallInv ==
    ASSUME PeopleInv, NEW o \in Operators, req[o].at = "call", Answering(o),
           NEW text \in Passwords \cup {"free", "gone"},
           account' = [account EXCEPT ![req[o].name] = text],
           text = "gone" => (Spares(req[o]) /\ req[o].op = "remove" /\ req[o].host = "own")
                            \/ account[req[o].name] = "gone",
           NEW if \in BOOLEAN, Doubt(req[o].name, if), Overtaken(o) => if,
           ~if => req[o].pw \in {Absent, text},
           UNCHANGED <<recorded, told>>
    PROVE  PeopleInv'
<1>1. PeopleTypeOK BY DEF PeopleInv
<1>2. /\ req' \in [Operators -> Requests]
      /\ \A p \in Operators \ {o} : req'[p] = req[p]
      /\ req'[o].at = "answer" /\ req'[o].op = req[o].op /\ req'[o].name = req[o].name
      /\ req'[o].host = req[o].host /\ req'[o].pw = req[o].pw
  BY <1>1, OneMoves DEF Answering
<1>3. doubtful' = IF if THEN doubtful \cup {req[o].name} ELSE doubtful
  BY DEF Doubt
<1>4. req[o].name \in Names
  BY <1>1, NamesAssumption DEF PeopleTypeOK, Idle
<1>5. PeopleTypeOK'
  BY <1>1, <1>2, <1>3, <1>4 DEF PeopleTypeOK, Requests
<1>6. ASSUME NEW p \in Operators
      PROVE  /\ Drawn(req[p])'
             /\ Spares(req[p])' /\ Stored(req[p])'
  <2>1. CASE p = o
    BY <2>1, <1>1, <1>2, <1>3, <1>4 DEF PeopleInv, Drawn, Spares, Stored, PeopleTypeOK
  <2>2. CASE p # o
    <3>1. req'[p] = req[p] /\ (req[p].at = "answer" /\ req[p].name = req[o].name => req[o].name \in doubtful')
      BY <2>2, <1>2, <1>3 DEF Overtaken
    <3>2. QED BY <3>1, <1>1, <1>3 DEF PeopleInv, Drawn, Spares, Stored, PeopleTypeOK
  <2>3. QED BY <2>1, <2>2
<1>7. ProtectedStay'
  <2> SUFFICES ASSUME NEW n \in {Admin, Bot}, recorded[n] = "own", account'[n] = "gone"
               PROVE  FALSE
    BY DEF ProtectedStay
  <2>1. n \in Names /\ account[n] # "gone"
    BY NamesAssumption DEF PeopleInv, ProtectedStay
  <2>2. n = req[o].name /\ text = "gone"
    BY <2>1, <1>1 DEF PeopleTypeOK
  <2>3. QED BY <2>1, <2>2 DEF Spares
<1>8. SharedPasswordWorks'
  <2> SUFFICES ASSUME NEW n \in Names
               PROVE  told[n] \in {Absent, account'[n]} \/ n \in doubtful'
                      \/ \E p \in Operators : req'[p].at = "answer" /\ req'[p].name = n
    BY DEF SharedPasswordWorks
  <2>1. CASE n = req[o].name
    BY <2>1, <1>2
  <2>2. CASE n # req[o].name
    <3>1. account'[n] = account[n] BY <2>2, <1>1 DEF PeopleTypeOK
    <3>2. QED BY <2>2, <3>1, <1>2, <1>3 DEF PeopleInv, SharedPasswordWorks
  <2>3. QED BY <2>1, <2>2
<1>9. QED BY <1>5, <1>6, <1>7, <1>8 DEF PeopleInv

LEMMA BeginInv ==
    ASSUME PeopleInv, NEW o \in Operators, NEW ask \in Asks, Begin(o, ask)
    PROVE  PeopleInv'
<1>1. PeopleTypeOK BY DEF PeopleInv
<1>2. /\ req' \in [Operators -> Requests]
      /\ \A p \in Operators \ {o} : req'[p] = req[p]
      /\ req'[o].at \in {"session", "call"}
      /\ req'[o].op = ask.op /\ req'[o].name = ask.name /\ req'[o].host = HostOf(ask)
      /\ Drawn(req'[o])
      /\ ~Refused(ask)
      /\ UNCHANGED <<recorded, account, told, doubtful>>
  BY <1>1, Begun
<1>3. req[o].at = "idle" BY DEF Begin, Idle
<1>4. PeopleTypeOK'
  BY <1>1, <1>2 DEF PeopleTypeOK, Requests
<1>5. ASSUME NEW p \in Operators
      PROVE  /\ Drawn(req[p])'
             /\ Spares(req[p])' /\ Stored(req[p])'
  <2>1. CASE p = o
    BY <2>1, <1>2 DEF Drawn, Spares, Stored, Refused
  <2>2. CASE p # o
    BY <2>2, <1>2 DEF PeopleInv, Drawn, Spares, Stored
  <2>3. QED BY <2>1, <2>2
<1>6. ProtectedStay' /\ SharedPasswordWorks'
  BY <1>2, <1>3 DEF PeopleInv, ProtectedStay, SharedPasswordWorks
<1>7. QED BY <1>4, <1>5, <1>6 DEF PeopleInv

LEMMA SessionInv ==
    ASSUME PeopleInv, NEW o \in Operators, HasSession(o)
    PROVE  PeopleInv'
<1>1. PeopleTypeOK BY DEF PeopleInv
<1>2. /\ req' \in [Operators -> Requests]
      /\ \A p \in Operators \ {o} : req'[p] = req[p]
      /\ req'[o].at = "call" /\ req'[o].op = req[o].op /\ req'[o].name = req[o].name
      /\ req'[o].host = req[o].host /\ req'[o].pw = req[o].pw
      /\ UNCHANGED <<recorded, account, told, doubtful>>
  BY <1>1, OneMoves DEF HasSession
<1>3. PeopleTypeOK'
  BY <1>1, <1>2 DEF PeopleTypeOK, Requests
<1>4. ASSUME NEW p \in Operators
      PROVE  /\ Drawn(req[p])'
             /\ Spares(req[p])' /\ Stored(req[p])'
  BY <1>2 DEF PeopleInv, Drawn, Spares, Stored, HasSession
<1>5. ProtectedStay' /\ SharedPasswordWorks'
  BY <1>2 DEF PeopleInv, ProtectedStay, SharedPasswordWorks, HasSession
<1>6. QED BY <1>3, <1>4, <1>5 DEF PeopleInv

\* All that operators can do, together.
LEMMA PeopleStepInv ==
    ASSUME PeopleInv, NEW asks \in SUBSET Asks, PeopleNext(asks)
    PROVE  PeopleInv'
<1>1. PeopleTypeOK BY DEF PeopleInv
<1>2. PICK o \in Operators :
        \/ HasSession(o) \/ Register(o) \/ SetPassword(o) \/ Deactivate(o) \/ Answer(o) \/ PersonFails(o)
        \/ \E ask \in asks : Begin(o, ask)
  BY DEF PeopleNext
<1> DEFINE n == req[o].name
<1>3. account = [account EXCEPT ![n] = account[n]]
  BY <1>1 DEF PeopleTypeOK
<1>4. ASSUME req[o].at \in {"session", "call"}
      PROVE  n \in Names /\ account[n] \in Passwords \cup {"free", "gone"} /\ req[o].pw \in Passwords \cup {Absent}
  BY <1>1, <1>4 DEF PeopleTypeOK, Idle
<1>5. CASE HasSession(o) BY <1>5, SessionInv
<1>6. CASE Register(o)
  <2> DEFINE text == IF account[n] = "free" THEN req[o].pw ELSE account[n]
             if == account[n] # "free" \/ Overtaken(o)
  <2>1. /\ req[o].at = "call" /\ req[o].op = "add" /\ Answering(o)
        /\ account' = [account EXCEPT ![n] = text] /\ Doubt(n, if)
        /\ UNCHANGED <<recorded, told>>
    BY <1>3, <1>6 DEF Register
  <2>2. if \in BOOLEAN /\ (Overtaken(o) => if) /\ (~if => req[o].pw \in {Absent, text})
    BY DEF Overtaken
  <2>3. text \in Passwords \cup {"free", "gone"} /\ (text = "gone" => account[n] = "gone")
    BY <1>4, <2>1, PasswordsAssumption DEF PeopleInv, Drawn
  <2> HIDE DEF text, if
  <2>4. QED BY <2>1, <2>2, <2>3, CallInv
<1>7. CASE SetPassword(o)
  <2> DEFINE text == IF account[n] = "gone" THEN account[n] ELSE req[o].pw
             if == account[n] = "gone" \/ Overtaken(o)
  <2>1. /\ req[o].at = "call" /\ req[o].op = "reset" /\ Answering(o)
        /\ account' = [account EXCEPT ![n] = text] /\ Doubt(n, if)
        /\ UNCHANGED <<recorded, told>>
    BY <1>3, <1>7 DEF SetPassword
  <2>2. if \in BOOLEAN /\ (Overtaken(o) => if) /\ (~if => req[o].pw \in {Absent, text})
    BY DEF Overtaken
  <2>3. text \in Passwords \cup {"free", "gone"} /\ (text = "gone" => account[n] = "gone")
    BY <1>4, <2>1, PasswordsAssumption DEF PeopleInv, Drawn
  <2> HIDE DEF text, if
  <2>4. QED BY <2>1, <2>2, <2>3, CallInv
<1>8. CASE Deactivate(o)
  <2>1. /\ req[o].at = "call" /\ req[o].op = "remove" /\ req[o].host = "own" /\ Answering(o)
        /\ account' = [account EXCEPT ![n] = "gone"] /\ Doubt(n, Overtaken(o))
        /\ UNCHANGED <<recorded, told>>
    BY <1>8 DEF Deactivate, Existing
  <2>2. Overtaken(o) \in BOOLEAN BY DEF Overtaken
  <2>3. Spares(req[o]) /\ req[o].pw = Absent
    BY <2>1 DEF PeopleInv, Drawn
  <2>4. QED BY <2>1, <2>2, <2>3, CallInv
<1>9. CASE Answer(o) BY <1>9, AnswerInv
<1>10. CASE PersonFails(o) BY <1>10, FailsInv
<1>11. CASE \E ask \in asks : Begin(o, ask) BY <1>11, BeginInv
<1>12. QED BY <1>2, <1>5, <1>6, <1>7, <1>8, <1>9, <1>10, <1>11

-----------------------------------------------------------------------------
Bots == [pw : Passwords \cup {Absent}, token : {Absent} \cup Tokens, ready : BOOLEAN,
         rooms : SUBSET Rooms, sent : SUBSET Rooms, todo : SUBSET Invitations, tries : 0..MaxJoins-1]

BotTypeOK ==
    /\ handed \in Passwords \cup {Absent} /\ creds \in Passwords \cup {Absent, Empty} /\ complete \in BOOLEAN
    /\ session \in {Absent, Empty} \cup Tokens
    /\ pc \in {"wait", "start", "save", "fill", "upload", "sync", "invites"}
    /\ bot \in Bots
    /\ scene \in Scenes /\ member \in [Rooms -> Inviters \cup {"out", "in"}]
    /\ call \in [Calls -> [at : {"idle", "look", "upload", "send"}, room : Rooms]]
    /\ vouched \in SUBSET Rooms /\ missed \in SUBSET Rooms

LEMMA TypeParts == TypeOK <=> PeopleTypeOK /\ BotTypeOK
BY DEF TypeOK, BotTypeOK, Bots

LEMMA NoBotTyped == NoBot \in Bots
BY BotAssumption DEF NoBot, Bots, Tokens

LEMMA NoCallTyped == Rooms # {} => NoCall \in [at : {"idle", "look", "upload", "send"}, room : Rooms]
BY DEF NoCall

\* Only setup's registrations and the people page change the accounts.
LEMMA AccountSteps == [Next]_vars => UNCHANGED peopleVars \/ SetupRegisters \/ PeopleStep
<1> SUFFICES ASSUME [Next]_vars, ~SetupRegisters, ~PeopleStep PROVE UNCHANGED peopleVars
  OBVIOUS
<1>1. CASE SetupStep
  BY <1>1 DEF SetupStep, SetupTears, SetupFills, SetupEnds
<1>2. CASE Goes
  BY <1>2 DEF Goes, Poll, Restore, LogIn, WrongPassword, SaveTears, SaveFills, UploadKeys, Sync, Synced, Moves, Elsewhere
<1>3. CASE Handles
  BY <1>3 DEF Handles, Ignore, Join, JoinRefused, Moves, Elsewhere
<1>4. CASE Trouble
  BY <1>4 DEF Trouble, StartFails, SyncBreaks, Crash, Moves, Elsewhere
<1>5. CASE \E r \in Rooms : TurnOut(r) \/ \E who \in Inviters : Invite(r, who)
  BY <1>5 DEF TurnOut, Invite
<1>6. CASE \E c \in Calls : Look(c) \/ Upload(c) \/ Send(c) \/ ToolFails(c) \/ \E r \in Rooms : Use(c, r)
  BY <1>6 DEF Look, Upload, Send, ToolFails, Use
<1>7. CASE UNCHANGED vars
  BY <1>7 DEF vars
<1>8. QED
  BY <1>1, <1>2, <1>3, <1>4, <1>5, <1>6, <1>7 DEF Next

LEMMA RegistersInv ==
    ASSUME PeopleInv, scene \in Scenes, SetupRegisters
    PROVE  PeopleInv' /\ account' \in [Names -> Passwords \cup {"free", "gone"}]
<1>1. PeopleTypeOK BY DEF PeopleInv
<1>2. PICK pw \in scene.passwords :
         account' = [account EXCEPT ![Admin] = IF @ = "free" THEN CHOOSE p \in Passwords : TRUE ELSE @,
                                    ![Bot] = IF @ = "free" THEN pw ELSE @]
  BY DEF SetupRegisters
<1>3. pw \in Passwords /\ (CHOOSE p \in Passwords : TRUE) \in Passwords
  BY BotAssumption
<1>4. /\ account' \in [Names -> Passwords \cup {"free", "gone"}]
      /\ \A n \in Names : account[n] # "free" => account'[n] = account[n]
      /\ \A n \in Names : account[n] = "free" => account'[n] # "gone"
  BY <1>1, <1>2, <1>3, NamesAssumption, PasswordsAssumption DEF PeopleTypeOK
<1>5. UNCHANGED <<recorded, req, told, doubtful>>
  BY DEF SetupRegisters
<1>6. PeopleTypeOK'
  BY <1>1, <1>4, <1>5 DEF PeopleTypeOK
<1>7. ASSUME NEW o \in Operators
      PROVE  Drawn(req[o])' /\ Spares(req[o])' /\ Stored(req[o])'
  <2>1. req[o].at = "answer" => req[o].name \in Names /\ req[o].pw \in Passwords \cup {Absent}
    BY <1>1 DEF PeopleTypeOK, Idle
  <2>2. req[o].at = "answer" => req[o].pw \in {Absent, account'[req[o].name]} \/ req[o].name \in doubtful
    BY <1>4, <2>1, PasswordsAssumption DEF PeopleInv, Stored
  <2>3. QED BY <1>5, <2>2 DEF PeopleInv, Drawn, Spares, Stored
<1>8. ProtectedStay'
  BY <1>4, <1>5, NamesAssumption DEF PeopleInv, ProtectedStay
<1>9. SharedPasswordWorks'
  <2>1. \A n \in Names : told[n] \in {Absent, account[n]} => told[n] \in {Absent, account'[n]}
    BY <1>1, <1>4, PasswordsAssumption DEF PeopleTypeOK
  <2>2. QED BY <1>5, <2>1 DEF PeopleInv, SharedPasswordWorks
<1>10. QED BY <1>4, <1>5, <1>6, <1>7, <1>8, <1>9 DEF PeopleInv

LEMMA AccountInv ==
    ASSUME PeopleInv, scene \in Scenes, [Next]_vars
    PROVE  PeopleInv'
<1>1. CASE UNCHANGED peopleVars
  BY <1>1 DEF peopleVars, PeopleInv, PeopleTypeOK, Drawn, Spares, Stored, ProtectedStay, SharedPasswordWorks
<1>2. CASE SetupRegisters
  BY <1>2, RegistersInv
<1>3. CASE PeopleStep
  BY <1>3, PeopleStepInv, BotAssumption DEF PeopleStep
<1>4. QED BY <1>1, <1>2, <1>3, AccountSteps

-----------------------------------------------------------------------------
\* Setup's steps, and what the people page does to the bot, leave everything in its domain, ...
LEMMA SetupTypes ==
    ASSUME BotTypeOK, SetupStep \/ PeopleStep
    PROVE  BotTypeOK'
<1>1. CASE SetupRegisters
  BY <1>1, BotAssumption DEF SetupRegisters, BotTypeOK, roomVars
<1>2. CASE SetupTears
  BY <1>2 DEF SetupTears, BotTypeOK, roomVars
<1>3. CASE SetupFills
  BY <1>3, BotAssumption DEF SetupFills, BotTypeOK, roomVars
<1>4. CASE SetupEnds
  BY <1>4 DEF SetupEnds, BotTypeOK, roomVars
<1>5. CASE PeopleStep
  <2> DEFINE over == account'[Bot] # account[Bot]
  <2>1. /\ session' = IF over THEN Dead(session) ELSE session
        /\ bot' = IF over THEN [bot EXCEPT !.token = Dead(@)] ELSE bot
        /\ UNCHANGED <<setupVars, pc, roomVars, call, missed>>
    BY <1>5 DEF PeopleStep
  <2>2. Dead(session) \in {Absent, Empty} \cup Tokens /\ Dead(bot.token) \in {Absent} \cup Tokens
    BY DEF BotTypeOK, Bots, Dead, Tokens
  <2> HIDE DEF over
  <2>3. bot' \in Bots
    BY <2>1, <2>2 DEF BotTypeOK, Bots
  <2>4. session' \in {Absent, Empty} \cup Tokens
    BY <2>1, <2>2 DEF BotTypeOK
  <2>5. QED BY <2>1, <2>3, <2>4 DEF BotTypeOK, setupVars, roomVars
<1>6. QED BY <1>1, <1>2, <1>3, <1>4, <1>5 DEF SetupStep

\* ... and so do the bot's start, ...
LEMMA StartTypes ==
    ASSUME BotTypeOK,
           Poll \/ Restore \/ LogIn \/ WrongPassword \/ SaveTears \/ SaveFills \/ UploadKeys \/ StartFails \/ Crash
    PROVE  BotTypeOK'
<1> USE NoBotTyped
<1>1. CASE Poll
  <2>1. bot' \in Bots BY <1>1 DEF Poll, Bots
  <2>2. QED BY <1>1, <2>1 DEF Poll, Moves, Elsewhere, BotTypeOK, setupVars
<1>2. CASE Restore
  <2>1. bot' \in Bots BY <1>2 DEF Restore, BotTypeOK, Bots
  <2>2. QED BY <1>2, <2>1 DEF Restore, Moves, Elsewhere, BotTypeOK, setupVars
<1>3. CASE LogIn
  <2>1. bot' \in Bots BY <1>3 DEF LogIn, BotTypeOK, Bots, Tokens
  <2>2. QED BY <1>3, <2>1 DEF LogIn, Moves, Elsewhere, BotTypeOK, setupVars
<1>4. CASE WrongPassword
  BY <1>4 DEF WrongPassword, Moves, Elsewhere, BotTypeOK, setupVars
<1>5. CASE SaveTears
  BY <1>5 DEF SaveTears, Moves, Elsewhere, BotTypeOK, setupVars
<1>6. CASE SaveFills
  <2>1. session' \in {Absent} \cup Tokens BY <1>6 DEF SaveFills, BotTypeOK, Bots
  <2>2. QED BY <1>6, <2>1 DEF SaveFills, Moves, Elsewhere, BotTypeOK, setupVars
<1>7. CASE UploadKeys
  BY <1>7 DEF UploadKeys, Moves, Elsewhere, BotTypeOK, setupVars
<1>8. CASE StartFails
  BY <1>8 DEF StartFails, Moves, Elsewhere, BotTypeOK, setupVars
<1>9. CASE Crash
  BY <1>9, NoCallTyped DEF Crash, BotTypeOK, setupVars, roomVars
<1>10. QED BY <1>1, <1>2, <1>3, <1>4, <1>5, <1>6, <1>7, <1>8, <1>9

\* ... its syncs and the invitations they bring, ...
LEMMA SyncTypes ==
    ASSUME BotTypeOK, Sync \/ Synced \/ SyncBreaks \/ Handles
    PROVE  BotTypeOK'
<1>0. 0 \in 0..MaxJoins-1
  BY BotAssumption
<1>1. CASE Sync
  <2>1. [room : Rooms, who : Inviters] = Invitations /\ Joined \subseteq Rooms /\ Unsent \subseteq Rooms
    BY DEF Invitations, Joined, Unsent
  <2>2. {[room |-> r, who |-> member[r]] : r \in Unsent} \subseteq Invitations
    BY DEF Invitations, Unsent
  <2>3. bot' \in Bots BY <1>1, <2>1, <2>2 DEF Sync, BotTypeOK, Bots
  <2>4. QED BY <1>1, <2>3 DEF Sync, Moves, Elsewhere, BotTypeOK, setupVars
<1>2. CASE Synced
  <2>1. bot' \in Bots BY <1>2 DEF Synced, BotTypeOK, Bots
  <2>2. QED BY <1>2, <2>1 DEF Synced, Moves, Elsewhere, BotTypeOK, setupVars
<1>3. CASE SyncBreaks
  <2>1. PICK again \in SUBSET Remaining : bot' = [bot EXCEPT !.todo = {}, !.tries = 0, !.sent = @ \ again]
    BY <1>3 DEF SyncBreaks
  <2>2. bot' \in Bots BY <1>0, <2>1 DEF BotTypeOK, Bots
  <2>3. Remaining \subseteq Rooms BY DEF Remaining, BotTypeOK, Bots, Invitations
  <2>4. QED BY <1>3, <2>2, <2>3 DEF SyncBreaks, Moves, Elsewhere, BotTypeOK, setupVars
<1>4. CASE Handles
  <2>1. PICK i \in Invitations : Ignore(i) \/ Join(i) \/ JoinRefused(i) BY <1>4 DEF Handles
  <2>2. Handled(i) \in Bots BY <1>0 DEF Handled, BotTypeOK, Bots
  <2>3. i.room \in Rooms BY DEF Invitations
  <2>4. CASE Ignore(i)
    BY <2>2, <2>4 DEF Ignore, Moves, Elsewhere, BotTypeOK, setupVars
  <2>5. CASE Join(i)
    BY <2>2, <2>5 DEF Join, Moves, Elsewhere, BotTypeOK, setupVars
  <2>6. CASE JoinRefused(i)
    <3>1. bot' \in Bots
      <4>1. CASE bot.tries + 1 < MaxJoins
        <5>1. bot.tries + 1 \in 0..MaxJoins-1 BY <4>1, BotAssumption DEF BotTypeOK, Bots
        <5>2. QED BY <2>6, <4>1, <5>1 DEF JoinRefused, BotTypeOK, Bots
      <4>2. CASE ~(bot.tries + 1 < MaxJoins)
        BY <2>2, <2>6, <4>2 DEF JoinRefused
      <4>3. QED BY <4>1, <4>2
    <3>2. missed' \in SUBSET Rooms
      BY <2>3, <2>6 DEF JoinRefused, BotTypeOK
    <3>3. QED BY <2>6, <3>1, <3>2 DEF JoinRefused, Moves, Elsewhere, BotTypeOK, setupVars
  <2>7. QED BY <2>1, <2>4, <2>5, <2>6
<1>5. QED BY <1>1, <1>2, <1>3, <1>4

\* ... the tools, and the users.
LEMMA CallTypes ==
    ASSUME BotTypeOK, \/ \E r \in Rooms : TurnOut(r) \/ \E who \in Inviters : Invite(r, who)
                      \/ \E c \in Calls : Look(c) \/ Upload(c) \/ Send(c) \/ ToolFails(c) \/ \E r \in Rooms : Use(c, r)
    PROVE  BotTypeOK'
<1>1. ASSUME NEW r \in Rooms, TurnOut(r) PROVE BotTypeOK'
  BY <1>1 DEF TurnOut, BotTypeOK, setupVars
<1>2. ASSUME NEW r \in Rooms, NEW who \in Inviters, Invite(r, who) PROVE BotTypeOK'
  <2>1. bot' \in Bots BY <1>2 DEF Invite, BotTypeOK, Bots
  <2>2. QED BY <1>2, <2>1 DEF Invite, BotTypeOK, setupVars
<1>3. ASSUME NEW c \in Calls, Look(c) \/ Send(c) \/ ToolFails(c) PROVE BotTypeOK'
  BY <1>3, NoCallTyped DEF Look, Send, ToolFails, BotTypeOK, setupVars, roomVars
<1>4. ASSUME NEW c \in Calls, Upload(c) PROVE BotTypeOK'
  BY <1>4 DEF Upload, BotTypeOK, setupVars, roomVars
<1>5. ASSUME NEW c \in Calls, NEW r \in Rooms, Use(c, r) PROVE BotTypeOK'
  BY <1>5 DEF Use, BotTypeOK, setupVars, roomVars
<1>6. QED BY <1>1, <1>2, <1>3, <1>4, <1>5

LEMMA BotTypes == BotTypeOK /\ [Next]_vars => BotTypeOK'
<1> SUFFICES ASSUME BotTypeOK, [Next]_vars PROVE BotTypeOK'
  OBVIOUS
<1>1. CASE UNCHANGED vars
  BY <1>1 DEF vars, setupVars, roomVars, BotTypeOK
<1>2. QED
  BY <1>1, SetupTypes, StartTypes, SyncTypes, CallTypes DEF Next, Goes, Trouble

-----------------------------------------------------------------------------
\* Whoever vouches, invites; an invitation that may be accepted stands for a room that
\* somebody allowed has invited the bot to, before the sync that tells it and after.
RoomInv ==
    /\ \A r \in Rooms : member[r] = "in" => r \in vouched
    /\ \A r \in Rooms : member[r] \in Inviters /\ Allowed(member[r]) => r \in vouched
    /\ bot.rooms \subseteq vouched
    /\ \A i \in bot.todo : Allowed(i.who) => i.room \in vouched
    /\ \A c \in Calls : call[c].at # "idle" => call[c].room \in vouched

\* What a step must see to for RoomInv to hold.
CallsEnd == \A c \in Calls : \/ call'[c] = call[c] \/ call'[c].at = "idle"
                             \/ call'[c].room = call[c].room /\ call[c].at # "idle"
LEMMA RoomsKept ==
    ASSUME RoomInv, recorded' = recorded, member' = member, vouched' = vouched,
           bot'.rooms \subseteq bot.rooms, bot'.todo \subseteq bot.todo, CallsEnd
    PROVE  RoomInv'
BY DEF RoomInv, Allowed, CallsEnd

LEMMA NoCallBegins == call' = call => CallsEnd
BY DEF CallsEnd

LEMMA SetupRooms ==
    ASSUME BotTypeOK, RoomInv, UNCHANGED recorded, SetupStep \/ PeopleStep
    PROVE  RoomInv'
<1>1. CASE SetupStep
  BY <1>1, RoomsKept, NoCallBegins DEF SetupStep, SetupRegisters, SetupTears, SetupFills, SetupEnds, roomVars, peopleVars
<1>2. CASE PeopleStep
  <2>1. bot' = bot \/ bot' = [bot EXCEPT !.token = Dead(@)]
    BY <1>2 DEF PeopleStep
  <2>2. bot'.rooms = bot.rooms /\ bot'.todo = bot.todo
    BY <2>1 DEF BotTypeOK, Bots
  <2>3. QED BY <1>2, <2>2, RoomsKept, NoCallBegins DEF PeopleStep, roomVars
<1>3. QED BY <1>1, <1>2

LEMMA StartRooms ==
    ASSUME BotTypeOK, RoomInv,
           Poll \/ Restore \/ LogIn \/ WrongPassword \/ SaveTears \/ SaveFills \/ UploadKeys \/ StartFails \/ Crash
    PROVE  RoomInv'
<1>1. CASE Poll \/ Restore \/ LogIn \/ WrongPassword \/ SaveTears \/ SaveFills \/ UploadKeys \/ StartFails
  <2>1. UNCHANGED <<recorded, member, vouched, call>>
    BY <1>1 DEF Poll, Restore, LogIn, WrongPassword, SaveTears, SaveFills, UploadKeys, StartFails, Moves, Elsewhere, peopleVars
  <2>2. bot'.rooms \subseteq bot.rooms /\ bot'.todo \subseteq bot.todo
    <3>1. CASE Poll BY <3>1 DEF Poll, NoBot
    <3>2. CASE Restore \/ LogIn BY <3>2 DEF Restore, LogIn, BotTypeOK, Bots
    <3>3. CASE WrongPassword \/ StartFails BY <3>3 DEF WrongPassword, StartFails, NoBot
    <3>4. CASE SaveTears \/ SaveFills \/ UploadKeys BY <3>4 DEF SaveTears, SaveFills, UploadKeys
    <3>5. QED BY <1>1, <3>1, <3>2, <3>3, <3>4
  <2>3. QED BY <2>1, <2>2, RoomsKept, NoCallBegins
<1>2. CASE Crash
  <2>1. bot' = NoBot /\ UNCHANGED <<recorded, member, vouched>>
        /\ CallsEnd
    BY <1>2 DEF Crash, roomVars, peopleVars, NoCall, CallsEnd
  <2>2. bot'.rooms = {} /\ bot'.todo = {}
    BY <2>1 DEF NoBot
  <2>3. QED BY <2>1, <2>2, RoomsKept, NoCallBegins
<1>3. QED BY <1>1, <1>2

LEMMA SyncRooms ==
    ASSUME BotTypeOK, RoomInv, UNCHANGED recorded, Sync \/ Synced \/ SyncBreaks \/ Handles
    PROVE  RoomInv'
<1>0. bot \in Bots BY DEF BotTypeOK
<1>1. CASE Sync
  <2>1. /\ bot'.rooms = Joined /\ bot'.todo = {[room |-> r, who |-> member[r]] : r \in Unsent}
        /\ UNCHANGED <<member, vouched, call>>
    BY <1>0, <1>1 DEF Sync, Moves, Elsewhere, Bots
  <2>2. \A i \in bot'.todo : Allowed(i.who) => i.room \in vouched
    BY <2>1 DEF Unsent, RoomInv
  <2>3. QED BY <2>1, <2>2 DEF RoomInv, Allowed, Joined
<1>2. CASE Synced \/ SyncBreaks
  <2>1. bot'.rooms = bot.rooms /\ bot'.todo \subseteq bot.todo /\ UNCHANGED <<member, vouched, call>>
    BY <1>0, <1>2 DEF Synced, SyncBreaks, Moves, Elsewhere, Bots
  <2>2. QED BY <2>1, RoomsKept, NoCallBegins
<1>3. CASE Handles
  <2>1. PICK i \in Invitations : Ignore(i) \/ Join(i) \/ JoinRefused(i) BY <1>3 DEF Handles
  <2>2. Handled(i).rooms = bot.rooms /\ Handled(i).todo = bot.todo \ {i}
    BY <1>0 DEF Handled, Bots
  <2>3. CASE Ignore(i) \/ JoinRefused(i)
    <3>1. bot'.rooms = bot.rooms /\ bot'.todo \subseteq bot.todo
      BY <1>0, <2>2, <2>3 DEF Ignore, JoinRefused, Bots
    <3>2. UNCHANGED <<member, vouched, call>>
      BY <2>3 DEF Ignore, JoinRefused, Moves, Elsewhere
    <3>3. QED BY <3>1, <3>2, RoomsKept, NoCallBegins
  <2>4. CASE Join(i)
    <3>1. /\ bot' = Handled(i) /\ i \in bot.todo /\ Allowed(i.who)
          /\ member' = [member EXCEPT ![i.room] = "in"] /\ UNCHANGED <<vouched, call>>
      BY <2>4 DEF Join, Moves, Elsewhere
    <3>2. \A r \in Rooms : member'[r] = IF r = i.room THEN "in" ELSE member[r]
      BY <3>1 DEF BotTypeOK
    <3>3. i.room \in vouched BY <3>1 DEF RoomInv
    <3>4. "in" \notin Inviters BY BotAssumption
    <3>5. QED BY <2>2, <3>1, <3>2, <3>3, <3>4 DEF RoomInv, Allowed
  <2>5. QED BY <2>1, <2>3, <2>4
<1>4. QED BY <1>1, <1>2, <1>3

LEMMA CallRooms ==
    ASSUME BotTypeOK, RoomInv, UNCHANGED recorded,
           \/ \E r \in Rooms : TurnOut(r) \/ \E who \in Inviters : Invite(r, who)
           \/ \E c \in Calls : Look(c) \/ Upload(c) \/ Send(c) \/ ToolFails(c) \/ \E r \in Rooms : Use(c, r)
    PROVE  RoomInv'
<1>0. bot \in Bots /\ member \in [Rooms -> Inviters \cup {"out", "in"}] /\ "out" \notin Inviters /\ "in" \notin Inviters
  BY BotAssumption DEF BotTypeOK
<1>1. ASSUME NEW r \in Rooms, TurnOut(r) PROVE RoomInv'
  <2>1. \A s \in Rooms : member'[s] = IF s = r THEN "out" ELSE member[s]
    BY <1>0, <1>1 DEF TurnOut
  <2>2. QED BY <1>0, <1>1, <2>1 DEF TurnOut, RoomInv, Allowed
<1>2. ASSUME NEW r \in Rooms, NEW who \in Inviters, Invite(r, who) PROVE RoomInv'
  <2>1. \A s \in Rooms : member'[s] = IF s = r THEN who ELSE member[s]
    BY <1>0, <1>2 DEF Invite
  <2>2. bot'.rooms = bot.rooms /\ bot'.todo = bot.todo /\ call' = call
    BY <1>0, <1>2 DEF Invite, Bots
  <2>3. vouched \subseteq vouched' /\ (Allowed(who) => r \in vouched')
    BY <1>2 DEF Invite
  <2>4. QED BY <1>0, <2>1, <2>2, <2>3 DEF RoomInv, Allowed
<1>3. ASSUME NEW c \in Calls, Look(c) \/ Upload(c) \/ Send(c) \/ ToolFails(c) PROVE RoomInv'
  <2>1. UNCHANGED <<member, vouched, bot>>
    BY <1>3 DEF Look, Upload, Send, ToolFails, roomVars
  <2>2. CallsEnd
    <3>1. CASE Upload(c)
      <4>1. call[c].at = "upload" /\ call' = [call EXCEPT ![c] = [@ EXCEPT !.at = "send"]]
        BY <3>1 DEF Upload
      <4>2. [call[c] EXCEPT !.at = "send"].room = call[c].room
        BY DEF BotTypeOK
      <4>3. QED BY <4>1, <4>2 DEF CallsEnd, BotTypeOK
    <3>2. CASE Look(c) \/ Send(c) \/ ToolFails(c)
      BY <3>2 DEF Look, Send, ToolFails, BotTypeOK, NoCall, CallsEnd
    <3>3. QED BY <1>3, <3>1, <3>2
  <2>3. QED BY <2>1, <2>2, RoomsKept, NoCallBegins
<1>4. ASSUME NEW c \in Calls, NEW r \in Rooms, Use(c, r) PROVE RoomInv'
  <2>1. UNCHANGED <<member, vouched, bot>> /\ r \in bot.rooms
    BY <1>4 DEF Use, roomVars
  <2>2. \A d \in Calls : call'[d] = call[d] \/ call'[d].room = r
    BY <1>4 DEF Use, BotTypeOK
  <2>3. QED BY <2>1, <2>2 DEF RoomInv, Allowed
<1>5. QED BY <1>1, <1>2, <1>3, <1>4

LEMMA RecordedStays == [Next]_vars => UNCHANGED recorded
<1>1. PeopleStep => UNCHANGED recorded
  BY DEF PeopleStep, PeopleNext, HasSession, Register, SetPassword, Deactivate, Answer, PersonFails, Begin
<1>2. SetupRegisters => UNCHANGED recorded BY DEF SetupRegisters
<1>3. QED BY <1>1, <1>2, AccountSteps DEF peopleVars

LEMMA RoomStep == BotTypeOK /\ RoomInv /\ [Next]_vars => RoomInv'
<1> SUFFICES ASSUME BotTypeOK, RoomInv, [Next]_vars PROVE RoomInv'
  OBVIOUS
<1>0. UNCHANGED recorded BY RecordedStays
<1>1. CASE UNCHANGED vars
  BY <1>1 DEF vars, peopleVars, roomVars, RoomInv, Allowed
<1>2. QED
  BY <1>0, <1>1, SetupRooms, StartRooms, SyncRooms, CallRooms DEF Next, Goes, Trouble

-----------------------------------------------------------------------------
\* The token of a bot that is saving it goes on file before any of its work.
SavedInv ==
    /\ pc \in {"save", "fill"} => bot.token \in Tokens
    /\ SessionOnFile
BotInv == PeopleInv /\ BotTypeOK /\ RoomInv /\ SavedInv

LEMMA InitInv == Init => BotInv
<1> SUFFICES ASSUME Init PROVE BotInv
  OBVIOUS
<1>1. Init /\ PeopleInit
  BY DEF Init
<1>2. PeopleTypeOK /\ req = [o \in Operators |-> Idle] /\ told = [n \in Names |-> Absent]
      /\ account = [n \in Names |-> "free"]
  BY <1>1, NamesAssumption DEF PeopleInit, PeopleTypeOK
<1>3. PeopleInv
  BY <1>2, NamesAssumption DEF PeopleInv, Idle, Drawn, Spares, Stored, ProtectedStay, SharedPasswordWorks
<1>4. BotTypeOK
  BY <1>1, NoBotTyped, NoCallTyped, BotAssumption DEF Init, BotTypeOK
<1>5. RoomInv
  BY <1>1, BotAssumption DEF Init, RoomInv, NoBot, NoCall
<1>6. SavedInv
  BY <1>1 DEF Init, SavedInv, SessionOnFile
<1>7. QED BY <1>3, <1>4, <1>5, <1>6 DEF BotInv

\* The people page does the same to the session on file and to the one in use; the bot's
\* own steps bring its token and the file together before it uploads its keys.
LEMMA SavedStep == BotTypeOK /\ SavedInv /\ [Next]_vars => SavedInv'
<1> SUFFICES ASSUME BotTypeOK, SavedInv, [Next]_vars PROVE SavedInv'
  OBVIOUS
<1>0. bot \in Bots
  BY DEF BotTypeOK
<1>1. CASE SetupStep
  BY <1>1 DEF SetupStep, SetupRegisters, SetupTears, SetupFills, SetupEnds, SavedInv, SessionOnFile
<1>2. CASE PeopleStep
  <2> DEFINE over == account'[Bot] # account[Bot]
  <2>1. /\ pc' = pc
        /\ session' = IF over THEN Dead(session) ELSE session
        /\ bot' = IF over THEN [bot EXCEPT !.token = Dead(@)] ELSE bot
    BY <1>2 DEF PeopleStep
  <2>2. bot'.token = IF over THEN Dead(bot.token) ELSE bot.token
    BY <1>0, <2>1 DEF Bots
  <2>3. \A t \in Tokens : Dead(t) \in Tokens
    BY DEF Dead, Tokens
  <2> HIDE DEF over
  <2>4. QED BY <2>1, <2>2, <2>3 DEF SavedInv, SessionOnFile
<1>3. CASE Goes
  <2>1. CASE Poll BY <2>1 DEF Poll, Moves, SavedInv, SessionOnFile
  <2>2. CASE Restore
    BY <1>0, <2>2 DEF Restore, Moves, Bots, SavedInv, SessionOnFile
  <2>3. CASE LogIn
    BY <1>0, <2>3 DEF LogIn, Moves, Bots, Tokens, SavedInv, SessionOnFile
  <2>4. CASE WrongPassword BY <2>4 DEF WrongPassword, Moves, SavedInv, SessionOnFile
  <2>5. CASE SaveTears BY <2>5 DEF SaveTears, Moves, SavedInv, SessionOnFile
  <2>6. CASE SaveFills BY <2>6 DEF SaveFills, Moves, SavedInv, SessionOnFile
  <2>7. CASE UploadKeys BY <2>7 DEF UploadKeys, Moves, SavedInv, SessionOnFile
  <2>8. CASE Sync \/ Synced
    <3>1. bot'.token = bot.token BY <1>0, <2>8 DEF Sync, Synced, Bots
    <3>2. QED BY <2>8, <3>1 DEF Sync, Synced, Moves, SavedInv, SessionOnFile
  <2>9. QED BY <1>3, <2>1, <2>2, <2>3, <2>4, <2>5, <2>6, <2>7, <2>8 DEF Goes
<1>4. CASE Handles \/ SyncBreaks
  <2>1. session' = session /\ pc' \in {pc, "sync"} /\ pc = "invites"
    BY <1>4 DEF Handles, Ignore, Join, JoinRefused, SyncBreaks, Moves
  <2>2. bot'.token = bot.token
    BY <1>0, <1>4 DEF Handles, Ignore, Join, JoinRefused, SyncBreaks, Handled, Bots
  <2>3. QED BY <2>1, <2>2 DEF SavedInv, SessionOnFile
<1>5. CASE StartFails \/ Crash
  BY <1>5 DEF StartFails, Crash, Moves, SavedInv, SessionOnFile
<1>6. CASE \E r \in Rooms : TurnOut(r) \/ \E who \in Inviters : Invite(r, who)
  <2>1. session' = session /\ pc' = pc
    BY <1>6 DEF TurnOut, Invite
  <2>2. bot'.token = bot.token
    BY <1>0, <1>6 DEF TurnOut, Invite, Bots
  <2>3. QED BY <2>1, <2>2 DEF SavedInv, SessionOnFile
<1>7. CASE \E c \in Calls : Look(c) \/ Upload(c) \/ Send(c) \/ ToolFails(c) \/ \E r \in Rooms : Use(c, r)
  BY <1>7 DEF Look, Upload, Send, ToolFails, Use, SavedInv, SessionOnFile
<1>8. CASE UNCHANGED vars
  BY <1>8 DEF vars, SavedInv, SessionOnFile
<1>9. QED BY <1>1, <1>2, <1>3, <1>4, <1>5, <1>6, <1>7, <1>8 DEF Next, Trouble

THEOREM BotInvariant == Spec => []BotInv
<1>1. BotInv /\ [Next]_vars => BotInv'
  BY AccountInv, BotTypes, RoomStep, SavedStep DEF BotInv, BotTypeOK
<1>2. QED BY InitInv, <1>1, PTL DEF Spec

\* Every variable stays in its domain.
THEOREM TypeCorrect == Spec => []TypeOK
<1>1. BotInv => TypeOK BY TypeParts DEF BotInv, PeopleInv
<1>2. QED BY <1>1, BotInvariant, PTL

\* "Both paths refuse to deactivate the original admin user or the MCP bot"
\* (docs/phone-setup.md:124), for an id recorded as Synapse gave it: from the page and
\* the shell, the name typed bare or in full, whoever else is at it.
THEOREM ProtectedForEver == Spec => []ProtectedStay
<1>1. BotInv => ProtectedStay BY DEF BotInv, PeopleInv
<1>2. QED BY <1>1, BotInvariant, PTL

\* The page to share shows the password that Synapse has, unless the name was taken, an
\* answer was lost, or requests for one person overlapped.
THEOREM SharedWorks == Spec => []SharedPasswordWorks
<1>1. BotInv => SharedPasswordWorks BY DEF BotInv, PeopleInv
<1>2. QED BY <1>1, BotInvariant, PTL

\* _invite_is_allowed keeps the bot, and what the tools post, to rooms that somebody
\* allowed has invited it to.
THEOREM InvitedOnly == Spec => []OnlyWhereInvited
<1>1. BotInv => OnlyWhereInvited
  BY DEF BotInv, RoomInv, OnlyWhereInvited, Joined, Posting
<1>2. QED BY <1>1, BotInvariant, PTL

\* From its key upload on the bot runs on the session that is on file, so the next start
\* brings back the same device, whatever starts failed and whoever reset its account.
THEOREM RunsOnSavedSession == Spec => []SessionOnFile
<1>1. BotInv => SessionOnFile BY DEF BotInv, SavedInv
<1>2. QED BY <1>1, BotInvariant, PTL
=============================================================================
