---------------------------- MODULE SetupProofs ----------------------------
(***************************************************************************)
(* Theorems about Setup for every set of requests, users, passwords and    *)
(* keys.  Each part of SetupInv is shown to be preserved by every step in  *)
(* a lemma of its own; the theorems combine them.                          *)
(***************************************************************************)
EXTENDS Setup, TLAPS

\* What the lemmas below need to know of the two histories.
HistoryKept == met' \in BOOLEAN /\ contested' \in SUBSET Names /\ contested \subseteq contested'

\* Turning the calls of departed requests into orphans keeps them well typed.
LEMMA OrphanedType ==
    ASSUME NEW calls \in SUBSET Registration, NEW callers
    PROVE  Orphaned(calls, callers) \in SUBSET Registration
<1>1. ASSUME NEW m \in Registration PROVE [m EXCEPT !.req = Absent] \in Registration
  BY <1>1 DEF Registration
<1>2. QED BY <1>1 DEF Orphaned

\* Calls that still have a caller after a departure were there before it, and
\* belong to other requests.
LEMMA OrphanedCallers ==
    ASSUME NEW calls \in SUBSET Registration, NEW callers,
           NEW m \in Orphaned(calls, callers), m.req # Absent
    PROVE  m \in calls /\ m.req \notin callers
<1>1. PICK n \in calls :
        m = IF n.req \in callers THEN [n EXCEPT !.req = Absent] ELSE n
  BY DEF Orphaned
<1>2. CASE n.req \in callers
  <2>1. [n EXCEPT !.req = Absent].req = Absent BY DEF Registration
  <2>2. QED BY <1>1, <1>2, <2>1
<1>3. CASE n.req \notin callers BY <1>1, <1>3
<1>4. QED BY <1>2, <1>3

\* What AdminRegistered does to the calls in flight and the local variables.
LEMMA AdminStep ==
    ASSUME TypeOK, LocalsInv, NEW r \in Requests, AdminRegistered(r)
    PROVE  \E b \in BotPasswords :
             /\ inbox' = inbox \cup {[req |-> r, name |-> Bot, pw |-> b, admin |-> FALSE]}
             /\ work' \in [Requests -> Work \cup {Absent}]
             /\ work'[r] \in Work
             /\ work'[r].botPw = b /\ work'[r].made = (reply[r] = "created")
             /\ work'[r].user = work[r].user /\ work'[r].pw = work[r].pw
             /\ \A q \in Requests : q # r => work'[q] = work[q]
<1>1. work[r] \in Work /\ work \in [Requests -> Work \cup {Absent}]
  BY DEF AdminRegistered, LocalsInv, TypeOK
<1>2. PICK b \in BotPasswords :
        /\ work' = [work EXCEPT ![r] = [@ EXCEPT !.made = (reply[r] = "created"), !.botPw = b]]
        /\ inbox' = inbox \cup {[req |-> r, name |-> Bot, pw |-> b, admin |-> FALSE]}
  BY DEF AdminRegistered
<1>3. (reply[r] = "created") \in BOOLEAN OBVIOUS
<1> DEFINE v == [work[r] EXCEPT !.made = (reply[r] = "created"), !.botPw = b]
<1>4. /\ v \in Work /\ v.botPw = b /\ v.made = (reply[r] = "created")
      /\ v.user = work[r].user /\ v.pw = work[r].pw
  BY <1>1, <1>3 DEF Work
<1>5. work' = [work EXCEPT ![r] = v] BY <1>2
<1> HIDE DEF v
<1>6. work'[r] = v BY <1>1, <1>5
<1>7. QED BY <1>1, <1>2, <1>4, <1>5, <1>6

\* Type correctness is preserved, given what the requests have computed.
LEMMA TypeStep == TypeOK /\ LocalsInv /\ [Next]_vars /\ HistoryKept => TypeOK'
<1> SUFFICES ASSUME TypeOK, LocalsInv, [Next]_vars, HistoryKept PROVE TypeOK'
  OBVIOUS
<1> USE DEF TypeOK, HistoryKept, Awaiting, Committing
<1>1. CASE PublishOnion BY <1>1 DEF PublishOnion, files, synapse
<1>2. CASE WizardStart BY <1>2 DEF WizardStart, synapse, Complete
<1>3. CASE WizardCrash BY <1>3, OrphanedType DEF WizardCrash, files
<1>4. ASSUME NEW m \in inbox, SynapseRegister(m) PROVE TypeOK'
  <2>1. m \in Registration BY <1>4
  <2>2. accounts' \in [Names -> Account \cup {Absent}]
    BY <1>4, <2>1 DEF SynapseRegister, Registration, Account
  <2>3. reply' \in [Requests -> {Absent, "created", "taken"}]
    BY <1>4, <2>1 DEF SynapseRegister, Registration
  <2>4. QED BY <1>4, <2>2, <2>3 DEF SynapseRegister, files
<1>5. ASSUME NEW m \in inbox, SynapseDrop(m) PROVE TypeOK'
  BY <1>5 DEF SynapseDrop, files
<1>6. ASSUME NEW r \in Requests, NEW f \in Form, Submit(r, f) PROVE TypeOK'
  <2>1. [req |-> r, name |-> f.user, pw |-> f.pw, admin |-> TRUE] \in Registration
    BY DEF Registration, Form, Names, Secrets
  <2>2. [user |-> f.user, pw |-> f.pw, made |-> FALSE, botMade |-> FALSE,
         botPw |-> Absent, key |-> Absent] \in Work
    BY DEF Work, Form
  <2>3. QED BY <1>6, <2>1, <2>2 DEF Submit, Admits, files
<1>7. ASSUME NEW r \in Requests, AdminRegistered(r) PROVE TypeOK'
  <2>1. PICK b \in BotPasswords :
          /\ inbox' = inbox \cup {[req |-> r, name |-> Bot, pw |-> b, admin |-> FALSE]}
          /\ work' \in [Requests -> Work \cup {Absent}]
    BY <1>7, AdminStep
  <2>2. [req |-> r, name |-> Bot, pw |-> b, admin |-> FALSE] \in Registration
    BY DEF Registration, Names, Secrets
  <2>3. QED BY <1>7, <2>1, <2>2 DEF AdminRegistered, files
<1>8. ASSUME NEW r \in Requests, BotRegistered(r) PROVE TypeOK'
  <2>1. work[r] \in Work BY <1>8 DEF BotRegistered, LocalsInv
  <2>2. work' \in [Requests -> Work \cup {Absent}]
    BY <1>8, <2>1 DEF BotRegistered, Work
  <2>3. QED BY <1>8, <2>2 DEF BotRegistered, files, synapse
<1>9. ASSUME NEW r \in Requests, RegistrationFails(r) PROVE TypeOK'
  BY <1>9, OrphanedType DEF RegistrationFails, files
<1>10. ASSUME NEW r \in Requests, Commit(r) PROVE TypeOK'
  <2> USE DEF Goto, synapse
  <2>1. pc[r] # "idle" /\ work[r] \in Work
    BY <1>10 DEF Commit, TearCreds, FillCreds, TearHash, FillHash, TearSentinel,
                 FillSentinel, RetireToken, LocalsInv
  <2>2. CASE TearCreds(r) BY <2>2 DEF TearCreds
  <2>3. CASE FillCreds(r)
    <3>1. creds' \in Credentials
      BY <2>1, <2>3 DEF FillCreds, Credentials, LocalsInv, Work
    <3>2. QED BY <2>3, <3>1 DEF FillCreds
  <2>4. CASE TearHash(r)
    <3>1. work' \in [Requests -> Work \cup {Absent}]
      BY <2>1, <2>4 DEF TearHash, Work
    <3>2. QED BY <2>4, <3>1 DEF TearHash
  <2>5. CASE FillHash(r) BY <2>5 DEF FillHash, LocalsInv, HasHash
  <2>6. CASE TearSentinel(r) BY <2>6 DEF TearSentinel
  <2>7. CASE FillSentinel(r)
    <3>1. sentinel' \in Summary
      BY <2>1, <2>7 DEF FillSentinel, Summary, LocalsInv, Work, HasHash
    <3>2. QED BY <2>7, <3>1 DEF FillSentinel
  <2>8. CASE RetireToken(r) BY <2>8 DEF RetireToken, Release
  <2>9. QED BY <1>10, <2>2, <2>3, <2>4, <2>5, <2>6, <2>7, <2>8 DEF Commit
<1>11. ASSUME NEW r \in Requests, WriteFails(r) PROVE TypeOK'
  BY <1>11 DEF WriteFails, Release, files, synapse
<1>12. CASE UNCHANGED vars BY <1>12 DEF vars
<1>13. QED
  BY <1>1, <1>2, <1>3, <1>4, <1>5, <1>6, <1>7, <1>8, <1>9, <1>10, <1>11, <1>12 DEF Next

\* So are the facts about each request's local variables and the event loop.
LEMMA LocalsStep == TypeOK /\ LocalsInv /\ [Next]_vars => LocalsInv'
<1> SUFFICES ASSUME TypeOK, LocalsInv, [Next]_vars, NEW q \in Requests
             PROVE  LocalsInv!(q)'
  BY DEF LocalsInv
<1> USE SentinelAssumption DEF TypeOK, LocalsInv, Awaiting, Committing, HasHash
<1>1. CASE PublishOnion BY <1>1 DEF PublishOnion
<1>2. CASE WizardStart BY <1>2 DEF WizardStart
<1>3. CASE WizardCrash BY <1>3 DEF WizardCrash
<1>4. ASSUME NEW m \in inbox, SynapseRegister(m) PROVE LocalsInv!(q)'
  BY <1>4 DEF SynapseRegister
<1>5. ASSUME NEW m \in inbox, SynapseDrop(m) PROVE LocalsInv!(q)'
  BY <1>5 DEF SynapseDrop
<1>6. ASSUME NEW r \in Requests, NEW f \in Form, Submit(r, f) PROVE LocalsInv!(q)'
  <2>1. [user |-> f.user, pw |-> f.pw, made |-> FALSE, botMade |-> FALSE,
         botPw |-> Absent, key |-> Absent] \in Work
    BY DEF Work, Form
  <2>2. QED BY <1>6, <2>1 DEF Submit, Admits
<1>7. ASSUME NEW r \in Requests, AdminRegistered(r) PROVE LocalsInv!(q)'
  <2>1. /\ work'[r] \in Work /\ work'[r].botPw \in BotPasswords
        /\ q # r => work'[q] = work[q]
    BY <1>7, AdminStep
  <2>2. QED BY <1>7, <2>1 DEF AdminRegistered
<1>8. ASSUME NEW r \in Requests, BotRegistered(r) PROVE LocalsInv!(q)'
  <2>1. r # Absent /\ pc[r] = "bot" /\ work[r] \in Work /\ work[r].botPw \in BotPasswords
    BY <1>8 DEF BotRegistered
  <2>2. work' = [work EXCEPT ![r].botMade = (reply[r] = "created")]
    BY <1>8 DEF BotRegistered
  <2>3. /\ [work[r] EXCEPT !.botMade = (reply[r] = "created")] \in Work
        /\ [work[r] EXCEPT !.botMade = (reply[r] = "created")].botPw = work[r].botPw
    BY <2>1 DEF Work
  <2>4. /\ work'[r] \in Work /\ work'[r].botPw \in BotPasswords
        /\ q # r => work'[q] = work[q]
    BY <2>1, <2>2, <2>3
  <2>5. QED BY <1>8, <2>4 DEF BotRegistered
<1>9. ASSUME NEW r \in Requests, RegistrationFails(r) PROVE LocalsInv!(q)'
  BY <1>9 DEF RegistrationFails
<1>10. ASSUME NEW r \in Requests, Commit(r) PROVE LocalsInv!(q)'
  <2> USE DEF Goto, synapse
  <2>1. CASE TearCreds(r) BY <2>1 DEF TearCreds
  <2>2. CASE FillCreds(r) BY <2>2 DEF FillCreds
  <2>3. CASE TearHash(r) BY <2>3 DEF TearHash, Work
  <2>4. CASE FillHash(r) BY <2>4 DEF FillHash
  <2>5. CASE TearSentinel(r) BY <2>5 DEF TearSentinel
  <2>6. CASE FillSentinel(r) BY <2>6 DEF FillSentinel
  <2>7. CASE RetireToken(r) BY <2>7 DEF RetireToken, Release
  <2>8. QED BY <1>10, <2>1, <2>2, <2>3, <2>4, <2>5, <2>6, <2>7 DEF Commit
<1>11. ASSUME NEW r \in Requests, WriteFails(r) PROVE LocalsInv!(q)'
  BY <1>11 DEF WriteFails, Release
<1>12. CASE UNCHANGED vars BY <1>12 DEF vars
<1>13. QED
  BY <1>1, <1>2, <1>3, <1>4, <1>5, <1>6, <1>7, <1>8, <1>9, <1>10, <1>11, <1>12 DEF Next

\* Accounts are never changed nor removed ...
LEMMA AccountStays ==
    ASSUME TypeOK, [Next]_vars, NEW n \in Names, accounts[n] # Absent
    PROVE  accounts'[n] = accounts[n]
<1>1. ASSUME NEW m \in inbox, SynapseRegister(m) PROVE accounts'[n] = accounts[n]
  BY <1>1 DEF SynapseRegister, TypeOK
<1>2. ASSUME NEW m \in inbox, SynapseDrop(m) PROVE accounts'[n] = accounts[n]
  BY <1>2 DEF SynapseDrop
<1>3. ASSUME NEW r \in Requests,
             \/ \E f \in Form : Submit(r, f)
             \/ AdminRegistered(r) \/ BotRegistered(r) \/ RegistrationFails(r)
             \/ Commit(r) \/ WriteFails(r)
      PROVE  accounts' = accounts
  BY <1>3 DEF Submit, Admits, AdminRegistered, BotRegistered, RegistrationFails, WriteFails,
              Commit, TearCreds, FillCreds, TearHash, FillHash, TearSentinel,
              FillSentinel, RetireToken, synapse
<1>4. CASE PublishOnion \/ WizardStart \/ WizardCrash \/ UNCHANGED vars
  BY <1>4 DEF PublishOnion, WizardStart, WizardCrash, synapse, vars
<1>5. QED BY <1>1, <1>2, <1>3, <1>4 DEF Next

\* ... and a contested name stays one, so what backs a name keeps backing it.
LEMMA BackedStays ==
    ASSUME TypeOK, [Next]_vars, HistoryKept,
           NEW n \in Names, NEW pw, NEW made, Backed(n, pw, made)
    PROVE  Backed(n, pw, made)'
<1>1. accounts'[n] = accounts[n] BY AccountStays DEF Backed
<1>2. QED BY <1>1 DEF Backed, HistoryKept

\* Every call in flight stays the one its caller awaits.
LEMMA CallsStep == TypeOK /\ LocalsInv /\ CallsInv /\ [Next]_vars => CallsInv'
<1> SUFFICES ASSUME TypeOK, LocalsInv, CallsInv, [Next]_vars PROVE CallsInv'
  OBVIOUS
<1> USE SentinelAssumption DEF TypeOK, CallsInv, Awaiting, Committing
<1>1. CASE PublishOnion BY <1>1 DEF PublishOnion, synapse
<1>2. CASE WizardStart BY <1>2 DEF WizardStart, synapse
<1>3. CASE WizardCrash
  <2>1. \A m \in inbox' : m.req = Absent
    <3>1. inbox \in SUBSET Registration BY DEF TypeOK
    <3>2. inbox' = Orphaned(inbox, Requests) BY <1>3 DEF WizardCrash
    <3>3. SUFFICES ASSUME NEW m \in inbox', m.req # Absent PROVE FALSE OBVIOUS
    <3>4. m \in inbox /\ m.req \notin Requests
      BY <3>1, <3>2, <3>3, OrphanedCallers
    <3>5. m \in Registration BY <3>1, <3>4
    <3>6. QED BY <3>3, <3>4, <3>5 DEF Registration
  <2>2. QED BY <1>3, <2>1 DEF WizardCrash
<1>4. ASSUME NEW m \in inbox, SynapseRegister(m) PROVE CallsInv'
  <2>1. m \in Registration BY <1>4
  <2>2. CASE m.req = Absent BY <1>4, <2>2 DEF SynapseRegister
  <2>3. CASE m.req \in Requests
    <3>1. \A n \in inbox' : n \in inbox /\ n.req # m.req
      BY <1>4, <2>3 DEF SynapseRegister
    <3>2. pc[m.req] \in Awaiting BY <2>3
    <3>3. \A q \in Requests : q # m.req => reply'[q] = reply[q]
      BY <1>4, <2>3 DEF SynapseRegister
    <3>4. QED BY <1>4, <2>3, <3>1, <3>2, <3>3 DEF SynapseRegister, Registration
  <2>4. QED BY <2>1, <2>2, <2>3 DEF Registration
<1>5. ASSUME NEW m \in inbox, SynapseDrop(m) PROVE CallsInv'
  BY <1>5 DEF SynapseDrop
<1>6. ASSUME NEW r \in Requests, NEW f \in Form, Submit(r, f) PROVE CallsInv'
  <2> DEFINE call == [req |-> r, name |-> f.user, pw |-> f.pw, admin |-> TRUE]
  <2>1. \A m \in inbox : m.req # r BY <1>6 DEF Submit, Admits
  <2>2. reply[r] = Absent BY <1>6 DEF Submit, Admits
  <2>3. inbox' = inbox \cup {call} /\ reply' = reply BY <1>6 DEF Submit, Admits
  <2>4. pc' = [pc EXCEPT ![r] = "admin"] BY <1>6 DEF Submit, Admits
  <2>5. work'[r].user = f.user /\ work'[r].pw = f.pw BY <1>6 DEF Submit, Admits
  <2>6. \A q \in Requests : q # r => work'[q] = work[q] BY <1>6 DEF Submit, Admits
  <2>7. call.req = r /\ call.name = f.user /\ call.pw = f.pw OBVIOUS
  <2> HIDE DEF call
  <2>8. CallsInv!1' BY <2>2, <2>3, <2>4
  <2>9. CallsInv!2' BY <2>1, <2>2, <2>3, <2>4, <2>5, <2>6, <2>7 DEF Registration
  <2>10. CallsInv!3' BY <2>1, <2>3, <2>7
  <2>11. QED BY <2>8, <2>9, <2>10
<1>7. ASSUME NEW r \in Requests, AdminRegistered(r) PROVE CallsInv'
  <2>1. PICK b \in BotPasswords :
          /\ inbox' = inbox \cup {[req |-> r, name |-> Bot, pw |-> b, admin |-> FALSE]}
          /\ work'[r].botPw = b
          /\ \A q \in Requests : q # r => work'[q] = work[q]
    BY <1>7, AdminStep
  <2> DEFINE call == [req |-> r, name |-> Bot, pw |-> b, admin |-> FALSE]
  <2>2. \A m \in inbox : m.req # r BY <1>7 DEF AdminRegistered
  <2>3. reply' = [reply EXCEPT ![r] = Absent] /\ pc' = [pc EXCEPT ![r] = "bot"]
    BY <1>7 DEF AdminRegistered
  <2>4. call.req = r /\ call.name = Bot /\ call.pw = b OBVIOUS
  <2> HIDE DEF call
  <2>5. inbox' = inbox \cup {call} BY <2>1 DEF call
  <2>6. CallsInv!1' BY <2>3
  <2>7. CallsInv!2' BY <2>1, <2>2, <2>3, <2>4, <2>5 DEF Registration
  <2>8. CallsInv!3' BY <2>2, <2>4, <2>5
  <2>9. QED BY <2>6, <2>7, <2>8
<1>8. ASSUME NEW r \in Requests, BotRegistered(r) PROVE CallsInv'
  <2>1. \A m \in inbox : m.req # r BY <1>8 DEF BotRegistered
  <2>2. \A q \in Requests : q # r => work'[q] = work[q] BY <1>8 DEF BotRegistered
  <2>3. QED BY <1>8, <2>1, <2>2 DEF BotRegistered, synapse, Registration
<1>9. ASSUME NEW r \in Requests, RegistrationFails(r) PROVE CallsInv'
  <2>1. \A m \in inbox' : m.req # Absent => m \in inbox /\ m.req # r
    BY <1>9, OrphanedCallers DEF RegistrationFails
  <2>2. \A q \in Requests : q # r => work'[q] = work[q] BY <1>9 DEF RegistrationFails
  <2>3. CallsInv!1' BY <1>9 DEF RegistrationFails
  <2>4. CallsInv!2'
    <3>1. \A q \in Requests : q # r => pc'[q] = pc[q] /\ reply'[q] = reply[q]
      BY <1>9 DEF RegistrationFails
    <3>2. \A m \in inbox : m.req \in Requests \cup {Absent} BY DEF Registration
    <3>3. QED BY <2>1, <2>2, <3>1, <3>2
  <2>5. CallsInv!3' BY <2>1
  <2>6. QED BY <2>3, <2>4, <2>5
<1>10. ASSUME NEW r \in Requests, Commit(r) \/ WriteFails(r) PROVE CallsInv'
  <2>1. pc[r] \in Committing /\ inbox' = inbox /\ reply' = reply
    BY <1>10 DEF Commit, TearCreds, FillCreds, TearHash, FillHash, TearSentinel,
                 FillSentinel, RetireToken, WriteFails, Goto, synapse
  <2>2. \A q \in Requests : q # r => work'[q] = work[q] /\ pc'[q] = pc[q]
    BY <1>10 DEF Commit, TearCreds, FillCreds, TearHash, FillHash, TearSentinel,
                 FillSentinel, RetireToken, WriteFails, Release, Goto
  <2>3. \A m \in inbox : m.req # r BY <2>1
  <2>4. QED BY <2>1, <2>2, <2>3 DEF Registration
<1>11. CASE UNCHANGED vars BY <1>11 DEF vars
<1>12. QED
  BY <1>1, <1>2, <1>3, <1>4, <1>5, <1>6, <1>7, <1>8, <1>9, <1>10, <1>11 DEF Next

\* What a committing request has written stays until it has finished: only it
\* holds the event loop.
LEMMA FilesStep == TypeOK /\ LocalsInv /\ FilesInv /\ [Next]_vars => FilesInv'
<1> SUFFICES ASSUME TypeOK, LocalsInv, FilesInv, [Next]_vars, NEW q \in Requests
             PROVE  FilesInv!(q)'
  BY DEF FilesInv
<1> USE DEF FilesInv, HasHash, HasCreds, files
<1>0. work \in [Requests -> Work \cup {Absent}] BY DEF TypeOK
<1>1. pc \in [Requests -> {"idle"} \cup Awaiting \cup Committing]
  BY DEF TypeOK
<1>2. CASE PublishOnion BY <1>2 DEF PublishOnion
<1>3. CASE WizardStart BY <1>3 DEF WizardStart
<1>4. CASE WizardCrash BY <1>4 DEF WizardCrash
<1>5. ASSUME NEW m \in inbox, SynapseRegister(m) \/ SynapseDrop(m) PROVE FilesInv!(q)'
  BY <1>5 DEF SynapseRegister, SynapseDrop
<1>6. ASSUME NEW r \in Requests,
             \/ \E f \in Form : Submit(r, f)
             \/ AdminRegistered(r) \/ BotRegistered(r) \/ RegistrationFails(r)
      PROVE  FilesInv!(q)'
  <2>1. UNCHANGED <<creds, hash, sentinel>>
    BY <1>6 DEF Submit, Admits, AdminRegistered, BotRegistered, RegistrationFails
  <2>2. pc'[r] \notin HasCreds /\ \A p \in Requests : p # r => pc'[p] = pc[p]
    BY <1>1, <1>6 DEF Submit, Admits, AdminRegistered, BotRegistered, RegistrationFails
  <2>3. q # r => work'[q] = work[q]
    <3>1. CASE AdminRegistered(r) BY <3>1, AdminStep
    <3>2. CASE (\E f \in Form : Submit(r, f)) \/ BotRegistered(r) \/ RegistrationFails(r)
      BY <1>0, <3>2 DEF Submit, Admits, BotRegistered, RegistrationFails
    <3>3. QED BY <1>6, <3>1, <3>2
  <2>4. QED BY <2>1, <2>2, <2>3
<1>7. ASSUME NEW r \in Requests, Commit(r) PROVE FilesInv!(q)'
  <2>1. pc[r] \in Committing
    BY <1>7 DEF Commit, TearCreds, FillCreds, TearHash, FillHash, TearSentinel,
                FillSentinel, RetireToken, Goto, Committing
  <2>2. CASE q # r
    <3>1. pc[q] \notin Committing BY <2>1, <2>2 DEF LocalsInv
    <3>2. pc'[q] = pc[q]
      BY <1>1, <1>7, <2>2 DEF Commit, TearCreds, FillCreds, TearHash, FillHash,
                TearSentinel, FillSentinel, RetireToken, Goto
    <3>3. QED BY <3>1, <3>2 DEF Committing
  <2>3. CASE q = r
    <3> USE <2>3 DEF Goto
    <3>1. CASE TearCreds(r) BY <1>1, <3>1 DEF TearCreds
    <3>2. CASE FillCreds(r)
      <4>1. creds' \in Credentials
        BY <3>2 DEF FillCreds, Credentials, LocalsInv, Work, Committing
      <4>2. QED BY <1>1, <3>2, <4>1 DEF FillCreds
    <3>3. CASE TearHash(r) BY <1>1, <3>3 DEF TearHash
    <3>4. CASE FillHash(r) BY <1>1, <3>4 DEF FillHash
    <3>5. CASE TearSentinel(r) BY <1>1, <3>5 DEF TearSentinel
    <3>6. CASE FillSentinel(r)
      <4>1. sentinel' \in Summary
        BY <3>6 DEF FillSentinel, Summary, LocalsInv, Work, Committing
      <4>2. QED BY <1>1, <3>6, <4>1 DEF FillSentinel
    <3>7. CASE RetireToken(r) BY <1>1, <3>7 DEF RetireToken
    <3>8. QED BY <1>7, <3>1, <3>2, <3>3, <3>4, <3>5, <3>6, <3>7 DEF Commit
  <2>4. QED BY <2>2, <2>3
<1>8. ASSUME NEW r \in Requests, WriteFails(r) PROVE FilesInv!(q)'
  BY <1>1, <1>8 DEF WriteFails, Release
<1>9. CASE UNCHANGED vars BY <1>9 DEF vars
<1>10. QED
  BY <1>2, <1>3, <1>4, <1>5, <1>6, <1>7, <1>8, <1>9 DEF Next

\* Synapse's answer to a call leaves the account of that call backed as the
\* answer says.
LEMMA Answered ==
    ASSUME TypeOK, CallsInv, ContestedInv, HistoryKept,
           NEW m \in inbox, m.req # Absent, SynapseRegister(m)
    PROVE  /\ reply'[m.req] \in {"created", "taken"}
           /\ Backed(m.name, m.pw, reply[m.req] = "created")'
<1>1. m \in Registration /\ m.req \in Requests /\ m.name \in Names
  BY DEF TypeOK, Registration
<1>2. reply'[m.req] = IF accounts[m.name] = Absent THEN "created" ELSE "taken"
  BY <1>1 DEF SynapseRegister, TypeOK
<1>3. CASE accounts[m.name] = Absent
  <2>1. accounts'[m.name] = [pw |-> m.pw, admin |-> m.admin]
    BY <1>1, <1>3 DEF SynapseRegister, TypeOK
  <2>2. [pw |-> m.pw, admin |-> m.admin] \in Account
    BY <1>1 DEF Registration, Account
  <2>3. accounts'[m.name] # Absent /\ accounts'[m.name].pw = m.pw
    BY <2>1, <2>2, SentinelAssumption
  <2>4. QED BY <1>2, <1>3, <2>3 DEF Backed
<1>4. CASE accounts[m.name] # Absent
  <2>1. accounts' = accounts BY <1>4 DEF SynapseRegister
  <2>2. accounts[m.name].pw \in AtStake(m.name) /\ m.pw \in AtStake(m.name)
    BY <1>4 DEF AtStake
  <2>3. accounts[m.name].pw # m.pw => m.name \in contested
    BY <1>1, <2>2 DEF ContestedInv
  <2>4. QED BY <1>2, <1>4, <2>1, <2>3 DEF Backed, HistoryKept
<1>5. QED BY <1>3, <1>4

\* What Synapse holds stays behind each request's progress.
LEMMA AccountsStep ==
    TypeOK /\ LocalsInv /\ CallsInv /\ AccountsInv /\ ContestedInv /\ [Next]_vars /\ HistoryKept
      => AccountsInv'
<1> SUFFICES ASSUME TypeOK, LocalsInv, CallsInv, AccountsInv, ContestedInv, [Next]_vars,
                    HistoryKept,
                    NEW q \in Requests
             PROVE  AccountsInv!(q)'
  BY DEF AccountsInv
<1>1. /\ pc \in [Requests -> {"idle"} \cup Awaiting \cup Committing]
      /\ work \in [Requests -> Work \cup {Absent}]
      /\ reply \in [Requests -> {Absent, "created", "taken"}]
  BY DEF TypeOK
<1>2. pc[q] # "idle" => work[q] \in Work /\ work[q].user \in Names
  BY DEF LocalsInv, Work, Names
<1>3. Bot \in Names BY DEF Names
\* A step that leaves request q and the answer it has alone keeps its backing.
<1>4. ASSUME pc'[q] = pc[q], work'[q] = work[q], reply'[q] = reply[q]
      PROVE  AccountsInv!(q)'
  BY <1>2, <1>3, <1>4, BackedStays DEF AccountsInv, Awaiting, Committing
<1>5. CASE PublishOnion \/ WizardStart \/ UNCHANGED vars
  BY <1>4, <1>5 DEF PublishOnion, WizardStart, vars
<1>6. CASE WizardCrash BY <1>6 DEF WizardCrash, Committing
<1>7. ASSUME NEW m \in inbox, SynapseDrop(m) PROVE AccountsInv!(q)'
  BY <1>4, <1>7 DEF SynapseDrop
<1>8. ASSUME NEW m \in inbox, SynapseRegister(m) PROVE AccountsInv!(q)'
  <2>1. pc' = pc /\ work' = work BY <1>8 DEF SynapseRegister
  <2>2. CASE m.req = q
    <3>1. q # Absent BY SentinelAssumption
    <3>2. Backed(m.name, m.pw, reply[q] = "created")' BY <1>8, <2>2, <3>1, Answered
    <3>3. CASE pc[q] = "admin"
      <4>1. m.name = work[q].user /\ m.pw = work[q].pw
        BY <2>2, <3>1, <3>3 DEF CallsInv
      <4>2. Backed(work[q].user, work[q].pw, reply[q] = "created")'
        BY <2>1, <3>2, <4>1
      <4>3. QED BY <2>1, <3>3, <4>2 DEF Committing
    <3>4. CASE pc[q] = "bot"
      <4>1. m.name = Bot /\ m.pw = work[q].botPw
        BY <2>2, <3>1, <3>4 DEF CallsInv
      <4>2. Backed(work[q].user, work[q].pw, work[q].made)
        BY <3>4 DEF AccountsInv
      <4>3. Backed(work[q].user, work[q].pw, work[q].made)'
        BY <1>2, <3>4, <4>2, <2>1, BackedStays
      <4>4. Backed(Bot, work[q].botPw, reply[q] = "created")'
        BY <2>1, <3>2, <4>1
      <4>5. QED BY <2>1, <3>4, <4>3, <4>4 DEF Committing
    <3>5. QED BY <2>2, <3>1, <3>3, <3>4 DEF CallsInv
  <2>3. CASE m.req # q
    <3>1. reply'[q] = reply[q] BY <1>1, <1>8, <2>3 DEF SynapseRegister
    <3>2. QED BY <1>4, <2>1, <3>1
  <2>4. QED BY <2>2, <2>3
<1>9. ASSUME NEW r \in Requests, NEW f \in Form, Submit(r, f) PROVE AccountsInv!(q)'
  <2>1. CASE q = r
    <3>1. reply'[r] = Absent BY <1>9 DEF Submit, Admits, CallsInv, Awaiting
    <3>2. pc'[r] = "admin" BY <1>1, <1>9 DEF Submit, Admits
    <3>3. QED BY <2>1, <3>1, <3>2 DEF Committing
  <2>2. CASE q # r BY <1>1, <1>4, <1>9, <2>2 DEF Submit, Admits
  <2>3. QED BY <2>1, <2>2
<1>10. ASSUME NEW r \in Requests, AdminRegistered(r) PROVE AccountsInv!(q)'
  <2>1. /\ work'[r].made = (reply[r] = "created")
        /\ work'[r].user = work[r].user /\ work'[r].pw = work[r].pw
        /\ q # r => work'[q] = work[q]
    BY <1>10, AdminStep
  <2>2. reply' = [reply EXCEPT ![r] = Absent] /\ pc' = [pc EXCEPT ![r] = "bot"]
    BY <1>10 DEF AdminRegistered
  <2>3. CASE q = r
    <3>1. pc[r] = "admin" /\ reply[r] # Absent BY <1>10 DEF AdminRegistered
    <3>2. Backed(work[r].user, work[r].pw, reply[r] = "created") BY <3>1 DEF AccountsInv
    <3>3. Backed(work[r].user, work[r].pw, work[r].made)'
      <4>1. accounts' = accounts BY <1>10 DEF AdminRegistered
      <4>2. accounts[work[r].user] # Absent
              /\ (reply[r] = "created" \/ work[r].user \notin contested
                    => accounts[work[r].user].pw = work[r].pw)
        BY <3>2 DEF Backed
      <4>3. accounts'[work'[r].user] # Absent
              /\ (work'[r].made \/ work'[r].user \notin contested'
                    => accounts'[work'[r].user].pw = work'[r].pw)
        BY <2>1, <4>1, <4>2 DEF HistoryKept
      <4>4. QED BY <4>1, <4>3 DEF Backed
    <3>4. QED BY <1>1, <2>1, <2>2, <2>3, <3>3 DEF Committing
  <2>4. CASE q # r BY <1>1, <1>4, <2>1, <2>2, <2>4
  <2>5. QED BY <2>3, <2>4
<1>11. ASSUME NEW r \in Requests, BotRegistered(r) PROVE AccountsInv!(q)'
  <2>1. reply' = [reply EXCEPT ![r] = Absent] /\ pc' = [pc EXCEPT ![r] = "creds"]
    BY <1>11 DEF BotRegistered
  <2>2. accounts' = accounts BY <1>11 DEF BotRegistered, synapse
  <2>3. CASE q = r
    <3>1. pc[r] = "bot" /\ reply[r] # Absent /\ work[r] \in Work
      BY <1>11 DEF BotRegistered, LocalsInv
    <3>2. /\ Backed(work[r].user, work[r].pw, work[r].made)
          /\ Backed(Bot, work[r].botPw, reply[r] = "created")
      BY <3>1 DEF AccountsInv, Committing
    <3>3. work'[r] = [work[r] EXCEPT !.botMade = (reply[r] = "created")]
      BY <1>1, <1>11 DEF BotRegistered
    <3>4. /\ work'[r].user = work[r].user /\ work'[r].pw = work[r].pw
          /\ work'[r].made = work[r].made /\ work'[r].botPw = work[r].botPw
          /\ work'[r].botMade = (reply[r] = "created")
      BY <3>1, <3>3 DEF Work
    <3>5. /\ Backed(work[r].user, work[r].pw, work[r].made)'
          /\ Backed(Bot, work[r].botPw, work[r].botMade)'
      BY <2>2, <3>2, <3>4 DEF Backed, HistoryKept
    <3>6. QED BY <1>1, <2>1, <2>3, <3>5 DEF Committing
  <2>4. CASE q # r BY <1>1, <1>4, <1>11, <2>1, <2>4 DEF BotRegistered
  <2>5. QED BY <2>3, <2>4
<1>12. ASSUME NEW r \in Requests, RegistrationFails(r) PROVE AccountsInv!(q)'
  <2>1. CASE q = r BY <1>1, <1>12, <2>1 DEF RegistrationFails, Committing
  <2>2. CASE q # r BY <1>1, <1>4, <1>12, <2>2 DEF RegistrationFails
  <2>3. QED BY <2>1, <2>2
<1>13. ASSUME NEW r \in Requests, Commit(r) PROVE AccountsInv!(q)'
  <2>1. accounts' = accounts /\ reply' = reply
    BY <1>13 DEF Commit, TearCreds, FillCreds, TearHash, FillHash, TearSentinel,
                 FillSentinel, RetireToken, synapse
  <2>2. CASE q # r
    <3>1. pc'[q] = pc[q] /\ work'[q] = work[q]
      BY <1>1, <1>13, <2>2 DEF Commit, TearCreds, FillCreds, TearHash, FillHash,
                 TearSentinel, FillSentinel, RetireToken, Goto, Release
    <3>2. QED BY <1>4, <2>1, <3>1
  <2>3. CASE q = r
    <3>1. pc[r] \in Committing
      BY <1>13 DEF Commit, TearCreds, FillCreds, TearHash, FillHash, TearSentinel,
                   FillSentinel, RetireToken, Goto, Committing
    <3>2. CASE RetireToken(r) BY <1>1, <2>3, <3>2 DEF RetireToken, Goto, Committing
    <3>3. CASE ~RetireToken(r)
      <4>1. pc'[r] \in Committing
        BY <1>1, <1>13, <3>3 DEF Commit, TearCreds, FillCreds, TearHash, FillHash,
                      TearSentinel, FillSentinel, Goto, Committing
      <4>2. /\ work'[r].user = work[r].user /\ work'[r].pw = work[r].pw
            /\ work'[r].made = work[r].made /\ work'[r].botPw = work[r].botPw
            /\ work'[r].botMade = work[r].botMade
        <5>1. CASE work' = work BY <5>1
        <5>2. CASE TearHash(r)
          <6>1. work[r] \in Work BY <3>1 DEF LocalsInv, Committing
          <6>2. PICK k \in Keys : work' = [work EXCEPT ![r].key = k]
            BY <5>2 DEF TearHash
          <6>3. work'[r] = [work[r] EXCEPT !.key = k] BY <1>1, <6>2
          <6>4. QED BY <6>1, <6>3 DEF Work
        <5>3. QED
          BY <1>13, <3>3, <5>1, <5>2 DEF Commit, TearCreds, FillCreds, FillHash,
                                         TearSentinel, FillSentinel
      <4>3. /\ Backed(work[r].user, work[r].pw, work[r].made)
            /\ Backed(Bot, work[r].botPw, work[r].botMade)
        BY <3>1 DEF AccountsInv
      <4>4. /\ Backed(work[r].user, work[r].pw, work[r].made)'
            /\ Backed(Bot, work[r].botPw, work[r].botMade)'
        BY <2>1, <4>2, <4>3 DEF Backed, HistoryKept
      <4>5. QED BY <2>3, <4>1, <4>4 DEF Committing
    <3>4. QED BY <3>2, <3>3
  <2>4. QED BY <2>2, <2>3
<1>14. ASSUME NEW r \in Requests, WriteFails(r) PROVE AccountsInv!(q)'
  <2>1. CASE q = r BY <1>1, <1>14, <2>1 DEF WriteFails, Committing
  <2>2. CASE q # r BY <1>1, <1>4, <1>14, <2>2 DEF WriteFails, Release
  <2>3. QED BY <2>1, <2>2
<1>15. QED
  BY <1>5, <1>6, <1>7, <1>8, <1>9, <1>10, <1>11, <1>12, <1>13, <1>14 DEF Next

\* The steps that write a given file, and what they write.
LEMMA FileSteps ==
    ASSUME TypeOK, LocalsInv, [Next]_vars
    PROVE  /\ \/ UNCHANGED creds
              \/ \E r \in Requests :
                   /\ pc[r] \in {"creds", "credsTorn"}
                   /\ UNCHANGED <<hash, sentinel>>
                   /\ \/ creds' = Torn
                      \/ pc[r] = "credsTorn"
                         /\ creds' = [pw |-> work[r].botPw, made |-> work[r].botMade]
           /\ \/ UNCHANGED hash
              \/ \E r \in Requests :
                   pc[r] \in {"hash", "hashTorn"} /\ UNCHANGED <<creds, sentinel>>
           /\ \/ UNCHANGED sentinel
              \/ \E r \in Requests :
                   /\ UNCHANGED <<creds, hash>>
                   /\ \/ pc[r] = "sentinel" /\ sentinel' = Torn
                      \/ /\ pc[r] = "sentinelTorn"
                         /\ sentinel' = [user |-> work[r].user, pw |-> work[r].pw,
                                         key |-> work[r].key, made |-> work[r].made]
                         /\ sentinel' \in Summary
<1>1. ASSUME NEW m \in inbox, SynapseRegister(m) \/ SynapseDrop(m)
      PROVE  UNCHANGED <<creds, hash, sentinel>>
  BY <1>1 DEF SynapseRegister, SynapseDrop, files
<1>2. CASE PublishOnion \/ WizardStart \/ WizardCrash \/ UNCHANGED vars
  BY <1>2 DEF PublishOnion, WizardStart, WizardCrash, files, vars
<1>3. ASSUME NEW r \in Requests,
             \/ \E f \in Form : Submit(r, f)
             \/ AdminRegistered(r) \/ BotRegistered(r) \/ RegistrationFails(r)
             \/ WriteFails(r) \/ RetireToken(r)
      PROVE  UNCHANGED <<creds, hash, sentinel>>
  BY <1>3 DEF Submit, Admits, AdminRegistered, BotRegistered, RegistrationFails, WriteFails,
              RetireToken, files
<1>4. ASSUME NEW r \in Requests, TearCreds(r) \/ FillCreds(r)
      PROVE  /\ pc[r] \in {"creds", "credsTorn"} /\ UNCHANGED <<hash, sentinel>>
             /\ \/ creds' = Torn
                \/ pc[r] = "credsTorn"
                   /\ creds' = [pw |-> work[r].botPw, made |-> work[r].botMade]
  BY <1>4 DEF TearCreds, FillCreds, Goto
<1>5. ASSUME NEW r \in Requests, TearHash(r) \/ FillHash(r)
      PROVE  pc[r] \in {"hash", "hashTorn"} /\ UNCHANGED <<creds, sentinel>>
  BY <1>5 DEF TearHash, FillHash, Goto
<1>6. ASSUME NEW r \in Requests, TearSentinel(r)
      PROVE  pc[r] = "sentinel" /\ sentinel' = Torn /\ UNCHANGED <<creds, hash>>
  BY <1>6 DEF TearSentinel, Goto
<1>7. ASSUME NEW r \in Requests, FillSentinel(r)
      PROVE  /\ pc[r] = "sentinelTorn" /\ UNCHANGED <<creds, hash>>
             /\ sentinel' = [user |-> work[r].user, pw |-> work[r].pw,
                             key |-> work[r].key, made |-> work[r].made]
             /\ sentinel' \in Summary
  BY <1>7 DEF FillSentinel, Goto, LocalsInv, HasHash, Work, Summary
<1>8. QED
  BY <1>1, <1>2, <1>3, <1>4, <1>5, <1>6, <1>7 DEF Next, Commit

\* The outcome invariants hold after every step.
LEMMA OutcomeStep == SetupInv /\ [Next]_vars /\ HistoryKept =>
                       RetryPossible' /\ AccountsBehindSummary' /\ RecordedLogsIn'
<1> SUFFICES ASSUME SetupInv, [Next]_vars, HistoryKept
             PROVE  RetryPossible' /\ AccountsBehindSummary' /\ RecordedLogsIn'
  OBVIOUS
<1>0. TypeOK /\ LocalsInv /\ CallsInv /\ FilesInv /\ AccountsInv
  BY DEF SetupInv
<1>1. Bot \in Names /\ \A s \in Summary : s.user \in Names
  BY DEF Names, Summary
<1>2. RetryPossible'
  <2>1. ASSUME wizard' = wizard, tokenFile' = tokenFile, Complete' \/ ~Complete
        PROVE  RetryPossible'
    BY <2>1 DEF SetupInv, RetryPossible
  <2>2. Complete => Complete'
    BY <1>0, FileSteps, SentinelAssumption DEF Complete
  <2>3. CASE WizardStart BY <2>3 DEF WizardStart, RetryPossible, Complete
  <2>4. CASE WizardCrash BY <2>4 DEF WizardCrash, RetryPossible
  <2>5. ASSUME NEW r \in Requests, RetireToken(r) PROVE RetryPossible'
    <3>1. Complete
      BY <1>0, <2>5, SentinelAssumption DEF RetireToken, Goto, FilesInv, Complete
    <3>2. QED BY <2>2, <3>1 DEF RetryPossible
  <2>6. \/ wizard' = wizard /\ tokenFile' = tokenFile
        \/ WizardStart \/ WizardCrash \/ \E r \in Requests : RetireToken(r)
    BY DEF Next, vars, PublishOnion, SynapseRegister, SynapseDrop, Submit, Commit,
           AdminRegistered, BotRegistered, RegistrationFails, WriteFails, TearCreds,
           FillCreds, TearHash, FillHash, TearSentinel, FillSentinel, files
  <2>7. QED BY <2>1, <2>2, <2>3, <2>4, <2>5, <2>6
<1>3. ASSUME sentinel' \in Summary
      PROVE  /\ Backed(sentinel.user, sentinel.pw, sentinel.made)'
             /\ accounts'[Bot] # Absent
  <2>1. CASE sentinel' = sentinel
    <3>1. /\ Backed(sentinel.user, sentinel.pw, sentinel.made)
          /\ accounts[Bot] # Absent
      BY <1>3, <2>1 DEF SetupInv, RecordedLogsIn, AccountsBehindSummary
    <3>2. accounts'[Bot] # Absent BY <1>0, <1>1, <3>1, AccountStays
    <3>3. QED
      BY <1>0, <1>1, <1>3, <2>1, <3>1, <3>2, BackedStays DEF Backed
  <2>2. CASE sentinel' # sentinel
    <3>1. PICK r \in Requests :
            /\ pc[r] = "sentinelTorn"
            /\ sentinel' = [user |-> work[r].user, pw |-> work[r].pw,
                            key |-> work[r].key, made |-> work[r].made]
      BY <1>0, <1>3, <2>2, FileSteps, SentinelAssumption
    <3>2. /\ Backed(work[r].user, work[r].pw, work[r].made)
          /\ Backed(Bot, work[r].botPw, work[r].botMade)
      BY <1>0, <3>1 DEF AccountsInv, Committing
    <3>3. work[r].user \in Names BY <1>0, <3>1 DEF LocalsInv, Work, Names
    <3>4. QED BY <1>0, <1>1, <3>1, <3>2, <3>3, BackedStays DEF Backed
  <2>3. QED BY <2>1, <2>2
<1>4. ASSUME creds' \in Credentials PROVE Backed(Bot, creds.pw, creds.made)'
  <2>1. CASE creds' = creds
    BY <1>0, <1>1, <1>4, <2>1, BackedStays DEF SetupInv, RecordedLogsIn, Backed
  <2>2. CASE creds' # creds
    <3>1. PICK r \in Requests :
            /\ pc[r] = "credsTorn"
            /\ creds' = [pw |-> work[r].botPw, made |-> work[r].botMade]
      BY <1>0, <1>4, <2>2, FileSteps, SentinelAssumption
    <3>2. Backed(Bot, work[r].botPw, work[r].botMade)
      BY <1>0, <3>1 DEF AccountsInv, Committing
    <3>3. QED BY <1>0, <1>1, <3>1, <3>2, BackedStays DEF Backed
  <2>3. QED BY <2>1, <2>2
<1>5. QED
  BY <1>2, <1>3, <1>4 DEF AccountsBehindSummary, RecordedLogsIn, Backed

-----------------------------------------------------------------------------
\* A step of the specification is a step of the code that keeps the history.
LEMMA Steps ==
    ASSUME [Next /\ Histories]_<<vars, histories>>, met \in BOOLEAN, contested \in SUBSET Names
    PROVE  [Next]_vars /\ HistoryKept /\ (met => met')
<1>1. CASE Next /\ Histories BY <1>1 DEF Histories, HistoryKept
<1>2. CASE UNCHANGED <<vars, histories>> BY <1>2 DEF histories, HistoryKept
<1>3. QED BY <1>1, <1>2

\* Names with two passwords at stake are remembered as contested.
LEMMA ContestedStep ==
    ContestedInv /\ [Next /\ Histories]_<<vars, histories>> => ContestedInv'
<1>1. ASSUME Next /\ Histories PROVE ContestedInv'
  BY <1>1 DEF Histories, ContestedInv
<1>2. ASSUME ContestedInv, UNCHANGED <<vars, histories>> PROVE ContestedInv'
  BY <1>2 DEF vars, histories, ContestedInv, AtStake
<1>3. QED BY <1>1, <1>2

\* The inductive invariant holds throughout.
THEOREM SetupInvariant == Spec => []SetupInv
<1>1. Init => SetupInv
  <2> SUFFICES ASSUME Init PROVE SetupInv OBVIOUS
  <2>1. TypeOK BY DEF Init, TypeOK, Registration, Awaiting, Committing
  <2>2. LocalsInv
    BY SentinelAssumption DEF Init, LocalsInv, Committing, HasHash
  <2>3. CallsInv /\ FilesInv /\ AccountsInv
    BY DEF Init, CallsInv, FilesInv, AccountsInv, Committing, HasHash, HasCreds
  <2>5. ContestedInv BY DEF Init, ContestedInv, AtStake
  <2>4. RetryPossible /\ AccountsBehindSummary /\ RecordedLogsIn
    BY SentinelAssumption
    DEF Init, RetryPossible, AccountsBehindSummary, RecordedLogsIn
  <2>6. QED BY <2>1, <2>2, <2>3, <2>4, <2>5 DEF SetupInv
<1>2. SetupInv /\ [Next /\ Histories]_<<vars, histories>> => SetupInv'
  <2> SUFFICES ASSUME SetupInv, [Next /\ Histories]_<<vars, histories>> PROVE SetupInv'
    OBVIOUS
  <2>1. [Next]_vars /\ HistoryKept BY Steps DEF SetupInv, TypeOK
  <2>2. QED
    BY <2>1, TypeStep, LocalsStep, CallsStep, FilesStep, AccountsStep, ContestedStep,
       OutcomeStep DEF SetupInv
<1>3. QED BY <1>1, <1>2, PTL DEF Spec

\* Every variable stays in its domain (server.py do_setup and the files it
\* writes).
THEOREM TypeCorrect == Spec => []TypeOK
<1>1. SetupInv => TypeOK BY DEF SetupInv
<1>2. QED BY <1>1, SetupInvariant, PTL

\* No failure of an attempt before the sentinel's own write costs the operator the
\* one-time token before setup is complete (server.py:369-373).
THEOREM RetryAlwaysPossible == Spec => []RetryPossible
<1>1. SetupInv => RetryPossible BY DEF SetupInv
<1>2. QED BY <1>1, SetupInvariant, PTL

\* The summary shown to the owner has both accounts behind it in Synapse, even if
\* register_user found a name taken by an earlier attempt (synapse.py:57-63) ...
THEOREM SummaryBacked == Spec => []AccountsBehindSummary
<1>1. SetupInv => AccountsBehindSummary BY DEF SetupInv
<1>2. QED BY <1>1, SetupInvariant, PTL

\* ... and the recorded password logs in, if Synapse made the account for the attempt
\* that recorded it, or was never to have the name with another password.
THEOREM RecordedPasswordLogsIn == Spec => []RecordedLogsIn
<1>1. SetupInv => RecordedLogsIn BY DEF SetupInv
<1>2. QED BY <1>1, SetupInvariant, PTL

\* The sentinel is only ever created over complete credentials and hash (the
\* order of steps 3 to 5 of do_setup).
THEOREM HandoverBeforeClaim == Spec => ClaimAfterHandover
<1>1. SetupInv /\ [Next /\ Histories]_<<vars, histories>> =>
        [~Complete /\ Complete' => creds \in Credentials /\ hash \in Keys]_vars
  <2> SUFFICES ASSUME SetupInv, [Next /\ Histories]_<<vars, histories>>, ~Complete, Complete'
               PROVE  creds \in Credentials /\ hash \in Keys
    OBVIOUS
  <2>1. TypeOK /\ LocalsInv /\ FilesInv /\ [Next]_vars BY Steps DEF SetupInv, TypeOK
  <2>2. PICK r \in Requests : pc[r] \in {"sentinel", "sentinelTorn"}
    BY <2>1, FileSteps DEF Complete
  <2>3. QED BY <2>1, <2>2 DEF FilesInv, LocalsInv, HasCreds, HasHash
<1>2. QED BY <1>1, SetupInvariant, PTL DEF Spec, ClaimAfterHandover

\* Until two requests meet, they are one at a time, and nothing but the claim itself is
\* in progress on a claimed box.
LEMMA SerialInvariant == Spec => []SerialInv
<1>1. Init => SerialInv
  BY SentinelAssumption DEF Init, SerialInv, OneAtATime, Complete
<1>2. SetupInv /\ SerialInv /\ [Next /\ Histories]_<<vars, histories>> => SerialInv'
  <2> SUFFICES ASSUME SetupInv, SerialInv, [Next /\ Histories]_<<vars, histories>>, ~met'
               PROVE  /\ OneAtATime'
                      /\ Complete' => \A q \in Requests : pc'[q] \in {"idle", "sentinelTorn", "token"}
                      /\ sentinel' \in Summary => hash' = sentinel'.key
    BY DEF SerialInv
  <2>0. TypeOK /\ LocalsInv /\ FilesInv BY DEF SetupInv
  <2>m. ~met /\ [Next]_vars BY <2>0, Steps DEF TypeOK
  <2>s. /\ OneAtATime
        /\ Complete => \A q \in Requests : pc[q] \in {"idle", "sentinelTorn", "token"}
        /\ sentinel \in Summary => hash = sentinel.key
    BY <2>m DEF SerialInv
  <2>1. ASSUME sentinel' \in Summary PROVE hash' = sentinel'.key
    <3>1. CASE sentinel' = sentinel
      <4>1. Complete /\ hash = sentinel.key
        BY <2>1, <2>s, <3>1, SentinelAssumption DEF Complete
      <4>2. hash' = hash BY <2>0, <2>m, <2>s, <4>1, FileSteps
      <4>3. QED BY <3>1, <4>1, <4>2
    <3>2. CASE sentinel' # sentinel
      <4>1. PICK r \in Requests :
              /\ pc[r] = "sentinelTorn" /\ UNCHANGED hash
              /\ sentinel' = [user |-> work[r].user, pw |-> work[r].pw,
                              key |-> work[r].key, made |-> work[r].made]
        BY <2>0, <2>1, <2>m, <3>2, FileSteps, SentinelAssumption
      <4>2. hash = work[r].key BY <2>0, <4>1 DEF FilesInv, HasHash
      <4>3. QED BY <4>1, <4>2
    <3>3. QED BY <3>1, <3>2
  <2>2. ASSUME Complete', NEW q \in Requests
        PROVE  pc'[q] \in {"idle", "sentinelTorn", "token"}
    <3>0. pc \in [Requests -> {"idle"} \cup Awaiting \cup Committing]
      BY <2>0 DEF TypeOK
    <3>1. CASE Complete
      <4>1. \A r \in Requests : pc[r] \in {"idle", "sentinelTorn", "token"}
        BY <2>s, <3>1
      <4>2. \A r \in Requests : ~(\E f \in Form : Submit(r, f))
        BY <3>1 DEF Submit, Admits
      <4>3. \A r \in Requests : ~(AdminRegistered(r) \/ BotRegistered(r))
        BY <4>1 DEF AdminRegistered, BotRegistered
      <4>4. ASSUME NEW r \in Requests, Commit(r) \/ WriteFails(r) \/ RegistrationFails(r)
            PROVE  pc'[q] \in {"idle", "sentinelTorn", "token"}
        BY <3>0, <4>1, <4>4 DEF Commit, TearCreds, FillCreds, TearHash,
           FillHash, TearSentinel, FillSentinel, RetireToken, Goto, WriteFails,
           RegistrationFails
      <4>5. ASSUME NEW m \in inbox, SynapseRegister(m) \/ SynapseDrop(m)
            PROVE  pc' = pc
        BY <4>5 DEF SynapseRegister, SynapseDrop
      <4>6. CASE PublishOnion \/ WizardStart \/ WizardCrash \/ UNCHANGED vars
        BY <4>1, <4>6 DEF PublishOnion, WizardStart, WizardCrash, vars
      <4>7. QED BY <2>m, <4>1, <4>2, <4>3, <4>4, <4>5, <4>6 DEF Next
    <3>2. CASE ~Complete
      <4>1. \A r \in Requests : pc[r] # "sentinelTorn"
        BY <2>0, <3>2, SentinelAssumption DEF FilesInv, Complete
      <4>2. PICK r \in Requests : pc[r] = "sentinel"
        BY <2>0, <2>2, <2>m, <3>2, <4>1, FileSteps DEF Complete
      <4>3. \A p \in Requests : pc[p] # "idle" => p = r
        BY <2>s, <4>2 DEF OneAtATime
      <4>4. TearSentinel(r)
        <5>1. ASSUME NEW m \in inbox, SynapseRegister(m) \/ SynapseDrop(m) PROVE FALSE
          BY <2>2, <3>2, <5>1 DEF SynapseRegister, SynapseDrop, files, Complete
        <5>2. ~(PublishOnion \/ WizardStart \/ WizardCrash \/ UNCHANGED vars)
          BY <2>2, <3>2 DEF PublishOnion, WizardStart, WizardCrash, files, vars, Complete
        <5>3. ASSUME NEW p \in Requests, ~TearSentinel(p),
                     \/ \E f \in Form : Submit(p, f)
                     \/ AdminRegistered(p) \/ BotRegistered(p)
                     \/ RegistrationFails(p) \/ Commit(p) \/ WriteFails(p)
              PROVE  FALSE
          BY <2>2, <3>2, <4>1, <5>3 DEF Submit, Admits, AdminRegistered, BotRegistered,
             RegistrationFails, Commit, TearCreds, FillCreds, TearHash, FillHash,
             FillSentinel, RetireToken, Goto, WriteFails, files, Complete
        <5>4. PICK p \in Requests : TearSentinel(p) BY <2>m, <5>1, <5>2, <5>3 DEF Next
        <5>5. QED BY <4>3, <5>4 DEF TearSentinel, Goto
      <4>5. QED BY <3>0, <4>3, <4>4 DEF TearSentinel, Goto
    <3>3. QED BY <3>1, <3>2
  <2>3. OneAtATime'
    <3>1. CASE Histories BY <3>1 DEF Histories, OneAtATime
    <3>2. CASE UNCHANGED vars BY <2>s, <3>2 DEF vars, OneAtATime
    <3>3. QED BY <3>1, <3>2
  <2>4. QED BY <2>1, <2>2, <2>3
<1>3. QED BY <1>1, <1>2, SetupInvariant, PTL DEF Spec

\* Until two requests are in progress at once, the recovery key on the dashboard is one
\* that recovery_hash verifies, whatever crashed or failed on the way.
THEOREM RecoveryKeyVerifies == Spec => []RecoveryKeyUsable
<1>1. SerialInv => RecoveryKeyUsable BY DEF SerialInv, RecoveryKeyUsable
<1>2. QED BY <1>1, SerialInvariant, PTL

\* ... and setup then implements the abstract claim: one owner, once, over files
\* that are complete and never rewritten.
THEOREM ClaimImplemented == Spec => ImplementsClaim
<1>1. Init => Promise!Init
  BY SentinelAssumption DEF Init, Promise!Init
<1>2. SetupInv /\ SerialInv /\ SerialInv' /\ [Next /\ Histories]_<<vars, histories>>
        => [met' \/ Promise!Next]_(Promise!claimVars)
  <2> SUFFICES ASSUME SetupInv, SerialInv, SerialInv', [Next /\ Histories]_<<vars, histories>>, ~met'
               PROVE  [Promise!Next]_(Promise!claimVars)
    OBVIOUS
  <2>0. TypeOK /\ LocalsInv /\ FilesInv BY DEF SetupInv
  <2>m. ~met /\ [Next]_vars BY <2>0, Steps DEF TypeOK
  <2>1. CASE sentinel \in Summary
    <3>1. Complete BY <2>1, SentinelAssumption DEF Complete
    <3>2. \A r \in Requests : pc[r] \in {"idle", "token"}
      BY <2>0, <2>1, <2>m, <3>1, SentinelAssumption DEF SerialInv, FilesInv
    <3>3. UNCHANGED <<creds, hash, sentinel>> BY <2>0, <2>m, <3>2, FileSteps
    <3>4. QED BY <3>3 DEF Promise!claimVars
  <2>2. CASE sentinel \notin Summary /\ sentinel' \notin Summary
    BY <2>2 DEF Promise!Next, Promise!Prepare
  <2>3. CASE sentinel \notin Summary /\ sentinel' \in Summary
    <3>1. PICK r \in Requests :
            pc[r] = "sentinelTorn" /\ UNCHANGED <<creds, hash>>
      BY <2>0, <2>3, <2>m, FileSteps, SentinelAssumption
    <3>2. creds \in Credentials BY <2>0, <3>1 DEF FilesInv, HasCreds, HasHash
    <3>3. hash' = sentinel'.key BY <2>3 DEF SerialInv
    <3>4. Promise!Take(sentinel')
      BY <2>3, <3>1, <3>2, <3>3 DEF Promise!Take
    <3>5. QED BY <2>3, <3>4 DEF Promise!Next
  <2>4. QED BY <2>1, <2>2, <2>3
<1>3. QED
  BY <1>1, <1>2, SetupInvariant, SerialInvariant, PTL
  DEF Spec, ImplementsClaim
=============================================================================
