--------------------------- MODULE PairingProofs ---------------------------
(***************************************************************************)
(* Theorems of Pairing, for any handlers, CLI processes, peers and codes.  *)
(***************************************************************************)
EXTENDS Pairing, TmpRenameProofs

(***************************************************************************)
(* Typing.  That an actor at work has a task is what keeps NewEntries a    *)
(* set of entries, and that its onion is not this box's what keeps Entry.  *)
(***************************************************************************)
TaskInv ==
    \A a \in Actors :
        AtWork(a) => /\ task[a] \in Task
                     /\ task[a].op = "accept" => task[a].onion # Own /\ task[a].nonce \in Nonces
TypeInv == TypeOK /\ TaskInv

LEMMA NewEntriesTyped ==
    ASSUME TypeInv, NEW a \in Actors, AtWork(a)
    PROVE  NewEntries(a) \in SUBSET Entry
  <1>1. read[a] \subseteq Entry /\ task[a] \in Task
    BY DEF TypeInv, TypeOK, TaskInv
  <1>2. Others(a) \subseteq Entry
    BY <1>1 DEF Others
  <1>3. CASE task[a].op = "accept"
    <2>1. task[a].onion \in Onions \ {Own} /\ task[a].nonce \in Nonces
      BY <1>1, <1>3 DEF TypeInv, TaskInv, Task
    <2>2. [onion |-> task[a].onion, nonce |-> task[a].nonce] \in Entry
      BY <2>1 DEF Entry
    <2>3. QED
      BY <1>2, <1>3, <2>2 DEF NewEntries
  <1>4. CASE task[a].op # "accept"
    BY <1>2, <1>4 DEF NewEntries
  <1>5. QED
    BY <1>3, <1>4

LEMMA PairingsTyped ==
    ASSUME TypeOK
    PROVE  Pairings \in SUBSET Entry /\ OnionsOf(Pairings) \in SUBSET Onions
  BY DEF TypeOK, File, Pairings, Parsed, OnionsOf, Entry

LEMMA InitTyped == Init => TypeInv
  <1> SUFFICES ASSUME Init PROVE TypeInv
    OBVIOUS
  <1>1. file \in File(Actors, SUBSET Entry)
    BY DEF Init, NoFile, File, Unreadable
  <1>2. TypeOK
    <2>1. now \in 0..MaxTime
      BY TimeAssumption DEF Init
    <2>2. /\ pc \in [Actors -> {"idle", "loaded", "opened", "filled", "restart", "wait"}]
          /\ task \in [Actors -> Task \cup {None}]
          /\ read \in [Actors -> SUBSET Entry]
      BY DEF Init
    <2>3. QED
      BY <1>1, <2>1, <2>2 DEF Init, TypeOK
  <1>3. TaskInv
    BY DEF Init, TaskInv, AtWork
  <1>4. QED
    BY <1>2, <1>3 DEF TypeInv

\* The end of an actor's work keeps the types of what it resets.
LEMMA EndTyped ==
    ASSUME TypeInv, NEW a \in Actors, NEW told \in BOOLEAN, End(a, told)
    PROVE  /\ pc' \in [Actors -> {"idle", "loaded", "opened", "filled", "restart", "wait"}]
           /\ task' \in [Actors -> Task \cup {None}]
           /\ read' \in [Actors -> SUBSET Entry]
           /\ notice' \in BOOLEAN /\ met' \in SUBSET Actors
           /\ TaskInv'
  <1>1. pc' \in [Actors -> {"idle", "loaded", "opened", "filled", "restart", "wait"}]
    BY DEF TypeInv, TypeOK, End
  <1>2. task' \in [Actors -> Task \cup {None}] /\ notice' \in BOOLEAN /\ met' \in SUBSET Actors
    BY DEF TypeInv, TypeOK, End
  <1>3. read' \in [Actors -> SUBSET Entry]
    BY DEF TypeInv, TypeOK, End
  <1>4. TaskInv'
    BY DEF TypeInv, TypeOK, TaskInv, AtWork, End
  <1>5. QED
    BY <1>1, <1>2, <1>3, <1>4

LEMMA YieldTyped ==
    ASSUME TypeInv, NEW a \in Actors, Yield(a)
    PROVE  loop' \in Handlers \cup {None}
  BY DEF TypeInv, TypeOK, Yield

LEMMA EnterTyped ==
    ASSUME TypeInv, NEW a \in Actors, NEW t \in Task, Enter(a),
           task' = [task EXCEPT ![a] = t],
           t.op = "accept" => t.onion # Own /\ t.nonce \in Nonces
    PROVE  TypeInv'
  <1>1. read' \in [Actors -> SUBSET Entry]
    BY PairingsTyped DEF TypeInv, TypeOK, Enter
  <1>2. met' \in SUBSET Actors
    BY DEF TypeInv, TypeOK, Enter, Meets
  <1>3. TypeOK'
    BY <1>1, <1>2 DEF TypeInv, TypeOK, Enter
  <1>4. TaskInv'
    BY DEF TypeInv, TypeOK, TaskInv, AtWork, Enter
  <1>5. QED
    BY <1>3, <1>4 DEF TypeInv

LEMMA StepTyped == TypeInv /\ [Next]_vars => TypeInv'
  <1> SUFFICES ASSUME TypeInv, [Next]_vars PROVE TypeInv'
    OBVIOUS
  <1>1. CASE Tick
    BY <1>1, TimeAssumption DEF Tick, TypeInv, TypeOK, TaskInv, AtWork
  <1>2. ASSUME NEW a \in Actors, NEW c \in Codes, StartAccept(a, c) PROVE TypeInv'
    <2>1. c.onion \in Onions /\ c.nonce \in Nonces
      BY CodesAssumption DEF Nonces
    <2> DEFINE t == [op |-> "accept", onion |-> c.onion, nonce |-> c.nonce]
    <2>2. t \in Task /\ t.onion # Own /\ t.nonce \in Nonces
      BY <1>2, <2>1 DEF Task, StartAccept
    <2>3. Enter(a) /\ task' = [task EXCEPT ![a] = t]
      BY <1>2 DEF StartAccept
    <2> HIDE DEF t
    <2>4. QED
      BY <2>2, <2>3, EnterTyped
  <1>3. ASSUME NEW a \in Actors, NEW o \in Onions, StartRemove(a, o) PROVE TypeInv'
    <2> DEFINE t == [op |-> "remove", onion |-> o, nonce |-> None]
    <2>1. t \in Task /\ t.op # "accept"
      BY DEF Task
    <2>2. Enter(a) /\ task' = [task EXCEPT ![a] = t]
      BY <1>3 DEF StartRemove
    <2> HIDE DEF t
    <2>3. QED
      BY <2>1, <2>2, EnterTyped
  <1>4. ASSUME NEW a \in Actors, Refuse(a) PROVE TypeInv'
    <2>1. notice \in BOOLEAN /\ End(a, notice) /\ Yield(a)
      BY <1>4 DEF TypeInv, TypeOK, Refuse
    <2>2. UNCHANGED <<now, file, synapse, rendered, consumed>>
      BY <1>4 DEF Refuse
    <2>3. QED
      BY <2>1, <2>2, EndTyped, YieldTyped DEF TypeInv, TypeOK
  <1>5. ASSUME NEW a \in Actors, OpenTmp(a) PROVE TypeInv'
    <2>1. file' \in File(Actors, SUBSET Entry)
      BY <1>5, FileTyping DEF TypeInv, TypeOK, OpenTmp
    <2>2. TypeOK'
      BY <1>5, <2>1 DEF TypeInv, TypeOK, OpenTmp
    <2>3. TaskInv'
      BY <1>5 DEF TypeInv, TypeOK, TaskInv, AtWork, OpenTmp
    <2>4. QED
      BY <2>2, <2>3 DEF TypeInv
  <1>6. ASSUME NEW a \in Actors, FillTmp(a) PROVE TypeInv'
    <2>1. NewEntries(a) \in SUBSET Entry
      BY <1>6, NewEntriesTyped DEF AtWork, FillTmp
    <2>2. file' \in File(Actors, SUBSET Entry)
      BY <1>6, <2>1, FileTyping DEF TypeInv, TypeOK, FillTmp
    <2>3. TypeOK'
      BY <1>6, <2>2 DEF TypeInv, TypeOK, FillTmp
    <2>4. TaskInv'
      BY <1>6 DEF TypeInv, TypeOK, TaskInv, AtWork, FillTmp
    <2>5. QED
      BY <2>3, <2>4 DEF TypeInv
  <1>7. ASSUME NEW a \in Actors, Replace(a) PROVE TypeInv'
    <2>1. file' \in File(Actors, SUBSET Entry)
      BY <1>7, FileTyping DEF TypeInv, TypeOK, Replace
    <2>2. consumed' \in SUBSET Nonces
      BY <1>7 DEF TypeInv, TypeOK, TaskInv, AtWork, Replace
    <2>3. Yield(a) /\ UNCHANGED <<now, synapse, rendered>>
      BY <1>7 DEF Replace
    <2>4. CASE a \in Handlers
      <3>1. pc' = [pc EXCEPT ![a] = "restart"] /\ met' = met \ {a} /\ UNCHANGED <<task, read, notice>>
        BY <1>7, <2>4 DEF Replace
      <3>2. TaskInv'
        BY <3>1 DEF TypeInv, TypeOK, TaskInv, AtWork
      <3>3. TypeOK'
        BY <2>1, <2>2, <2>3, <3>1, YieldTyped DEF TypeInv, TypeOK
      <3>4. QED
        BY <3>2, <3>3 DEF TypeInv
    <2>5. CASE a \notin Handlers
      <3>1. End(a, TRUE)
        BY <1>7, <2>5 DEF Replace
      <3>2. QED
        BY <2>1, <2>2, <2>3, <3>1, YieldTyped, EndTyped DEF TypeInv, TypeOK
    <2>6. QED
      BY <2>4, <2>5
  <1>8. ASSUME NEW a \in Actors, SaveFails(a) PROVE TypeInv'
    <2>1. file' \in File(Actors, SUBSET Entry)
      BY <1>8, FileTyping DEF TypeInv, TypeOK, SaveFails
    <2>2. End(a, TRUE) /\ Yield(a) /\ UNCHANGED <<now, synapse, rendered, consumed>>
      BY <1>8 DEF SaveFails
    <2>3. QED
      BY <2>1, <2>2, EndTyped, YieldTyped DEF TypeInv, TypeOK
  <1>9. ASSUME NEW h \in Handlers, DockerRestart(h) PROVE TypeInv'
    <2>1. h \in Actors
      BY DEF Actors
    <2>2. QED
      BY <1>9, <2>1 DEF TypeInv, TypeOK, TaskInv, AtWork, DockerRestart
  <1>10. ASSUME NEW h \in Handlers, RestartFails(h) \/ Success(h) \/ WaitFails(h) PROVE TypeInv'
    <2>1. h \in Actors
      BY DEF Actors
    <2>2. PICK told \in BOOLEAN : End(h, told)
      BY <1>10 DEF RestartFails, Success, WaitFails, TypeInv, TypeOK
    <2>3. UNCHANGED <<now, file, loop, rendered, consumed>> /\ synapse' \in {synapse, "booting"}
      BY <1>10 DEF RestartFails, Success, WaitFails
    <2>4. QED
      BY <2>1, <2>2, <2>3, EndTyped DEF TypeInv, TypeOK
  <1>11. CASE Render
    BY <1>11, PairingsTyped DEF Render, TypeInv, TypeOK, TaskInv, AtWork
  <1>12. CASE BecomeHealthy
    BY <1>12 DEF BecomeHealthy, TypeInv, TypeOK, TaskInv, AtWork
  <1>13. CASE SynapseRestart
    BY <1>13 DEF SynapseRestart, TypeInv, TypeOK, TaskInv, AtWork
  <1>14. CASE WizardCrash
    <2>1. file' \in File(Actors, SUBSET Entry)
      BY <1>14 DEF WizardCrash, Closed, File, TypeInv, TypeOK
    <2>2. read' \in [Actors -> SUBSET Entry]
      BY <1>14 DEF WizardCrash, TypeInv, TypeOK
    <2>3. TypeOK'
      BY <1>14, <2>1, <2>2 DEF WizardCrash, TypeInv, TypeOK
    <2>4. TaskInv'
      BY <1>14 DEF WizardCrash, TypeInv, TypeOK, TaskInv, AtWork
    <2>5. QED
      BY <2>3, <2>4 DEF TypeInv
  <1>15. CASE UNCHANGED vars
    BY <1>15 DEF vars, TypeInv, TypeOK, TaskInv, AtWork
  <1>16. QED
    BY <1>1, <1>2, <1>3, <1>4, <1>5, <1>6, <1>7, <1>8, <1>9, <1>10, <1>11, <1>12, <1>13,
       <1>14, <1>15 DEF Next, ActorStep

LEMMA Typed == Spec => []TypeInv
  BY InitTyped, StepTyped, PTL DEF Spec

\* Every variable stays in its domain.
THEOREM TypeCorrect == Spec => []TypeOK
  <1>1. TypeInv => TypeOK
    BY DEF TypeInv
  <1>2. QED
    BY <1>1, Typed, PTL

(***************************************************************************)
(* pairings.json is unambiguous.  The invariant speaks of every text that  *)
(* may ever become the file: what the name and the temporary name hold,    *)
(* what the actors have read, and, since an actor only writes what it was  *)
(* not refused, what they will write.                                      *)
(***************************************************************************)
Good == {t \in Unreadable \cup SUBSET Entry : Unambiguous(Parsed(t))}
UniqueInv ==
    /\ file.live \in Good /\ file.tmp \in Good
    /\ \A a \in Actors : Unambiguous(read[a])
    /\ \A a \in Actors : pc[a] \in {"opened", "filled"} => ~Refused(a)

LEMMA UnreadableGood == Unreadable \subseteq Good
  BY DEF Good, Parsed, Unambiguous

LEMMA EntriesGood ==
    ASSUME NEW E \in SUBSET Entry
    PROVE  /\ Unambiguous(E) => E \in Good
           /\ E \in Good => Unambiguous(E)
  BY FileAssumption DEF Good, Parsed

LEMMA NewEntriesUnambiguous ==
    ASSUME TypeInv, NEW a \in Actors, AtWork(a), Unambiguous(read[a]), ~Refused(a)
    PROVE  Unambiguous(NewEntries(a))
  <1>1. Unambiguous(Others(a)) /\ \A e \in Others(a) : e \in read[a] /\ e.onion # task[a].onion
    BY DEF Unambiguous, Others
  <1>2. CASE task[a].op = "accept"
    <2> DEFINE new == [onion |-> task[a].onion, nonce |-> task[a].nonce]
    <2>1. \A e \in Others(a) : e.onion # new.onion /\ e.nonce # new.nonce
      BY <1>1, <1>2 DEF Refused
    <2>2. NewEntries(a) = Others(a) \cup {new}
      BY <1>2 DEF NewEntries
    <2> HIDE DEF new
    <2>3. QED
      BY <1>1, <2>1, <2>2 DEF Unambiguous
  <1>3. CASE task[a].op # "accept"
    BY <1>1, <1>3 DEF NewEntries
  <1>4. QED
    BY <1>2, <1>3

LEMMA InitUnique == Init => UniqueInv
  BY UnreadableGood DEF Init, UniqueInv, NoFile, Unreadable, Unambiguous

\* What the steps that leave the file's texts alone keep.
LEMMA UniqueFrame ==
    ASSUME TypeInv, UniqueInv, file'.live \in Good, file'.tmp \in Good,
           \A a \in Actors : Unambiguous(read'[a]),
           \A a \in Actors : (pc'[a] \in {"opened", "filled"}) =>
               /\ pc[a] \in {"opened", "filled"}
               /\ read'[a] = read[a] /\ task'[a] = task[a]
    PROVE  UniqueInv'
  <1>1. ASSUME NEW a \in Actors, pc'[a] \in {"opened", "filled"} PROVE ~Refused(a)'
    <2>1. ~Refused(a) /\ read'[a] = read[a] /\ task'[a] = task[a]
      BY <1>1 DEF UniqueInv
    <2>2. QED
      BY <2>1 DEF Refused
  <1>2. QED
    BY <1>1 DEF UniqueInv

LEMMA StepUnique == TypeInv /\ UniqueInv /\ [Next]_vars => UniqueInv'
  <1> SUFFICES ASSUME TypeInv, UniqueInv, [Next]_vars PROVE UniqueInv'
    OBVIOUS
  <1> USE UnreadableGood
  <1>f. file \in File(Actors, SUBSET Entry) /\ file.live \in Good /\ file.tmp \in Good
    BY DEF TypeInv, TypeOK, UniqueInv
  <1>r. \A a \in Actors : Unambiguous(read[a])
    BY DEF UniqueInv
  <1>1. ASSUME UNCHANGED <<file, pc, task, read>> PROVE UniqueInv'
    BY <1>1, <1>f, <1>r, UniqueFrame
  <1>2. ASSUME NEW a \in Actors, Enter(a),
               \A b \in Actors \ {a} : task'[b] = task[b]
        PROVE  UniqueInv'
    <2>1. Pairings \in SUBSET Entry /\ Unambiguous(Pairings)
      BY <1>f, PairingsTyped DEF Good, Pairings, TypeInv
    <2>2. read' = [read EXCEPT ![a] = Pairings] /\ pc' = [pc EXCEPT ![a] = "loaded"] /\ file' = file
      BY <1>2 DEF Enter
    <2>3. QED
      BY <1>2, <1>f, <1>r, <2>1, <2>2, UniqueFrame DEF TypeInv, TypeOK
  <1>3. ASSUME NEW a \in Actors, NEW told, End(a, told), file'.live \in Good, file'.tmp \in Good
        PROVE  UniqueInv'
    <2>1. Unambiguous({})
      BY DEF Unambiguous
    <2>2. QED
      BY <1>3, <1>r, <2>1, UniqueFrame DEF End, TypeInv, TypeOK
  <1>4. ASSUME NEW a \in Actors, OpenTmp(a) PROVE UniqueInv'
    <2>1. file'.live \in Good /\ file'.tmp \in Good
      BY <1>4, <1>f, TextsKept DEF OpenTmp
    <2>2. pc' = [pc EXCEPT ![a] = "opened"] /\ read' = read /\ task' = task /\ ~Refused(a)
      BY <1>4 DEF OpenTmp
    <2>3. QED
      BY <2>1, <2>2 DEF UniqueInv, Refused, TypeInv, TypeOK
  <1>5. ASSUME NEW a \in Actors, FillTmp(a) PROVE UniqueInv'
    <2>1. AtWork(a) /\ ~Refused(a)
      BY <1>5 DEF FillTmp, AtWork, UniqueInv
    <2>2. NewEntries(a) \in Good
      BY <1>r, <2>1, NewEntriesTyped, NewEntriesUnambiguous, EntriesGood
    <2>3. file'.live \in Good /\ file'.tmp \in Good
      BY <1>5, <1>f, <2>2, TextsKept DEF FillTmp
    <2>4. pc[a] = "opened" /\ pc' = [pc EXCEPT ![a] = "filled"] /\ read' = read /\ task' = task
      BY <1>5 DEF FillTmp
    <2>5. QED
      BY <1>r, <2>3, <2>4, UniqueFrame DEF TypeInv, TypeOK
  <1>6. ASSUME NEW a \in Actors, Replace(a) PROVE UniqueInv'
    <2>1. file'.live \in Good /\ file'.tmp \in Good
      BY <1>6, <1>f, TextsKept DEF Replace
    <2>2. CASE a \in Handlers
      BY <1>6, <1>r, <2>1, <2>2, UniqueFrame DEF Replace, TypeInv, TypeOK
    <2>3. CASE a \notin Handlers
      BY <1>6, <1>3, <2>1, <2>3 DEF Replace
    <2>4. QED
      BY <2>2, <2>3
  <1>7. ASSUME NEW a \in Actors, SaveFails(a) PROVE UniqueInv'
    <2>1. file'.live \in Good /\ file'.tmp \in Good
      BY <1>7, <1>f, TextsKept DEF SaveFails
    <2>2. QED
      BY <1>7, <1>3, <2>1 DEF SaveFails
  <1>8. ASSUME NEW h \in Handlers, DockerRestart(h) PROVE UniqueInv'
    BY <1>8, <1>f, <1>r, UniqueFrame DEF DockerRestart, TypeInv, TypeOK
  <1>9. ASSUME NEW h \in Handlers, RestartFails(h) \/ Success(h) \/ WaitFails(h) PROVE UniqueInv'
    <2>1. h \in Actors /\ file' = file /\ \E told : End(h, told)
      BY <1>9 DEF Actors, RestartFails, Success, WaitFails
    <2>2. QED
      BY <1>3, <1>f, <2>1
  <1>10. CASE WizardCrash
    <2>1. file'.live \in Good /\ file'.tmp \in Good
      BY <1>10, <1>f DEF WizardCrash, Closed
    <2>2. Unambiguous({})
      BY DEF Unambiguous
    <2>3. \A a \in Actors : pc'[a] \in {"opened", "filled"} => a \notin Handlers
      BY <1>10 DEF WizardCrash
    <2>4. QED
      BY <1>10, <1>r, <2>1, <2>2, <2>3, UniqueFrame DEF WizardCrash
  <1>11. ASSUME NEW a \in Actors, NEW c \in Codes, StartAccept(a, c) PROVE UniqueInv'
    BY <1>2, <1>11 DEF StartAccept, TypeInv, TypeOK
  <1>12. ASSUME NEW a \in Actors, NEW o \in Onions, StartRemove(a, o) PROVE UniqueInv'
    BY <1>2, <1>12 DEF StartRemove, TypeInv, TypeOK
  <1>13. ASSUME NEW a \in Actors, Refuse(a) PROVE UniqueInv'
    BY <1>3, <1>f, <1>13 DEF Refuse
  <1>14. CASE Tick \/ Render \/ BecomeHealthy \/ SynapseRestart \/ UNCHANGED vars
    BY <1>1, <1>14 DEF Tick, Render, BecomeHealthy, SynapseRestart, vars
  <1>15. QED
    BY <1>4, <1>5, <1>6, <1>7, <1>8, <1>9, <1>10, <1>11, <1>12, <1>13, <1>14 DEF Next, ActorStep

\* pairings.json never lists a peer or a code twice, whatever handlers and CLI
\* processes interleave and however they mix up their temporary file.
THEOREM EntriesStayUnique == Spec => []UniqueEntries
  <1>1. UniqueInv => UniqueEntries
    BY DEF UniqueInv, UniqueEntries, Good, Pairings
  <1>2. QED
    BY <1>1, Typed, InitUnique, StepUnique, PTL DEF Spec

(***************************************************************************)
(* No silent drift.  The property is inductive as it stands: whoever       *)
(* changes what readers see has either yet to restart Synapse, or leaves   *)
(* less than a success behind.                                             *)
(***************************************************************************)
LEMMA StepDrift == TypeInv /\ NoSilentDrift /\ [Next]_vars => NoSilentDrift'
  <1> SUFFICES ASSUME TypeInv, NoSilentDrift, [Next]_vars PROVE NoSilentDrift'
    OBVIOUS
  <1> USE DEF Unfinished
  <1>p. pc \in [Actors -> {"idle", "loaded", "opened", "filled", "restart", "wait"}]
    BY DEF TypeInv, TypeOK
  <1>1. ASSUME file'.live = file.live, rendered' = rendered, synapse' \in {synapse, "booting"},
               notice => notice',
               \A a \in Actors : Unfinished(a) => notice' \/ Unfinished(a)' \/ synapse' = "booting"
        PROVE  NoSilentDrift'
    BY <1>1 DEF NoSilentDrift, Drift, Pairings
  <1>2. ASSUME notice' PROVE NoSilentDrift'
    BY <1>2 DEF NoSilentDrift
  <1>3. ASSUME NEW a \in Actors, Enter(a) PROVE NoSilentDrift'
    BY <1>1, <1>3, <1>p DEF Enter
  <1>4. ASSUME NEW a \in Actors, Refuse(a) PROVE NoSilentDrift'
    BY <1>1, <1>4, <1>p DEF Refuse, End
  <1>5. ASSUME NEW a \in Actors, OpenTmp(a) PROVE NoSilentDrift'
    BY <1>1, <1>5, <1>p DEF OpenTmp, Opened
  <1>6. ASSUME NEW a \in Actors, FillTmp(a) \/ Replace(a) PROVE NoSilentDrift'
    <2>1. notice' \/ Unfinished(a)'
      BY <1>6, <1>p DEF FillTmp, Replace, End
    <2>2. QED
      BY <2>1 DEF NoSilentDrift
  <1>7. ASSUME NEW a \in Actors, SaveFails(a) PROVE NoSilentDrift'
    BY <1>2, <1>7 DEF SaveFails, End
  <1>8. ASSUME NEW h \in Handlers, DockerRestart(h) PROVE NoSilentDrift'
    BY <1>1, <1>8, <1>p DEF DockerRestart
  <1>9. ASSUME NEW h \in Handlers, RestartFails(h) \/ WaitFails(h) PROVE NoSilentDrift'
    BY <1>2, <1>9 DEF RestartFails, WaitFails, End
  <1>10. ASSUME NEW h \in Handlers, Success(h) PROVE NoSilentDrift'
    BY <1>1, <1>10, <1>p DEF Success, End
  <1>11. CASE Render
    <2>1. ~Drift'
      BY <1>11 DEF Render, Drift, Pairings
    <2>2. QED
      BY <2>1 DEF NoSilentDrift
  <1>12. CASE BecomeHealthy
    BY <1>12 DEF BecomeHealthy, NoSilentDrift, Drift, Pairings
  <1>13. CASE Tick \/ SynapseRestart \/ UNCHANGED vars
    BY <1>1, <1>13 DEF Tick, SynapseRestart, vars
  <1>14. CASE WizardCrash
    BY <1>2, <1>14 DEF WizardCrash
  <1>15. QED
    BY <1>3, <1>4, <1>5, <1>6, <1>7, <1>8, <1>9, <1>10, <1>11, <1>12, <1>13, <1>14
    DEF Next, ActorStep, StartAccept, StartRemove

\* Synapse's whitelist differs from pairings.json only while a writer is not done
\* or after the operator got less than a success.
THEOREM DriftIsNeverSilent == Spec => []NoSilentDrift
  <1>1. Init => NoSilentDrift
    BY DEF Init, NoFile, NoSilentDrift, Drift, Pairings, Parsed, OnionsOf, Unreadable
  <1>2. QED
    BY <1>1, Typed, StepDrift, PTL DEF Spec

(***************************************************************************)
(* Success.  A request that reports it has seen Synapse healthy, so the    *)
(* absence of a silent drift speaks of the file and the whitelist then.    *)
(***************************************************************************)
\* A request ends without leaving a notice behind in no other way.
LEMMA OnlySuccessIsSilent ==
    ASSUME TypeInv, [Next]_vars, NEW h \in Handlers,
           pc[h] \in {"restart", "wait"}, pc'[h] = "idle", ~notice'
    PROVE  Success(h)
  <1>h. h \in Actors
    BY DEF Actors
  <1>p. pc \in [Actors -> {"idle", "loaded", "opened", "filled", "restart", "wait"}]
    BY DEF TypeInv, TypeOK
  <1>1. ~(Tick \/ Render \/ BecomeHealthy \/ SynapseRestart \/ UNCHANGED vars)
    BY DEF Tick, Render, BecomeHealthy, SynapseRestart, vars
  <1>2. ~WizardCrash
    BY DEF WizardCrash
  <1>3. ASSUME NEW a \in Actors
        PROVE  /\ \A c \in Codes : ~StartAccept(a, c)
               /\ \A o \in Onions : ~StartRemove(a, o)
               /\ ~ActorStep(a)
    <2>1. ~Enter(a)
      BY <1>h, <1>p DEF Enter
    <2>2. ~Refuse(a) /\ ~OpenTmp(a) /\ ~FillTmp(a) /\ ~SaveFails(a)
      BY <1>h, <1>p DEF Refuse, OpenTmp, FillTmp, SaveFails, End
    <2>3. ~Replace(a)
      BY <1>h, <1>p DEF Replace, End
    <2>4. QED
      BY <2>1, <2>2, <2>3 DEF StartAccept, StartRemove, ActorStep
  <1>4. ASSUME NEW g \in Handlers
        PROVE  ~DockerRestart(g) /\ ~RestartFails(g) /\ ~WaitFails(g) /\ (g # h => ~Success(g))
    BY <1>h, <1>p DEF DockerRestart, RestartFails, WaitFails, Success, End, Actors
  <1>5. QED
    BY <1>1, <1>2, <1>3, <1>4 DEF Next

\* A success means that federation with the peer is open or closed as asked, unless
\* the file has since come to say otherwise or another change has yet to be applied.
THEOREM SuccessIsApplied == Spec => SuccessMeansApplied
  <1>1. TypeInv /\ NoSilentDrift /\ [Next]_vars =>
          [\A h \in Handlers :
             (pc[h] \in {"restart", "wait"} /\ pc'[h] = "idle" /\ ~notice' /\ InFile(h))
               => (InForce(h) \/ \E a \in Actors : Unfinished(a)')]_vars
    <2> SUFFICES ASSUME TypeInv, NoSilentDrift, [Next]_vars, NEW h \in Handlers,
                        pc[h] \in {"restart", "wait"}, pc'[h] = "idle", ~notice', InFile(h)
                 PROVE  InForce(h) \/ \E a \in Actors : Unfinished(a)'
      OBVIOUS
    <2>1. Success(h)
      BY OnlySuccessIsSilent
    <2>2. synapse = "healthy" /\ ~notice /\ pc[h] = "wait" /\ pc' = [pc EXCEPT ![h] = "idle"]
      BY <2>1 DEF Success, End
    <2>3. CASE ~Drift
      BY <2>3 DEF Drift, InFile, InForce
    <2>4. CASE Drift
      <3>1. PICK a \in Actors : Unfinished(a)
        BY <2>2, <2>4 DEF NoSilentDrift
      <3>2. a # h
        BY <2>2, <3>1 DEF Unfinished
      <3>3. Unfinished(a)'
        BY <2>2, <3>1, <3>2 DEF Unfinished, TypeInv, TypeOK
      <3>4. QED
        BY <3>3
    <2>5. QED
      BY <2>3, <2>4
  <1>2. QED
    BY <1>1, Typed, DriftIsNeverSilent, PTL DEF Spec, SuccessMeansApplied

(***************************************************************************)
(* No lost peer.  An actor whose work met no CLI process's has the file to *)
(* itself: the event loop keeps the other requests out, so what it has     *)
(* read is what is on file, and the temporary file is its own.             *)
(***************************************************************************)
AloneInv ==
    \A a \in Actors :
        /\ AtWork(a) /\ a \in Handlers => loop = a
        /\ a \in met => AtWork(a)
        /\ \A b \in Actors \ {a} : AtWork(a) /\ AtWork(b) => a \in met
        /\ file.at[a] # "closed" => pc[a] = "opened"
        /\ AtWork(a) /\ a \notin met =>
             /\ read[a] = Pairings
             /\ pc[a] = "opened" => file.at[a] = "tmp" /\ file.tmp = Empty
             /\ pc[a] = "filled" => file.tmp = NewEntries(a)

LEMMA InitAlone == Init => AloneInv
  BY DEF Init, NoFile, AloneInv, AtWork

\* Whoever shares the time of its work with another has met a CLI process.
LEMMA OthersRestOrMet ==
    ASSUME AloneInv, NEW a \in Actors, AtWork(a)
    PROVE  \A b \in Actors \ {a} : AtWork(b) => b \in met
  BY DEF AloneInv

\* A step of someone who does not touch what the actors work with.
LEMMA AloneFrame ==
    ASSUME TypeInv, AloneInv, file' = file, loop' = loop, met' = met,
           \A a \in Actors :
              (pc'[a] = pc[a] /\ read'[a] = read[a] /\ task'[a] = task[a])
                \/ (~AtWork(a) /\ ~(AtWork(a)'))
    PROVE  AloneInv'
  <1>1. \A a \in Actors : AtWork(a)' = AtWork(a)
    BY DEF AtWork
  <1>2. ASSUME NEW a \in Actors, AtWork(a)
        PROVE  pc'[a] = pc[a] /\ read'[a] = read[a] /\ NewEntries(a)' = NewEntries(a)
    BY <1>2 DEF NewEntries, Others
  <1>3. \A a \in Actors : pc'[a] \in {"opened", "filled"} => AtWork(a) /\ pc'[a] = pc[a]
    BY <1>1, <1>2 DEF AtWork
  <1>4. \A a \in Actors : file.at[a] # "closed" => pc'[a] = "opened"
    BY <1>2 DEF AloneInv, AtWork
  <1>5. \A a \in Actors : AtWork(a) /\ a \notin met =>
             /\ read'[a] = Pairings
             /\ pc'[a] = "opened" => file.at[a] = "tmp" /\ file.tmp = Empty
             /\ pc'[a] = "filled" => file.tmp = NewEntries(a)'
    BY <1>2 DEF AloneInv
  <1>6. QED
    BY <1>1, <1>4, <1>5 DEF AloneInv, Pairings

\* A step of an actor at work, the others' work as it was: they rest, or have met it.
LEMMA AloneStep ==
    ASSUME TypeInv, AloneInv, NEW a \in Actors, AtWork(a),
           \A b \in Actors \ {a} : pc'[b] = pc[b] /\ (file.at[b] = "closed" => file'.at[b] = "closed"),
           met' = IF AtWork(a)' THEN met ELSE met \ {a},
           AtWork(a)' /\ a \in Handlers => loop' = a,
           \A b \in (Actors \cap Handlers) \ {a} : AtWork(b) => loop' = b,
           file'.at[a] # "closed" => pc'[a] = "opened",
           AtWork(a)' /\ a \notin met =>
             /\ read'[a] = Pairings'
             /\ pc'[a] = "opened" => file'.at[a] = "tmp" /\ file'.tmp = Empty
             /\ pc'[a] = "filled" => file'.tmp = NewEntries(a)'
    PROVE  AloneInv'
  <1>1. \A b \in Actors \ {a} : (AtWork(b)' = AtWork(b)) /\ (AtWork(b) => b \in met)
    BY OthersRestOrMet DEF AtWork
  <1>2. \A b \in Actors \ {a} : b \in met' <=> b \in met
    OBVIOUS
  <1>3. a \in met' <=> a \in met /\ AtWork(a)'
    OBVIOUS
  <1>4. ASSUME NEW b \in Actors
        PROVE  /\ AtWork(b)' /\ b \in Handlers => loop' = b
               /\ b \in met' => AtWork(b)'
               /\ \A c \in Actors \ {b} : AtWork(b)' /\ AtWork(c)' => b \in met'
               /\ file'.at[b] # "closed" => pc'[b] = "opened"
    BY <1>1, <1>2, <1>3 DEF AloneInv
  <1>5. ASSUME NEW b \in Actors, AtWork(b)', b \notin met' PROVE b = a /\ a \notin met
    BY <1>1, <1>2, <1>3, <1>5
  <1>6. QED
    BY <1>4, <1>5 DEF AloneInv

LEMMA StepAlone == TypeInv /\ AloneInv /\ [Next]_vars => AloneInv'
  <1> SUFFICES ASSUME TypeInv, AloneInv, [Next]_vars PROVE AloneInv'
    OBVIOUS
  <1>p. /\ pc \in [Actors -> {"idle", "loaded", "opened", "filled", "restart", "wait"}]
        /\ task \in [Actors -> Task \cup {None}]
        /\ read \in [Actors -> SUBSET Entry]
        /\ file \in File(Actors, SUBSET Entry)
        /\ file.at \in [Actors -> {"closed", "tmp", "live", "gone"}]
    BY DEF TypeInv, TypeOK, File
  <1>h. None \notin Actors
    BY ActorsAssumption
  <1>1. ASSUME NEW a \in Actors, Enter(a), \A b \in Actors \ {a} : task'[b] = task[b]
        PROVE  AloneInv'
    <2>1. /\ pc[a] = "idle" /\ pc' = [pc EXCEPT ![a] = "loaded"]
          /\ read' = [read EXCEPT ![a] = Pairings] /\ file' = file
          /\ met' = IF Meets(a) = {} THEN met ELSE met \cup Meets(a) \cup {a}
      BY <1>1 DEF Enter
    <2>2. \A b \in Actors \ {a} : AtWork(b)' = AtWork(b)
      BY <2>1 DEF AtWork
    <2>3. AtWork(a)' /\ ~AtWork(a) /\ a \notin met /\ file.at[a] = "closed"
      BY <1>p, <2>1 DEF AtWork, AloneInv
    <2>4. \A b \in Actors \ {a} : AtWork(b) => b \in Meets(a)
      <3> SUFFICES ASSUME NEW b \in Actors \ {a}, AtWork(b) PROVE {a, b} \cap Cli # {}
        BY DEF Meets
      <3>1. CASE a \in Handlers /\ b \in Handlers
        BY <1>1, <1>h, <3>1 DEF AloneInv, Enter
      <3>2. QED
        BY <3>1 DEF Actors
    <2>5. \A b \in Actors : b \in met' <=> b \in met \/ b \in Meets(a) \/ (b = a /\ Meets(a) # {})
      BY <2>1
    <2>6. \A b \in Actors : b \in Meets(a) => AtWork(b)
      BY DEF Meets
    <2>7. ASSUME NEW b \in Actors
          PROVE  /\ AtWork(b)' /\ b \in Handlers => loop' = b
                 /\ b \in met' => AtWork(b)'
                 /\ \A c \in Actors \ {b} : AtWork(b)' /\ AtWork(c)' => b \in met'
                 /\ file'.at[b] # "closed" => pc'[b] = "opened"
      <3>1. AtWork(b)' /\ b \in Handlers => loop' = b
        BY <1>1, <1>h, <2>2 DEF AloneInv, Enter
      <3>2. b \in met' => AtWork(b)'
        BY <2>2, <2>3, <2>5, <2>6 DEF AloneInv
      <3>3. ASSUME NEW c \in Actors \ {b}, AtWork(b)', AtWork(c)' PROVE b \in met'
        <4>1. CASE b = a \/ c = a
          BY <2>2, <2>4, <2>5, <3>3, <4>1
        <4>2. CASE b # a /\ c # a
          BY <2>2, <2>5, <3>3, <4>2 DEF AloneInv
        <4>3. QED
          BY <4>1, <4>2
      <3>4. file'.at[b] # "closed" => pc'[b] = "opened"
        BY <2>1, <2>3 DEF AloneInv
      <3>5. QED
        BY <3>1, <3>2, <3>3, <3>4
    <2>8. ASSUME NEW b \in Actors, AtWork(b)', b \notin met'
          PROVE  /\ read'[b] = Pairings'
                 /\ pc'[b] = "opened" => file'.at[b] = "tmp" /\ file'.tmp = Empty
                 /\ pc'[b] = "filled" => file'.tmp = NewEntries(b)'
      <3>1. b = a
        BY <2>2, <2>4, <2>5, <2>8
      <3>2. pc'[b] = "loaded" /\ read'[b] = Pairings /\ Pairings' = Pairings
        BY <1>p, <2>1, <3>1 DEF Pairings
      <3>3. QED
        BY <3>2
    <2>9. QED
      BY <2>7, <2>8 DEF AloneInv
  <1>2. ASSUME NEW a \in Actors, AtWork(a), pc' = [pc EXCEPT ![a] = pc'[a]], ~AtWork(a)',
               met' = met \ {a}, Yield(a), file'.at[a] = "closed",
               \A b \in Actors \ {a} : file.at[b] = "closed" => file'.at[b] = "closed"
        PROVE  AloneInv'
    <2>1. \A b \in (Actors \cap Handlers) \ {a} : AtWork(b) => loop' = b
      BY <1>2 DEF AloneInv, Yield
    <2>2. QED
      BY <1>2, <1>p, <2>1, AloneStep
  <1>3. ASSUME NEW a \in Actors, Refuse(a) PROVE AloneInv'
    <2>1. AtWork(a) /\ file.at[a] = "closed" /\ file' = file
      BY <1>3 DEF Refuse, AloneInv, AtWork
    <2>2. pc' = [pc EXCEPT ![a] = "idle"] /\ met' = met \ {a} /\ Yield(a)
      BY <1>3 DEF Refuse, End
    <2>3. QED
      BY <1>2, <1>p, <2>1, <2>2 DEF AtWork
  <1>4. ASSUME NEW a \in Actors, OpenTmp(a) PROVE AloneInv'
    <2>1. AtWork(a) /\ pc' = [pc EXCEPT ![a] = "opened"] /\ read' = read /\ loop' = loop /\ met' = met
      BY <1>4 DEF OpenTmp, AtWork
    <2>2. file'.live = file.live /\ file'.tmp = Empty /\ file'.at = [file.at EXCEPT ![a] = "tmp"]
      BY <1>4 DEF OpenTmp, Opened
    <2>3. AtWork(a)' /\ pc'[a] = "opened"
      BY <1>p, <2>1 DEF AtWork
    <2>4. a \notin met => read'[a] = Pairings'
      BY <2>1, <2>2 DEF AloneInv, Pairings
    <2>5. \A b \in Actors : AtWork(b) /\ b \in Handlers => loop' = b
      BY <2>1 DEF AloneInv
    <2>6. QED
      BY <1>p, <2>1, <2>2, <2>3, <2>4, <2>5, AloneStep
  <1>5. ASSUME NEW a \in Actors, FillTmp(a) PROVE AloneInv'
    <2>1. /\ AtWork(a) /\ pc' = [pc EXCEPT ![a] = "filled"] /\ UNCHANGED <<read, task, loop, met>>
      BY <1>5 DEF FillTmp, AtWork
    <2>2. file'.at = [file.at EXCEPT ![a] = "closed"]
      BY <1>5, <1>p DEF FillTmp, Filled
    <2>3. NewEntries(a)' = NewEntries(a)
      BY <2>1 DEF NewEntries, Others
    <2>4. ASSUME a \notin met
          PROVE  read'[a] = Pairings' /\ file'.tmp = NewEntries(a)'
      <3>1. file.at[a] = "tmp" /\ file.tmp = Empty /\ read[a] = Pairings
        BY <1>5, <2>1, <2>4 DEF FillTmp, AloneInv
      <3>2. file'.live = file.live /\ file'.tmp = NewEntries(a)
        BY <1>5, <3>1 DEF FillTmp, Filled, Over
      <3>3. QED
        BY <2>1, <2>3, <3>1, <3>2 DEF Pairings
    <2>5. AtWork(a)' /\ pc'[a] = "filled"
      BY <1>p, <2>1 DEF AtWork
    <2>6. \A b \in Actors : AtWork(b) /\ b \in Handlers => loop' = b
      BY <2>1 DEF AloneInv
    <2>7. QED
      BY <1>p, <2>1, <2>2, <2>4, <2>5, <2>6, AloneStep
  <1>6. ASSUME NEW a \in Actors, Replace(a) PROVE AloneInv'
    <2>1. /\ AtWork(a) /\ Yield(a) /\ met' = met \ {a}
          /\ pc' = [pc EXCEPT ![a] = pc'[a]] /\ pc'[a] \in {"restart", "idle"}
      BY <1>6, <1>p DEF Replace, End, AtWork
    <2>2. file.at[a] = "closed"
      BY <1>6 DEF Replace, AloneInv
    <2>3. \A b \in Actors : file.at[b] = "closed" => file'.at[b] = "closed"
      BY <1>6, <1>p DEF Replace, Replaced
    <2>4. QED
      BY <1>2, <2>1, <2>2, <2>3 DEF AtWork
  <1>7. ASSUME NEW a \in Actors, SaveFails(a) PROVE AloneInv'
    <2>1. AtWork(a) /\ pc' = [pc EXCEPT ![a] = "idle"] /\ met' = met \ {a} /\ Yield(a)
      BY <1>7 DEF SaveFails, End, AtWork
    <2>2. \A b \in Actors : file.at[b] = "closed" \/ b = a => file'.at[b] = "closed"
      BY <1>7, <1>p DEF SaveFails, Closed
    <2>3. QED
      BY <1>2, <1>p, <2>1, <2>2 DEF AtWork
  <1>8. ASSUME NEW h \in Handlers, DockerRestart(h) PROVE AloneInv'
    BY <1>8, <1>p, AloneFrame DEF DockerRestart, AtWork, Actors
  <1>9. ASSUME NEW h \in Handlers, RestartFails(h) \/ Success(h) \/ WaitFails(h) PROVE AloneInv'
    <2>1. pc[h] \in {"restart", "wait"} /\ file' = file /\ loop' = loop /\ \E told : End(h, told)
      BY <1>9 DEF RestartFails, Success, WaitFails
    <2>2. h \in Actors /\ h \notin met
      BY <2>1 DEF Actors, AloneInv, AtWork
    <2>3. QED
      BY <1>p, <2>1, <2>2, AloneFrame DEF End, AtWork
  <1>10. CASE WizardCrash
    <2>1. /\ \A a \in Actors \cap Handlers :
               ~AtWork(a)' /\ file'.at[a] = "closed" /\ a \notin met'
          /\ \A a \in Actors \ Handlers :
               /\ UNCHANGED <<pc[a], read[a], task[a]>>
               /\ file'.at[a] = file.at[a]
               /\ (a \in met' <=> a \in met)
      BY <1>10, <1>p DEF WizardCrash, Closed, AtWork
    <2>2. file'.live = file.live /\ file'.tmp = file.tmp
      BY <1>10 DEF WizardCrash, Closed
    <2>3. ASSUME NEW a \in Actors, a \notin Handlers
          PROVE  (AtWork(a)' <=> AtWork(a)) /\ NewEntries(a)' = NewEntries(a)
      <3>1. pc'[a] = pc[a] /\ read'[a] = read[a] /\ task'[a] = task[a]
        BY <2>1, <2>3
      <3>2. QED
        BY <3>1 DEF AtWork, NewEntries, Others
    <2>4. ASSUME NEW a \in Actors
          PROVE  /\ AtWork(a)' /\ a \in Handlers => loop' = a
                 /\ a \in met' => AtWork(a)'
                 /\ \A b \in Actors \ {a} : AtWork(a)' /\ AtWork(b)' => a \in met'
                 /\ file'.at[a] # "closed" => pc'[a] = "opened"
      BY <2>1, <2>3 DEF AloneInv
    <2>5. ASSUME NEW a \in Actors, AtWork(a)', a \notin met'
          PROVE  /\ read'[a] = Pairings'
                 /\ pc'[a] = "opened" => file'.at[a] = "tmp" /\ file'.tmp = Empty
                 /\ pc'[a] = "filled" => file'.tmp = NewEntries(a)'
      <3>1. a \notin Handlers /\ AtWork(a) /\ a \notin met
        BY <2>1, <2>3, <2>5
      <3>2. read[a] = Pairings /\ Pairings' = Pairings
        BY <2>2, <3>1 DEF AloneInv, Pairings
      <3>3. QED
        BY <2>1, <2>2, <2>3, <3>1, <3>2 DEF AloneInv
    <2>6. QED
      BY <2>4, <2>5 DEF AloneInv
  <1>11. ASSUME NEW a \in Actors, NEW c \in Codes, StartAccept(a, c) PROVE AloneInv'
    BY <1>1, <1>11, <1>p DEF StartAccept
  <1>12. ASSUME NEW a \in Actors, NEW o \in Onions, StartRemove(a, o) PROVE AloneInv'
    BY <1>1, <1>12, <1>p DEF StartRemove
  <1>13. CASE Tick \/ Render \/ BecomeHealthy \/ SynapseRestart \/ UNCHANGED vars
    BY <1>13, AloneFrame DEF Tick, Render, BecomeHealthy, SynapseRestart, vars
  <1>14. QED
    BY <1>3, <1>4, <1>5, <1>6, <1>7, <1>8, <1>9, <1>10, <1>11, <1>12, <1>13 DEF Next, ActorStep

\* Only an actor that goes on from its temporary file changes what readers see, and
\* one that has met nobody renames its own text into place.
LEMMA OnlyWritersWrite ==
    ASSUME TypeInv, AloneInv, [Next]_vars, file'.live # file.live
    PROVE  \E a \in Actors : Writes(a) /\ (a \in met \/ file'.live = NewEntries(a))
  <1>p. pc \in [Actors -> {"idle", "loaded", "opened", "filled", "restart", "wait"}]
    BY DEF TypeInv, TypeOK
  <1>1. PICK a \in Actors : FillTmp(a) \/ Replace(a)
    <2>1. ~(Tick \/ Render \/ BecomeHealthy \/ SynapseRestart \/ WizardCrash \/ UNCHANGED vars)
      BY DEF Tick, Render, BecomeHealthy, SynapseRestart, WizardCrash, Closed, vars
    <2>2. ASSUME NEW a \in Actors
          PROVE  /\ \A c \in Codes : ~StartAccept(a, c)
                 /\ \A o \in Onions : ~StartRemove(a, o)
                 /\ ~Refuse(a) /\ ~OpenTmp(a) /\ ~SaveFails(a)
      <3>1. ~Enter(a) /\ ~Refuse(a) /\ ~OpenTmp(a)
        BY DEF Enter, Refuse, OpenTmp, Opened
      <3>2. SaveFails(a) => file' = Closed(file, {a})
        BY DEF SaveFails
      <3>3. Closed(file, {a}).live = file.live
        BY DEF Closed
      <3>4. QED
        BY <3>1, <3>2, <3>3 DEF StartAccept, StartRemove
    <2>3. \A h \in Handlers :
            ~DockerRestart(h) /\ ~RestartFails(h) /\ ~Success(h) /\ ~WaitFails(h)
      BY DEF DockerRestart, RestartFails, Success, WaitFails
    <2>4. QED
      BY <2>1, <2>2, <2>3 DEF Next, ActorStep
  <1>2. AtWork(a) /\ Writes(a)
    BY <1>p, <1>1 DEF FillTmp, Replace, End, AtWork, Writes
  <1>3. CASE FillTmp(a) /\ a \notin met
    <2>1. file.at[a] = "tmp"
      BY <1>2, <1>3 DEF FillTmp, AloneInv
    <2>2. QED
      BY <1>3, <2>1 DEF FillTmp, Filled
  <1>4. CASE Replace(a) /\ a \notin met
    BY <1>2, <1>4 DEF Replace, Replaced, AloneInv
  <1>5. QED
    BY <1>1, <1>2, <1>3, <1>4

\* What NoLostPeer says of one step.
LEMMA StepLosesNoPeer ==
    ASSUME TypeInv, AloneInv, [Next]_vars, NEW e \in Pairings \ Parsed(file'.live)
    PROVE  \E a \in Actors : Writes(a) /\ (task[a].onion = e.onion \/ a \in met)
  <1>1. PICK a \in Actors : Writes(a) /\ (a \in met \/ file'.live = NewEntries(a))
    BY OnlyWritersWrite DEF Pairings
  <1>2. CASE a \notin met
    <2>1. AtWork(a) /\ read[a] = Pairings /\ file'.live = NewEntries(a)
      BY <1>1, <1>2 DEF AloneInv, AtWork, Writes
    <2>2. Parsed(file'.live) = NewEntries(a)
      BY <2>1, NewEntriesTyped, FileAssumption DEF Parsed
    <2>3. e \notin Others(a)
      BY <2>2 DEF NewEntries
    <2>4. QED
      BY <1>1, <2>1, <2>3 DEF Others
  <1>3. QED
    BY <1>1, <1>2

LEMMA Alone == Spec => []AloneInv
  BY InitAlone, StepAlone, Typed, PTL DEF Spec

\* For any handlers and CLI processes, a peer leaves the file only because someone
\* removes or re-pairs it, or because the writer's work overlapped a CLI process's.
THEOREM LossTakesAnOverlap == Spec => NoLostPeer
  <1>1. TypeInv /\ AloneInv /\ [Next]_vars =>
          [\A e \in Pairings \ Parsed(file'.live) :
             \E a \in Actors : Writes(a) /\ (task[a].onion = e.onion \/ a \in met)]_vars
    BY StepLosesNoPeer
  <1>2. QED
    BY <1>1, Typed, Alone, PTL DEF Spec, NoLostPeer

NoCli == Cli = {}
OneAtWork == \A a, b \in Actors : AtWork(a) /\ AtWork(b) => a = b
OnlyOnRequest ==
    [][\A e \in Pairings \ Parsed(file'.live) :
         \E a \in Actors : Writes(a) /\ task[a].onion = e.onion]_vars

\* Without a CLI process no two are ever at work at once, and a peer leaves the file
\* only at the request of someone who removes or re-pairs that peer.
THEOREM WizardLosesNoPeer == NoCli /\ Spec => []OneAtWork /\ OnlyOnRequest
  <1> SUFFICES ASSUME NoCli PROVE Spec => []OneAtWork /\ OnlyOnRequest
    OBVIOUS
  <1> DEFINE Unmet == met = {}
  <1>1. Init => Unmet
    BY DEF Init
  <1>2. Unmet /\ [Next]_vars => Unmet'
    <2> SUFFICES ASSUME Unmet, [Next]_vars PROVE met' = {}
      OBVIOUS
    <2>1. \A a \in Actors : Enter(a) => met' = {}
      BY DEF NoCli, Enter, Meets
    <2>2. \A a \in Actors : ActorStep(a) => met' = {}
      BY DEF ActorStep, Refuse, OpenTmp, FillTmp, Replace, SaveFails, End
    <2>3. \A h \in Handlers :
            DockerRestart(h) \/ RestartFails(h) \/ Success(h) \/ WaitFails(h) => met' = {}
      BY DEF DockerRestart, RestartFails, Success, WaitFails, End
    <2>4. Tick \/ Render \/ BecomeHealthy \/ SynapseRestart \/ WizardCrash \/ UNCHANGED vars
            => met' = {}
      BY DEF Tick, Render, BecomeHealthy, SynapseRestart, WizardCrash, vars
    <2>5. QED
      BY <2>1, <2>2, <2>3, <2>4 DEF Next, StartAccept, StartRemove
  <1>3. AloneInv /\ Unmet => OneAtWork
    BY DEF AloneInv, OneAtWork
  <1>4. TypeInv /\ AloneInv /\ Unmet /\ [Next]_vars =>
          [\A e \in Pairings \ Parsed(file'.live) :
             \E a \in Actors : Writes(a) /\ task[a].onion = e.onion]_vars
    BY StepLosesNoPeer
  <1>5. QED
    BY <1>1, <1>2, <1>3, <1>4, Typed, Alone, PTL DEF Spec, OnlyOnRequest
=============================================================================
