--------------------------- MODULE McpTokenProofs ---------------------------
(***************************************************************************)
(* Theorems of McpToken, for any rotations, checks, tokens and times.      *)
(***************************************************************************)
EXTENDS McpToken, TmpRenameProofs

Rotation == [pc : {"idle", "stash", "prevOpen", "mint", "opened", "filled"},
             stash : {Absent} \cup Tokens, new : {Absent} \cup Tokens]
Check == [pc : {"idle", "age", "prev", "text", "accepted"}, offered : {Absent} \cup Tokens,
          live : Unreadable \cup Tokens, start : 0..MaxTime, good : BOOLEAN, dead : SUBSET Tokens]
PrevFile == [text : {Absent, Empty} \cup Tokens, mtime : 0..MaxTime, open : SUBSET Rotators]

LEMMA Types == TypeOK <=> /\ now \in 0..MaxTime
                          /\ file \in File(Rotators, Tokens)
                          /\ prev \in PrevFile
                          /\ drawn \in SUBSET Tokens
                          /\ rot \in [Rotators -> Rotation]
                          /\ chk \in [Checks -> Check]
                          /\ retired \in [Tokens -> 0..Never]
                          /\ revoked \in SUBSET Tokens
                          /\ met \in BOOLEAN /\ cut \in SUBSET Checks
  BY DEF TypeOK, PrevFile, Rotation, Check

CheckStep(c) ==
    CheckLive(c) \/ CheckAge(c) \/ CheckPrev(c) \/ CheckText(c) \/ CheckBreaks(c) \/ CheckEnds(c)

\* A rotation at work on its new token has one, and one at work on .prev a stash.
StageInv ==
    \A r \in Rotators : /\ rot[r].pc \in {"opened", "filled"} => rot[r].new \in Tokens
                        /\ rot[r].pc \in {"stash", "prevOpen"} => rot[r].stash \in Tokens
TypeInv == TypeOK /\ StageInv

LEMMA RestingTyped == Resting \in Rotation /\ NoPrev \in PrevFile /\ NoCheck \in Check
  BY TimeAssumption DEF Resting, Rotation, NoPrev, PrevFile, NoCheck, Check, Unreadable

LEMMA InitTyped == Init => TypeInv
  <1> SUFFICES ASSUME Init PROVE TypeInv
    OBVIOUS
  <1>1. file \in File(Rotators, Tokens)
    BY TokenAssumption DEF Init, NoFile, File, Unreadable
  <1>2. rot \in [Rotators -> Rotation] /\ chk \in [Checks -> Check] /\ prev \in PrevFile
    BY RestingTyped DEF Init
  <1>3. now \in 0..MaxTime /\ retired \in [Tokens -> 0..Never]
    BY TimeAssumption DEF Init, Never
  <1>4. StageInv
    BY DEF Init, Resting, StageInv
  <1>5. QED
    BY <1>1, <1>2, <1>3, <1>4, Types, TokenAssumption DEF Init, TypeInv

\* A stage of one rotation, with a new record that is well formed.
LEMMA RotTyped ==
    ASSUME TypeInv, NEW r \in Rotators, NEW x \in Rotation, rot' = [rot EXCEPT ![r] = x],
           x.pc \in {"opened", "filled"} => x.new \in Tokens,
           x.pc \in {"stash", "prevOpen"} => x.stash \in Tokens
    PROVE  rot' \in [Rotators -> Rotation] /\ StageInv'
  BY Types DEF TypeInv, StageInv

LEMMA RetireTyped ==
    ASSUME TypeInv, Retire
    PROVE  retired' \in [Tokens -> 0..Never]
  BY Types, TimeAssumption DEF TypeInv, Retire, Never

LEMMA StepTyped ==
    TypeInv /\ [Next]_vars /\ met' \in BOOLEAN /\ cut' \in SUBSET Checks => TypeInv'
  <1> SUFFICES ASSUME TypeInv, [Next]_vars, met' \in BOOLEAN, cut' \in SUBSET Checks
               PROVE  TypeInv'
    OBVIOUS
  <1>t. /\ now \in 0..MaxTime /\ file \in File(Rotators, Tokens) /\ prev \in PrevFile
        /\ drawn \in SUBSET Tokens /\ rot \in [Rotators -> Rotation] /\ chk \in [Checks -> Check]
        /\ retired \in [Tokens -> 0..Never] /\ revoked \in SUBSET Tokens /\ StageInv
    BY Types DEF TypeInv
  <1>s. ASSUME /\ now' \in 0..MaxTime /\ file' \in File(Rotators, Tokens) /\ prev' \in PrevFile
               /\ drawn' \in SUBSET Tokens /\ rot' \in [Rotators -> Rotation]
               /\ chk' \in [Checks -> Check] /\ retired' \in [Tokens -> 0..Never]
               /\ revoked' \in SUBSET Tokens /\ StageInv'
        PROVE  TypeInv'
    BY <1>s DEF TypeInv, TypeOK, PrevFile, Rotation, Check
  <1>1. CASE Tick
    BY <1>1, <1>s, <1>t, TimeAssumption DEF Tick, StageInv
  <1>2. ASSUME NEW r \in Rotators, ReadLive(r) PROVE TypeInv'
    <2> DEFINE x == [pc |-> "stash", stash |-> file.live, new |-> Absent]
    <2>1. x \in Rotation /\ x.pc = "stash" /\ x.stash \in Tokens /\ rot' = [rot EXCEPT ![r] = x]
      BY <1>2 DEF ReadLive, Rotation
    <2> HIDE DEF x
    <2>2. rot' \in [Rotators -> Rotation] /\ StageInv'
      BY <2>1, RotTyped
    <2>3. QED
      BY <1>2, <1>s, <1>t, <2>2 DEF ReadLive
  <1>3. ASSUME NEW r \in Rotators, NothingToStash(r) PROVE TypeInv'
    <2> DEFINE x == [pc |-> "mint", stash |-> Absent, new |-> Absent]
    <2>1. x \in Rotation /\ x.pc = "mint" /\ rot' = [rot EXCEPT ![r] = x]
      BY <1>3 DEF NothingToStash, Rotation
    <2> HIDE DEF x
    <2>2. rot' \in [Rotators -> Rotation] /\ StageInv'
      BY <2>1, RotTyped
    <2>3. QED
      BY <1>3, <1>s, <1>t, <2>2 DEF NothingToStash
  <1>4. ASSUME NEW r \in Rotators, OpenPrev(r) PROVE TypeInv'
    <2> DEFINE x == [rot[r] EXCEPT !.pc = "prevOpen"]
    <2>1. x \in Rotation /\ x.pc = "prevOpen" /\ x.stash \in Tokens /\ rot' = [rot EXCEPT ![r] = x]
      BY <1>4, <1>t DEF OpenPrev, Rotation, StageInv
    <2> HIDE DEF x
    <2>2. rot' \in [Rotators -> Rotation] /\ StageInv'
      BY <2>1, RotTyped
    <2>3. prev' \in PrevFile
      BY <1>4, <1>t DEF OpenPrev, PrevFile
    <2>4. QED
      BY <1>4, <1>s, <1>t, <2>2, <2>3 DEF OpenPrev
  <1>5. ASSUME NEW r \in Rotators, FillPrev(r) PROVE TypeInv'
    <2> DEFINE x == [rot[r] EXCEPT !.pc = "mint"]
    <2>1. x \in Rotation /\ x.pc = "mint" /\ rot' = [rot EXCEPT ![r] = x]
      BY <1>5, <1>t DEF FillPrev, Rotation
    <2> HIDE DEF x
    <2>2. rot' \in [Rotators -> Rotation] /\ StageInv'
      BY <2>1, RotTyped
    <2>3. prev' \in PrevFile
      BY <1>5, <1>t DEF FillPrev, PrevFile, StageInv
    <2>4. QED
      BY <1>5, <1>s, <1>t, <2>2, <2>3 DEF FillPrev
  <1>6. ASSUME NEW r \in Rotators, NEW t \in Tokens, OpenTmp(r, t) PROVE TypeInv'
    <2> DEFINE x == [rot[r] EXCEPT !.pc = "opened", !.new = t]
    <2>1. x \in Rotation /\ x.pc = "opened" /\ x.new = t /\ rot' = [rot EXCEPT ![r] = x]
      BY <1>6, <1>t DEF OpenTmp, Rotation
    <2> HIDE DEF x
    <2>2. rot' \in [Rotators -> Rotation] /\ StageInv'
      BY <2>1, RotTyped
    <2>3. file' \in File(Rotators, Tokens)
      BY <1>6, <1>t, FileTyping DEF OpenTmp
    <2>4. QED
      BY <1>6, <1>s, <1>t, <2>2, <2>3 DEF OpenTmp
  <1>7. ASSUME NEW r \in Rotators, FillTmp(r) PROVE TypeInv'
    <2> DEFINE x == [rot[r] EXCEPT !.pc = "filled"]
    <2>1. /\ x \in Rotation /\ x.pc = "filled" /\ x.new = rot[r].new
          /\ rot[r].new \in Tokens /\ rot' = [rot EXCEPT ![r] = x]
      BY <1>7, <1>t DEF FillTmp, Rotation, StageInv
    <2> HIDE DEF x
    <2>2. rot' \in [Rotators -> Rotation] /\ StageInv'
      BY <2>1, RotTyped
    <2>3. file' \in File(Rotators, Tokens)
      BY <1>7, <1>t, <2>1, FileTyping DEF FillTmp
    <2>4. QED
      BY <1>7, <1>s, <1>t, <2>2, <2>3, RetireTyped DEF FillTmp
  <1>r. ASSUME NEW r \in Rotators, rot' = [rot EXCEPT ![r] = Resting]
        PROVE  rot' \in [Rotators -> Rotation] /\ StageInv'
    BY <1>r, RestingTyped, RotTyped DEF Resting
  <1>8. ASSUME NEW r \in Rotators, Replace(r) PROVE TypeInv'
    <2>1. file' \in File(Rotators, Tokens)
      BY <1>8, <1>t, FileTyping DEF Replace
    <2>2. QED
      BY <1>8, <1>r, <1>s, <1>t, <2>1, RetireTyped DEF Replace
  <1>9. ASSUME NEW r \in Rotators, RotationFails(r) PROVE TypeInv'
    <2>1. file' \in File(Rotators, Tokens)
      BY <1>9, <1>t, FileTyping DEF RotationFails
    <2>2. prev' \in PrevFile
      BY <1>9, <1>t DEF RotationFails, PrevFile
    <2>3. QED
      BY <1>9, <1>r, <1>s, <1>t, <2>1, <2>2 DEF RotationFails
  <1>10. CASE Revoke
    <2>1. prev' \in PrevFile /\ revoked' \in SUBSET Tokens
      BY <1>10, <1>t, RestingTyped DEF Revoke
    <2>2. QED
      BY <1>10, <1>s, <1>t, <2>1 DEF Revoke, StageInv
  <1>11. CASE WizardCrash
    <2>1. file' \in File(Rotators, Tokens)
      BY <1>11, <1>t DEF WizardCrash, Closed, File
    <2>2. prev' \in PrevFile
      BY <1>11, <1>t DEF WizardCrash, PrevFile
    <2>3. rot' \in [Rotators -> Rotation] /\ StageInv'
      BY <1>11, RestingTyped DEF WizardCrash, StageInv, Resting
    <2>4. QED
      BY <1>11, <1>s, <1>t, <2>1, <2>2, <2>3 DEF WizardCrash
  <1>12. ASSUME NEW c \in Checks, CheckStep(c)
         PROVE  TypeInv'
    <2>1. UNCHANGED <<now, file, prev, drawn, rot, retired, revoked>>
      BY <1>12 DEF CheckStep, CheckLive, CheckAge, CheckPrev, CheckText, CheckBreaks, CheckEnds
    <2>3. ASSUME CheckLive(c) PROVE chk' \in [Checks -> Check]
      <3>1. PICK t \in Known : chk' = [chk EXCEPT ![c] = [pc |-> "age", offered |-> t,
                                        live |-> file.live, start |-> now, good |-> GoodNow(t),
                                        dead |-> revoked]]
        BY <2>3 DEF CheckLive
      <3>2. t \in Tokens /\ file.live \in Unreadable \cup Tokens
        BY <1>t DEF Known, File
      <3>3. GoodNow(t) \in BOOLEAN
        BY DEF GoodNow
      <3>4. [pc |-> "age", offered |-> t, live |-> file.live, start |-> now, good |-> GoodNow(t),
             dead |-> revoked] \in Check
        BY <1>t, <3>2, <3>3 DEF Check
      <3>5. QED
        BY <1>t, <3>1, <3>4
    <2>4. ASSUME NEW accepted, Answer(c, accepted) PROVE chk' \in [Checks -> Check]
      <3>1. [chk[c] EXCEPT !.pc = "accepted"] \in Check
        BY <1>t DEF Check
      <3>2. QED
        BY <1>t, <2>4, <3>1, RestingTyped DEF Answer
    <2>5. ASSUME CheckAge(c) PROVE chk' \in [Checks -> Check]
      <3>1. [chk[c] EXCEPT !.pc = "prev"] \in Check
        BY <1>t DEF Check
      <3>2. QED
        BY <1>t, <2>4, <2>5, <3>1 DEF CheckAge
    <2>6. ASSUME CheckPrev(c) \/ CheckText(c) PROVE chk' \in [Checks -> Check]
      <3>1. [chk[c] EXCEPT !.pc = "text"] \in Check
        BY <1>t DEF Check
      <3>2. QED
        BY <1>t, <2>4, <2>6, <3>1 DEF CheckPrev, CheckText
    <2>7. ASSUME CheckBreaks(c) \/ CheckEnds(c) PROVE chk' \in [Checks -> Check]
      BY <2>7, <1>t, RestingTyped DEF CheckBreaks, CheckEnds
    <2>8. chk' \in [Checks -> Check]
      BY <1>12, <2>3, <2>5, <2>6, <2>7 DEF CheckStep
    <2>9. QED
      BY <1>s, <1>t, <2>1, <2>8 DEF StageInv
  <1>13. CASE UNCHANGED vars
    BY <1>13, <1>s, <1>t DEF vars, StageInv
  <1>14. QED
    BY <1>1, <1>2, <1>3, <1>4, <1>5, <1>6, <1>7, <1>8, <1>9, <1>10, <1>11, <1>12, <1>13 DEF Next, CheckStep

\* A step of the specification is a step of the code that keeps the history.
LEMMA Steps ==
    ASSUME [Next /\ Histories]_<<vars, histories>>, TypeInv
    PROVE  [Next]_vars /\ met' \in BOOLEAN /\ (met => met') /\ TypeInv'
  <1>1. met \in BOOLEAN /\ cut \in SUBSET Checks
    BY DEF TypeInv, TypeOK
  <1>2. [Next]_vars /\ met' \in BOOLEAN /\ cut' \in SUBSET Checks /\ (met => met')
    <2>1. CASE Next /\ Histories
      BY <2>1 DEF Histories
    <2>2. CASE UNCHANGED <<vars, histories>>
      BY <1>1, <2>2 DEF histories
    <2>3. QED
      BY <2>1, <2>2
  <1>3. QED
    BY <1>2, StepTyped

LEMMA Typed == Spec => []TypeInv
  BY InitTyped, Steps, PTL DEF Spec

\* Every variable stays in its domain.
THEOREM TypeCorrect == Spec => []TypeOK
  <1>1. TypeInv => TypeOK
    BY DEF TypeInv
  <1>2. QED
    BY <1>1, Typed, PTL

(***************************************************************************)
(* No spurious refusal, however many rotations overlap.  The reason is     *)
(* that tokens are drawn once: what a client was given never comes back to *)
(* life, for what is still to go live (the temporary file, and what open   *)
(* rotations will write) is known to nobody.                               *)
(***************************************************************************)
Opening(r) == rot[r].pc = "opened"
UnknownInv ==
    /\ Known \subseteq drawn
    /\ file.tmp \in Tokens => file.tmp \in drawn \ Known
    /\ \A r \in Rotators : Opening(r) => rot[r].new \in drawn \ Known /\ rot[r].new # file.tmp
    /\ \A r, s \in Rotators : r # s /\ Opening(r) /\ Opening(s) => rot[r].new # rot[s].new
    /\ \A c \in Checks : Asking(c) => /\ chk[c].offered \in Known
                                      /\ chk[c].offered = file.live => chk[c].live = file.live

LEMMA InitUnknown == Init => UnknownInv
  <1> SUFFICES ASSUME Init PROVE UnknownInv
    OBVIOUS
  <1>1. file.tmp = Absent /\ file.live = First
    BY DEF Init, NoFile
  <1>2. Known \subseteq drawn
    BY <1>1 DEF Init, Known
  <1>3. \A r \in Rotators : ~Opening(r)
    BY DEF Init, Opening, Resting
  <1>4. \A c \in Checks : ~Asking(c)
    BY DEF Init, Asking, NoCheck
  <1>5. QED
    BY <1>1, <1>2, <1>3, <1>4, TokenAssumption DEF UnknownInv, Unreadable

\* A change of the live token retires it: what is known stays known.
LEMMA KnownGrows ==
    ASSUME TypeInv, Retire
    PROVE  Known \subseteq Known' /\ Known' \subseteq Known \cup {file'.live}
  <1>1. now # Never /\ retired \in [Tokens -> 0..Never]
    BY TimeAssumption, Types DEF TypeInv, Never
  <1>2. \A t \in Tokens : retired'[t] = IF t = file.live /\ t # file'.live THEN now ELSE retired[t]
    BY DEF Retire
  <1>3. ASSUME NEW t \in Known PROVE t \in Known'
    BY <1>1, <1>2, <1>3 DEF Known, Never
  <1>4. ASSUME NEW t \in Known' PROVE t \in Known \cup {file'.live}
    BY <1>1, <1>2, <1>4 DEF Known, Never
  <1>5. QED
    BY <1>3, <1>4

\* Steps that leave the live token, what was drawn and the clients' requests alone,
\* and at most empty the temporary file.
LEMMA UnknownFrame ==
    ASSUME TypeInv, UnknownInv, file'.live = file.live, retired' = retired, drawn' = drawn,
           file'.tmp \in {file.tmp, Empty}, chk' = chk,
           \A r \in Rotators : Opening(r)' => Opening(r) /\ rot'[r] = rot[r]
    PROVE  UnknownInv'
  <1>1. Known' = Known
    BY DEF Known
  <1>2. Empty \notin Tokens
    BY TokenAssumption DEF Unreadable
  <1>3. \A r \in Rotators : Opening(r)' => rot'[r].new \in drawn \ Known /\ rot'[r].new # file'.tmp
    BY <1>2, Types DEF UnknownInv, TypeInv, StageInv, Opening
  <1>4. \A c \in Checks : Asking(c)' => Asking(c)
    BY DEF Asking
  <1>5. QED
    BY <1>1, <1>2, <1>3, <1>4 DEF UnknownInv

LEMMA StepUnknown == TypeInv /\ UnknownInv /\ [Next]_vars => UnknownInv'
  <1> SUFFICES ASSUME TypeInv, UnknownInv, [Next]_vars PROVE UnknownInv'
    OBVIOUS
  <1>t. /\ rot \in [Rotators -> Rotation] /\ chk \in [Checks -> Check]
        /\ file \in File(Rotators, Tokens)
    BY Types DEF TypeInv
  <1>e. Absent \notin Tokens /\ Empty \notin Tokens /\ Garbage \notin Tokens
    BY TokenAssumption DEF Unreadable
  <1>1. ASSUME NEW r \in Rotators, NEW t \in Tokens, OpenTmp(r, t) PROVE UnknownInv'
    <2>1. /\ file'.live = file.live /\ file'.tmp = Empty /\ retired' = retired /\ chk' = chk
          /\ drawn' = drawn \cup {t} /\ t \notin drawn
          /\ rot' = [rot EXCEPT ![r] = [@ EXCEPT !.pc = "opened", !.new = t]]
      BY <1>1 DEF OpenTmp, Opened
    <2>2. Known' = Known
      BY <2>1 DEF Known
    <2>3. rot'[r].new = t /\ \A s \in Rotators \ {r} : rot'[s] = rot[s]
      BY <1>t, <2>1 DEF Rotation
    <2>4. \A s \in Rotators : Opening(s)' => /\ rot'[s].new \in drawn' \ Known
                                             /\ rot'[s].new # Empty
      BY <1>e, <2>1, <2>3, Types DEF UnknownInv, TypeInv, StageInv, Opening
    <2>5. \A p, s \in Rotators : p # s /\ Opening(p)' /\ Opening(s)' => rot'[p].new # rot'[s].new
      BY <2>1, <2>3 DEF UnknownInv, Opening
    <2>6. \A c \in Checks : Asking(c)' => Asking(c)
      BY <2>1 DEF Asking
    <2>7. QED
      BY <1>e, <2>1, <2>2, <2>4, <2>5, <2>6 DEF UnknownInv
  <1>2. ASSUME NEW r \in Rotators, FillTmp(r) PROVE UnknownInv'
    <2> DEFINE n == rot[r].new
    <2>1. /\ drawn' = drawn /\ chk' = chk /\ Retire
          /\ rot' = [rot EXCEPT ![r] = [@ EXCEPT !.pc = "filled"]]
          /\ file' \in Filled(file, r, n)
      BY <1>2 DEF FillTmp
    <2>2. Opening(r) /\ n \in drawn \ Known /\ n # file.tmp
      BY <1>2 DEF FillTmp, Opening, UnknownInv
    <2>3. \/ file'.live = file.live /\ file'.tmp \in {n, file.tmp, Garbage}
          \/ file'.live \in {n, Garbage} /\ file'.tmp = file.tmp
      BY <2>1 DEF Filled, Over
    <2> HIDE DEF n
    <2>4. \A s \in Rotators : Opening(s)' => s # r /\ Opening(s) /\ rot'[s] = rot[s]
      BY <1>t, <2>1 DEF Opening, Rotation
    <2>5. \A s \in Rotators : Opening(s)' => rot[s].new # n
      BY <2>2, <2>4 DEF UnknownInv, n
    <2>6. Known \subseteq Known' /\ Known' \subseteq Known \cup {file'.live}
      BY <2>1, KnownGrows
    <2>7. Known' \subseteq Tokens /\ n \in Tokens
      BY <1>2 DEF Known, FillTmp, TypeInv, StageInv, n
    <2>8. Known' \subseteq Known \cup {n}
      BY <1>e, <2>3, <2>6, <2>7 DEF Known
    <2>9. Known' \subseteq drawn'
      BY <2>1, <2>2, <2>8 DEF UnknownInv
    <2>10. file'.tmp \in Tokens => file'.tmp \in drawn' \ Known'
      <3>1. CASE file'.live = file.live
        <4>1. Known' = Known
          BY <2>6, <3>1 DEF Known, Retire
        <4>2. QED
          BY <1>e, <2>1, <2>2, <2>3, <4>1 DEF UnknownInv
      <3>2. CASE file'.live # file.live
        BY <2>1, <2>2, <2>3, <2>8, <3>2 DEF UnknownInv
      <3>3. QED
        BY <3>1, <3>2
    <2>11. ASSUME NEW s \in Rotators, Opening(s)'
           PROVE  rot'[s].new \in drawn' \ Known' /\ rot'[s].new # file'.tmp
      <3>1. /\ rot'[s].new = rot[s].new /\ rot[s].new \in drawn \ Known
            /\ rot[s].new # file.tmp /\ rot[s].new # n
        BY <2>4, <2>5, <2>11 DEF UnknownInv
      <3>2. rot[s].new \in Tokens
        BY <2>4, <2>11 DEF TypeInv, StageInv, Opening
      <3>3. QED
        BY <1>e, <2>1, <2>3, <2>8, <3>1, <3>2
    <2>12. \A p, s \in Rotators : p # s /\ Opening(p)' /\ Opening(s)' => rot'[p].new # rot'[s].new
      BY <2>4 DEF UnknownInv
    <2>13. ASSUME NEW c \in Checks, Asking(c)'
           PROVE  /\ chk'[c].offered \in Known'
                  /\ chk'[c].offered = file'.live => chk'[c].live = file'.live
      <3>1. /\ Asking(c) /\ chk'[c] = chk[c] /\ chk[c].offered \in Known
            /\ chk[c].offered = file.live => chk[c].live = file.live
        BY <2>1, <2>13 DEF Asking, UnknownInv
      <3>2. chk[c].offered \in Tokens
        BY <3>1 DEF Known
      <3>3. QED
        BY <1>e, <2>2, <2>3, <2>6, <3>1, <3>2
    <2>14. QED
      BY <2>9, <2>10, <2>11, <2>12, <2>13 DEF UnknownInv
  <1>3. ASSUME NEW r \in Rotators, Replace(r) PROVE UnknownInv'
    <2>1. /\ drawn' = drawn /\ chk' = chk /\ Retire /\ rot' = [rot EXCEPT ![r] = Resting]
          /\ file'.live = file.tmp /\ file'.tmp = Absent
      BY <1>3 DEF Replace, Replaced
    <2>2. \A s \in Rotators : Opening(s)' => Opening(s) /\ rot'[s] = rot[s]
      BY <1>t, <2>1 DEF Opening, Resting
    <2>3. Known \subseteq Known' /\ Known' \subseteq Known \cup {file.tmp} /\ Known' \subseteq Tokens
      BY <2>1, KnownGrows DEF Known
    <2>4. Known' \subseteq drawn'
      BY <2>1, <2>3 DEF UnknownInv
    <2>5. \A s \in Rotators : Opening(s)' => /\ rot'[s].new \in drawn' \ Known'
                                             /\ rot'[s].new # file'.tmp
      BY <1>e, <2>1, <2>2, <2>3 DEF UnknownInv, TypeInv, StageInv, Opening
    <2>6. \A p, s \in Rotators : p # s /\ Opening(p)' /\ Opening(s)' => rot'[p].new # rot'[s].new
      BY <2>2 DEF UnknownInv
    <2>7. ASSUME NEW c \in Checks, Asking(c)'
           PROVE  /\ chk'[c].offered \in Known'
                  /\ chk'[c].offered = file'.live => chk'[c].live = file'.live
      <3>1. /\ Asking(c) /\ chk'[c] = chk[c] /\ chk[c].offered \in Known
            /\ chk[c].offered = file.live => chk[c].live = file.live
        BY <2>1, <2>7 DEF Asking, UnknownInv
      <3>2. chk[c].offered \in Tokens
        BY <3>1 DEF Known
      <3>3. QED
        BY <2>1, <2>3, <3>1, <3>2 DEF UnknownInv
    <2>8. QED
      BY <1>e, <2>1, <2>4, <2>5, <2>6, <2>7 DEF UnknownInv
  <1>4. ASSUME NEW c \in Checks, CheckStep(c)
        PROVE  UnknownInv'
    <2>1. UNCHANGED <<file, drawn, rot, retired>>
      BY <1>4 DEF CheckStep, CheckLive, CheckAge, CheckPrev, CheckText, CheckBreaks, CheckEnds
    <2>2. Known' = Known /\ \A r \in Rotators : Opening(r)' => Opening(r)
      BY <2>1 DEF Known, Opening
    <2>3. \A b \in Checks \ {c} : chk'[b] = chk[b]
      BY <1>4, <1>t DEF CheckStep, CheckLive, CheckAge, CheckPrev, CheckText, CheckBreaks, CheckEnds, Answer
    <2>4. Asking(c)' => /\ chk'[c].offered \in Known
                        /\ chk'[c].offered = file.live => chk'[c].live = file.live
      <3>1. CASE CheckLive(c)
        BY <1>t, <3>1 DEF CheckLive
      <3>2. ASSUME NEW accepted, Answer(c, accepted) PROVE ~Asking(c)'
        BY <1>t, <3>2 DEF Answer, Asking, NoCheck, Check
      <3>3. CASE CheckAge(c)
        <4>1. CASE PrevIsYoung
          <5>1. chk' = [chk EXCEPT ![c] = [@ EXCEPT !.pc = "prev"]] /\ Asking(c)
            BY <3>3, <4>1 DEF CheckAge, Asking
          <5>2. chk'[c].offered = chk[c].offered /\ chk'[c].live = chk[c].live
            BY <1>t, <5>1 DEF Check
          <5>3. QED
            BY <5>1, <5>2 DEF UnknownInv
        <4>2. CASE ~PrevIsYoung
          BY <3>2, <3>3, <4>2 DEF CheckAge
        <4>3. QED
          BY <4>1, <4>2
      <3>4. CASE CheckPrev(c)
        <4>1. CASE prev.text # Absent
          <5>1. chk' = [chk EXCEPT ![c] = [@ EXCEPT !.pc = "text"]] /\ Asking(c)
            BY <3>4, <4>1 DEF CheckPrev, Asking
          <5>2. chk'[c].offered = chk[c].offered /\ chk'[c].live = chk[c].live
            BY <1>t, <5>1 DEF Check
          <5>3. QED
            BY <5>1, <5>2 DEF UnknownInv
        <4>2. CASE prev.text = Absent
          BY <3>2, <3>4, <4>2 DEF CheckPrev
        <4>3. QED
          BY <4>1, <4>2
      <3>5. CASE CheckText(c)
        BY <3>2, <3>5 DEF CheckText
      <3>6. CASE CheckBreaks(c) \/ CheckEnds(c)
        BY <1>t, <3>6 DEF CheckBreaks, CheckEnds, Asking, NoCheck
      <3>7. QED
        BY <1>4, <3>1, <3>3, <3>4, <3>5, <3>6 DEF CheckStep
    <2>5. \A b \in Checks : Asking(b)' => /\ chk'[b].offered \in Known'
                                          /\ chk'[b].offered = file'.live => chk'[b].live = file'.live
      BY <2>1, <2>2, <2>3, <2>4 DEF UnknownInv, Asking
    <2>6. \A r \in Rotators : Opening(r)' => rot'[r].new \in drawn' \ Known' /\ rot'[r].new # file'.tmp
      BY <2>1, <2>2 DEF UnknownInv
    <2>7. \A r, s \in Rotators : r # s /\ Opening(r)' /\ Opening(s)' => rot'[r].new # rot'[s].new
      BY <2>1, <2>2 DEF UnknownInv
    <2>8. Known' \subseteq drawn' /\ (file'.tmp \in Tokens => file'.tmp \in drawn' \ Known')
      BY <2>1, <2>2 DEF UnknownInv
    <2>9. QED
      BY <2>5, <2>6, <2>7, <2>8 DEF UnknownInv
  <1>5. ASSUME NEW r \in Rotators, ReadLive(r) \/ NothingToStash(r) \/ OpenPrev(r) \/ FillPrev(r)
        PROVE  UnknownInv'
    <2>1. \A s \in Rotators : Opening(s)' => Opening(s) /\ rot'[s] = rot[s]
      BY <1>5, <1>t DEF ReadLive, NothingToStash, OpenPrev, FillPrev, Opening, Rotation
    <2>2. QED
      BY <1>5, <2>1, UnknownFrame DEF ReadLive, NothingToStash, OpenPrev, FillPrev
  <1>6. ASSUME NEW r \in Rotators, RotationFails(r) PROVE UnknownInv'
    <2>1. \A s \in Rotators : Opening(s)' => Opening(s) /\ rot'[s] = rot[s]
      BY <1>6, <1>t DEF RotationFails, Opening, Resting
    <2>2. file'.live = file.live /\ file'.tmp = file.tmp
      BY <1>6 DEF RotationFails, Closed
    <2>3. QED
      BY <1>6, <2>1, <2>2, UnknownFrame DEF RotationFails
  <1>7. CASE WizardCrash
    <2>1. \A s \in Rotators : ~Opening(s)'
      BY <1>7 DEF WizardCrash, Opening, Resting
    <2>2. file'.live = file.live /\ file'.tmp = file.tmp
      BY <1>7 DEF WizardCrash, Closed
    <2>3. QED
      BY <1>7, <2>1, <2>2, UnknownFrame DEF WizardCrash
  <1>8. CASE Tick \/ Revoke \/ UNCHANGED vars
    BY <1>8, UnknownFrame DEF Tick, Revoke, vars, Opening
  <1>9. QED
    BY <1>1, <1>2, <1>3, <1>4, <1>5, <1>6, <1>7, <1>8 DEF Next, CheckStep

LEMMA Unknown == Spec => []UnknownInv
  <1>1. TypeInv /\ UnknownInv /\ [Next /\ Histories]_<<vars, histories>> => UnknownInv'
    BY Steps, StepUnknown
  <1>2. QED
    BY <1>1, Typed, InitUnknown, PTL DEF Spec

\* What a check refuses is no good at that moment: the live token it read is still live
\* if it was on offer, and it has just looked at .prev.
Refuses(c) == Asking(c) /\ CheckStep(c) /\ chk'[c].pc = "idle" /\ ~CheckBreaks(c)

LEMMA RefusedIsBad ==
    ASSUME TypeInv, UnknownInv, NEW c \in Checks, Refuses(c)
    PROVE  ~GoodNow(chk[c].offered)
  <1>1. chk \in [Checks -> Check]
    BY Types DEF TypeInv
  <1>2. /\ chk[c].offered = file.live => chk[c].live = chk[c].offered
        /\ chk[c].offered \in Tokens
    BY DEF UnknownInv, Refuses, Known
  <1>e. Absent \notin Tokens
    BY TokenAssumption DEF Unreadable
  <1>3. CASE CheckAge(c)
    <2>1. ~PrevIsYoung /\ Answer(c, {chk[c].live})
      BY <1>1, <1>3 DEF CheckAge, Check, Refuses
    <2>2. chk[c].offered # chk[c].live
      BY <1>1, <2>1 DEF Answer, Check, Refuses
    <2>3. QED
      BY <1>2, <2>1, <2>2 DEF GoodNow
  <1>4. CASE CheckPrev(c)
    <2>1. prev.text = Absent /\ Answer(c, {chk[c].live})
      BY <1>1, <1>4 DEF CheckPrev, Check, Refuses
    <2>2. chk[c].offered # chk[c].live
      BY <1>1, <2>1 DEF Answer, Check, Refuses
    <2>3. QED
      BY <1>2, <1>e, <2>1, <2>2 DEF GoodNow
  <1>5. CASE CheckText(c)
    <2>1. Answer(c, {chk[c].live, prev.text})
      BY <1>5 DEF CheckText
    <2>2. chk[c].offered \notin {chk[c].live, prev.text}
      BY <1>1, <2>1 DEF Answer, Check, Refuses
    <2>3. QED
      BY <1>2, <2>2 DEF GoodNow
  <1>6. QED
    BY <1>3, <1>4, <1>5 DEF Refuses, CheckStep, CheckLive, CheckEnds, Asking

\* A check turns away a token only if it would still be turned away at that moment,
\* however many rotations overlap with it; the one exception is a .prev revoked between
\* two looks at it (mcp-server server.py:62-65).
THEOREM NoGoodTokenRefused == Spec => NoSpuriousReject
  <1>1. TypeInv /\ UnknownInv /\ [Next /\ Histories]_<<vars, histories>> =>
          [\A c \in Checks : Asking(c) /\ chk'[c].pc = "idle" =>
             ~GoodNow(chk[c].offered) \/ (chk[c].pc = "text" /\ prev.text = Absent)]_vars
    <2> SUFFICES ASSUME TypeInv, UnknownInv, [Next]_vars, NEW c \in Checks,
                        Asking(c), chk'[c].pc = "idle"
                 PROVE  ~GoodNow(chk[c].offered) \/ (chk[c].pc = "text" /\ prev.text = Absent)
      BY Steps
    <2>1. chk \in [Checks -> Check] /\ chk' # chk
      BY Types DEF TypeInv, Asking
    <2>2. PICK b \in Checks : CheckStep(b)
      BY <2>1 DEF Next, Tick, Revoke, WizardCrash, ReadLive, NothingToStash, OpenPrev, FillPrev,
                  OpenTmp, FillTmp, Replace, RotationFails, vars, CheckStep
    <2>3. b = c
      BY <2>1, <2>2 DEF CheckStep, CheckLive, CheckAge, CheckPrev, CheckText, CheckBreaks, CheckEnds,
                        Answer, Asking
    <2>4. CASE CheckBreaks(c)
      BY <2>4 DEF CheckBreaks
    <2>5. CASE ~CheckBreaks(c)
      BY <2>2, <2>3, <2>5, RefusedIsBad DEF Refuses
    <2>6. QED
      BY <2>4, <2>5
  <1>2. QED
    BY <1>1, Typed, Unknown, PTL DEF Spec, NoSpuriousReject

(***************************************************************************)
(* With one rotation at a time.  The temporary file is the rotation's own, *)
(* and what it stashes is still live.                                      *)
(***************************************************************************)
OneRotation == \A r, s \in Rotators : rot[r].pc # "idle" /\ rot[s].pc # "idle" => r = s

AloneInv ==
    /\ file.live \in Tokens
    /\ \A r \in Rotators :
         /\ Opening(r) => file.at[r] = "tmp" /\ file.tmp = Empty
         /\ rot[r].pc = "filled" => file.tmp = rot[r].new
         /\ file.at[r] # "closed" => Opening(r)
         /\ rot[r].pc \in {"stash", "prevOpen"} => rot[r].stash = file.live
         /\ rot[r].pc = "prevOpen" /\ prev.text # Absent => r \in prev.open

LEMMA InitAlone == Init => AloneInv
  <1> SUFFICES ASSUME Init PROVE AloneInv
    OBVIOUS
  <1>1. file.live = First /\ \A r \in Rotators : file.at[r] = "closed"
    BY DEF Init, NoFile
  <1>2. QED
    BY <1>1, TokenAssumption DEF Init, AloneInv, Opening, Resting

\* Rotations that rest, their files closed, leave only the live token to look at.
LEMMA AloneAtRest ==
    ASSUME file'.live \in Tokens,
           \A r \in Rotators : rot'[r].pc = "idle" /\ file'.at[r] = "closed"
    PROVE  AloneInv'
  BY DEF AloneInv, Opening

\* The others rest while one rotation works.
LEMMA OthersRest ==
    ASSUME OneRotation, AloneInv, NEW r \in Rotators, rot[r].pc # "idle"
    PROVE  \A s \in Rotators \ {r} : rot[s].pc = "idle" /\ file.at[s] = "closed"
  BY DEF OneRotation, AloneInv, Opening

LEMMA StepAlone == OneRotation /\ TypeInv /\ AloneInv /\ [Next]_vars => AloneInv'
  <1> SUFFICES ASSUME OneRotation, TypeInv, AloneInv, [Next]_vars PROVE AloneInv'
    OBVIOUS
  <1>t. /\ rot \in [Rotators -> Rotation] /\ file \in File(Rotators, Tokens)
        /\ file.at \in [Rotators -> {"closed", "tmp", "live", "gone"}]
        /\ prev \in PrevFile
    BY Types DEF TypeInv, File
  <1>1. ASSUME NEW r \in Rotators, ReadLive(r) \/ NothingToStash(r) PROVE AloneInv'
    <2>1. CASE ReadLive(r)
      <3>1. /\ rot'[r].pc = "stash" /\ rot'[r].stash = file.live /\ file' = file /\ prev' = prev
            /\ \A s \in Rotators \ {r} : rot'[s] = rot[s]
        BY <1>t, <2>1 DEF ReadLive
      <3>2. file.at[r] = "closed"
        BY <2>1 DEF ReadLive, AloneInv, Opening
      <3>3. QED
        BY <3>1, <3>2 DEF AloneInv, Opening
    <2>2. CASE NothingToStash(r)
      BY <2>2 DEF NothingToStash, AloneInv
    <2>3. QED
      BY <1>1, <2>1, <2>2
  <1>2. ASSUME NEW r \in Rotators, rot[r].pc # "idle", AloneInv, NEW x \in Rotation,
               rot' = [rot EXCEPT ![r] = x], file'.live \in Tokens,
               \A s \in Rotators \ {r} : file'.at[s] = "closed",
               x.pc = "opened" => file'.at[r] = "tmp" /\ file'.tmp = Empty,
               x.pc = "filled" => file'.tmp = x.new,
               file'.at[r] # "closed" => x.pc = "opened",
               x.pc \in {"stash", "prevOpen"} => x.stash = file'.live,
               x.pc = "prevOpen" => r \in prev'.open
        PROVE  AloneInv'
    <2>1. rot'[r] = x /\ \A s \in Rotators \ {r} : rot'[s].pc = "idle"
      BY <1>2, <1>t, OthersRest
    <2>2. QED
      BY <1>2, <2>1 DEF AloneInv, Opening
  <1>3. ASSUME NEW r \in Rotators,
               OpenPrev(r) \/ FillPrev(r) \/ FillTmp(r) \/ Replace(r) \/ RotationFails(r)
                 \/ \E t \in Tokens : OpenTmp(r, t)
        PROVE  AloneInv'
    <2>1. rot[r].pc # "idle" /\ \A s \in Rotators \ {r} : rot[s].pc = "idle" /\ file.at[s] = "closed"
      BY <1>3, OthersRest DEF OpenPrev, FillPrev, FillTmp, Replace, RotationFails, OpenTmp
    <2>2. CASE OpenPrev(r)
      <3> DEFINE x == [rot[r] EXCEPT !.pc = "prevOpen"]
      <3>1. /\ x \in Rotation /\ x.pc = "prevOpen" /\ x.stash = rot[r].stash
            /\ rot' = [rot EXCEPT ![r] = x] /\ rot[r].stash = file.live /\ r \in prev'.open
            /\ file' = file /\ file.at[r] = "closed" /\ file.live \in Tokens
        BY <1>t, <2>2 DEF OpenPrev, Rotation, AloneInv, Opening
      <3> HIDE DEF x
      <3>2. QED
        BY <1>2, <2>1, <3>1
    <2>3. CASE FillPrev(r)
      <3> DEFINE x == [rot[r] EXCEPT !.pc = "mint"]
      <3>1. /\ x \in Rotation /\ x.pc = "mint" /\ rot' = [rot EXCEPT ![r] = x]
            /\ file' = file /\ file.at[r] = "closed" /\ file.live \in Tokens
        BY <1>t, <2>3 DEF FillPrev, Rotation, AloneInv, Opening
      <3> HIDE DEF x
      <3>2. QED
        BY <1>2, <2>1, <3>1
    <2>4. ASSUME NEW t \in Tokens, OpenTmp(r, t) PROVE AloneInv'
      <3> DEFINE x == [rot[r] EXCEPT !.pc = "opened", !.new = t]
      <3>1. x \in Rotation /\ x.pc = "opened" /\ rot' = [rot EXCEPT ![r] = x]
        BY <1>t, <2>4 DEF OpenTmp, Rotation
      <3>2. /\ file'.live \in Tokens /\ file'.tmp = Empty /\ file'.at[r] = "tmp"
            /\ \A s \in Rotators \ {r} : file'.at[s] = "closed"
        BY <1>t, <2>1, <2>4 DEF OpenTmp, Opened, AloneInv
      <3> HIDE DEF x
      <3>3. QED
        BY <1>2, <2>1, <3>1, <3>2
    <2>5. CASE FillTmp(r)
      <3> DEFINE x == [rot[r] EXCEPT !.pc = "filled"]
      <3>1. x \in Rotation /\ x.pc = "filled" /\ x.new = rot[r].new /\ rot' = [rot EXCEPT ![r] = x]
        BY <1>t, <2>5 DEF FillTmp, Rotation
      <3>2. file.at[r] = "tmp" /\ file.tmp = Empty
        BY <2>5 DEF FillTmp, AloneInv, Opening
      <3>3. /\ file'.live = file.live /\ file'.tmp = rot[r].new /\ file'.at[r] = "closed"
            /\ \A s \in Rotators \ {r} : file'.at[s] = "closed"
        BY <1>t, <2>1, <2>5, <3>2 DEF FillTmp, Filled, Over
      <3> HIDE DEF x
      <3>4. QED
        BY <1>2, <2>1, <3>1, <3>3 DEF AloneInv
    <2>6. CASE Replace(r)
      <3>1. file.tmp = rot[r].new /\ rot[r].new \in Tokens /\ file.at[r] = "closed"
        BY <2>6 DEF Replace, AloneInv, Opening, TypeInv, StageInv
      <3>2. file'.live \in Tokens /\ \A s \in Rotators : file'.at[s] = "closed"
        BY <1>t, <2>1, <2>6, <3>1 DEF Replace, Replaced
      <3>3. \A s \in Rotators : rot'[s].pc = "idle"
        BY <1>t, <2>1, <2>6 DEF Replace, Resting
      <3>4. QED
        BY <3>2, <3>3, AloneAtRest
    <2>7. CASE RotationFails(r)
      <3>1. file'.live \in Tokens /\ \A s \in Rotators : file'.at[s] = "closed"
        BY <1>t, <2>1, <2>7 DEF RotationFails, Closed, AloneInv
      <3>2. \A s \in Rotators : rot'[s].pc = "idle"
        BY <1>t, <2>1, <2>7 DEF RotationFails, Resting
      <3>3. QED
        BY <3>1, <3>2, AloneAtRest
    <2>8. QED
      BY <1>3, <2>2, <2>3, <2>4, <2>5, <2>6, <2>7
  <1>4. CASE WizardCrash
    <2>1. file'.live \in Tokens /\ \A r \in Rotators : file'.at[r] = "closed"
      BY <1>4, <1>t DEF WizardCrash, Closed, AloneInv
    <2>2. QED
      BY <1>4, <2>1, AloneAtRest DEF WizardCrash, Resting
  <1>5. CASE Revoke
    BY <1>5 DEF Revoke, NoPrev, AloneInv, Opening
  <1>6. ASSUME UNCHANGED <<file, prev, rot>> PROVE AloneInv'
    BY <1>6 DEF AloneInv, Opening
  <1>7. QED
    BY <1>1, <1>3, <1>4, <1>5, <1>6
    DEF Next, Tick, CheckLive, CheckAge, CheckPrev, CheckText, CheckBreaks, CheckEnds, vars

(***************************************************************************)
(* What the MCP server can see of a rotation, one at a time: nothing, .prev *)
(* emptied or holding the token that is live, or a live token nobody knows. *)
(***************************************************************************)
Unseen == file'.live = file.live /\ retired' = retired /\ prev'.text = prev.text /\ prev'.mtime = prev.mtime
Stashed == /\ file'.live = file.live /\ retired' = retired
           /\ prev'.text \in {Empty, file.live} /\ prev'.mtime = now
GoneLive == /\ file'.live \in Tokens \ Known /\ prev' = prev
            /\ retired' = [retired EXCEPT ![file.live] = now]

RotationStep(r) ==
    \/ ReadLive(r) \/ NothingToStash(r) \/ OpenPrev(r) \/ FillPrev(r)
    \/ \E t \in Tokens : OpenTmp(r, t)
    \/ FillTmp(r) \/ Replace(r) \/ RotationFails(r)

LEMMA RotationSeen ==
    ASSUME OneRotation, TypeInv, UnknownInv, AloneInv,
           WizardCrash \/ \E r \in Rotators : RotationStep(r)
    PROVE  now' = now /\ chk' = chk /\ revoked' = revoked /\ (Unseen \/ Stashed \/ GoneLive)
  <1>t. /\ rot \in [Rotators -> Rotation] /\ file \in File(Rotators, Tokens) /\ prev \in PrevFile
        /\ retired \in [Tokens -> 0..Never] /\ file.live \in Tokens
    BY Types DEF TypeInv, AloneInv
  <1>1. CASE WizardCrash
    BY <1>1, <1>t DEF WizardCrash, Closed, PrevFile, Unseen
  <1>2. ASSUME NEW r \in Rotators, RotationStep(r)
        PROVE  now' = now /\ chk' = chk /\ revoked' = revoked /\ (Unseen \/ Stashed \/ GoneLive)
    <2>1. CASE ReadLive(r) \/ NothingToStash(r)
      BY <2>1 DEF ReadLive, NothingToStash, Unseen
    <2>2. CASE OpenPrev(r)
      BY <2>2 DEF OpenPrev, Stashed
    <2>3. CASE FillPrev(r)
      <3>1. r \in prev.open /\ rot[r].stash = file.live
        BY <2>3 DEF FillPrev, AloneInv
      <3>2. QED
        BY <2>3, <3>1 DEF FillPrev, Stashed
    <2>4. ASSUME NEW t \in Tokens, OpenTmp(r, t) PROVE UNCHANGED <<now, chk, revoked>> /\ Unseen
      BY <2>4 DEF OpenTmp, Opened, Unseen
    <2>5. CASE FillTmp(r)
      <3>1. file.at[r] = "tmp" /\ file.tmp = Empty
        BY <2>5 DEF FillTmp, AloneInv, Opening
      <3>2. file'.live = file.live
        BY <1>t, <2>5, <3>1 DEF FillTmp, Filled, Over
      <3>3. \A t \in Tokens : retired'[t] = retired[t]
        BY <2>5, <3>2 DEF FillTmp, Retire
      <3>4. retired' = retired
        BY <1>t, <2>5, <3>3, RetireTyped DEF FillTmp
      <3>5. QED
        BY <2>5, <3>2, <3>4 DEF FillTmp, Unseen
    <2>6. CASE Replace(r)
      <3>1. file.tmp = rot[r].new /\ rot[r].new \in Tokens /\ rot[r].pc = "filled"
        BY <2>6 DEF Replace, AloneInv, TypeInv, StageInv
      <3>2. file'.live = file.tmp /\ file.tmp \in Tokens \ Known
        BY <2>6, <3>1 DEF Replace, Replaced, UnknownInv
      <3>3. file'.live # file.live
        BY <1>t, <3>2 DEF Known
      <3>4. retired' = [retired EXCEPT ![file.live] = now]
        BY <1>t, <2>6, <3>3 DEF Replace, Retire
      <3>5. QED
        BY <2>6, <3>2, <3>4 DEF Replace, GoneLive
    <2>7. CASE RotationFails(r)
      BY <2>7, <1>t DEF RotationFails, Closed, PrevFile, Unseen
    <2>8. QED
      BY <1>2, <2>1, <2>2, <2>3, <2>4, <2>5, <2>6, <2>7 DEF RotationStep, OpenPrev, FillPrev
  <1>3. QED
    BY <1>1, <1>2

\* The other steps: the clock, a revocation, a check.
LEMMA StepKinds ==
    [Next]_vars => \/ WizardCrash \/ \E r \in Rotators : RotationStep(r)
                   \/ Tick \/ Revoke \/ UNCHANGED vars
                   \/ \E c \in Checks : CheckStep(c)
  BY DEF Next, RotationStep, CheckStep

\* What a check does to its own record, and to nothing else.
Asks(c) == /\ chk[c].pc = "idle" /\ chk'[c].pc = "age" /\ chk'[c].offered \in Known /\ chk'[c].live = file.live
           /\ chk'[c].start = now /\ chk'[c].dead = revoked
           /\ chk'[c].good = GoodNow(chk'[c].offered)
GoesOn(c) == /\ chk[c].pc = "age" /\ chk'[c].pc = "prev" /\ PrevIsYoung
             /\ chk'[c].offered = chk[c].offered /\ chk'[c].live = chk[c].live
             /\ chk'[c].start = chk[c].start /\ chk'[c].dead = chk[c].dead
             /\ chk'[c].good = chk[c].good
Looks(c) == /\ chk[c].pc = "prev" /\ chk'[c].pc = "text"
            /\ chk'[c].offered = chk[c].offered /\ chk'[c].live = chk[c].live
            /\ chk'[c].start = chk[c].start /\ chk'[c].dead = chk[c].dead
            /\ chk'[c].good = chk[c].good
Accepts(c) == /\ chk'[c].pc = "accepted"
              /\ \/ Asking(c) /\ chk[c].offered = chk[c].live
                 \/ chk[c].pc = "text" /\ chk[c].offered = prev.text
              /\ chk'[c].offered = chk[c].offered
              /\ chk'[c].start = chk[c].start /\ chk'[c].dead = chk[c].dead
              /\ chk'[c].good = chk[c].good
Ends(c) == chk[c].pc # "idle" /\ chk'[c] = NoCheck

\* Only the checks themselves change a check.
LEMMA ChecksOnly == Next => chk' = chk \/ \E c \in Checks : CheckStep(c)
  BY DEF Next, Tick, Revoke, WizardCrash, ReadLive, NothingToStash, OpenPrev, FillPrev,
         OpenTmp, FillTmp, Replace, RotationFails, CheckStep

LEMMA CheckSeen ==
    ASSUME TypeInv, NEW c \in Checks, CheckStep(c)
    PROVE  /\ UNCHANGED <<now, file, prev, drawn, rot, retired, revoked>>
           /\ \A b \in Checks \ {c} : chk'[b] = chk[b]
           /\ Asks(c) \/ GoesOn(c) \/ Looks(c) \/ Accepts(c) \/ Ends(c)
  <1>t. chk \in [Checks -> Check]
    BY Types DEF TypeInv
  <1>1. /\ UNCHANGED <<now, file, prev, drawn, rot, retired, revoked>>
        /\ \A b \in Checks \ {c} : chk'[b] = chk[b]
    BY <1>t DEF CheckStep, CheckLive, CheckAge, CheckPrev, CheckText, CheckBreaks, CheckEnds, Answer
  <1>2. ASSUME NEW accepted, Answer(c, accepted)
        PROVE  \/ chk'[c] = NoCheck
               \/ /\ chk[c].offered \in accepted /\ chk'[c].pc = "accepted"
                  /\ chk'[c].offered = chk[c].offered
                  /\ chk'[c].start = chk[c].start /\ chk'[c].dead = chk[c].dead
                  /\ chk'[c].good = chk[c].good
    BY <1>t, <1>2 DEF Answer, Check
  <1>3. CASE CheckLive(c)
    BY <1>t, <1>3 DEF CheckLive, Asks
  <1>4. CASE CheckAge(c)
    <2>1. CASE PrevIsYoung
      <3>1. chk[c].pc = "age" /\ chk' = [chk EXCEPT ![c] = [@ EXCEPT !.pc = "prev"]]
        BY <1>4, <2>1 DEF CheckAge
      <3>2. QED
        BY <1>1, <1>t, <2>1, <3>1 DEF GoesOn, Check
    <2>2. CASE ~PrevIsYoung
      BY <1>1, <1>2, <1>4, <2>2 DEF CheckAge, Accepts, Asking, Ends
    <2>3. QED
      BY <1>1, <2>1, <2>2
  <1>5. CASE CheckPrev(c)
    <2>1. CASE prev.text # Absent
      <3>1. chk[c].pc = "prev" /\ chk' = [chk EXCEPT ![c] = [@ EXCEPT !.pc = "text"]]
        BY <1>5, <2>1 DEF CheckPrev
      <3>2. QED
        BY <1>1, <1>t, <2>1, <3>1 DEF Looks, Check
    <2>2. CASE prev.text = Absent
      BY <1>1, <1>2, <1>5, <2>2 DEF CheckPrev, Accepts, Asking, Ends
    <2>3. QED
      BY <1>1, <2>1, <2>2
  <1>6. CASE CheckText(c)
    BY <1>1, <1>2, <1>6 DEF CheckText, Accepts, Asking, Ends
  <1>7. CASE CheckBreaks(c) \/ CheckEnds(c)
    BY <1>t, <1>7 DEF CheckBreaks, CheckEnds, Ends
  <1>8. QED
    BY <1>1, <1>3, <1>4, <1>5, <1>6, <1>7 DEF CheckStep

(***************************************************************************)
(* Grace.  A token's age in .prev is at most the time since its retirement, *)
(* and a check that is under way began before the texts it read went stale. *)
(***************************************************************************)
NotStale(c, t) == t \in Tokens /\ chk[c].start <= retired[t]
TimeInv ==
    /\ retired[file.live] = Never
    /\ prev.mtime <= now
    /\ prev.text \in Tokens => prev.mtime <= retired[prev.text]
    /\ \A c \in Checks :
         /\ chk[c].start <= now
         /\ Asking(c) => NotStale(c, chk[c].live)
         /\ chk[c].pc \in {"prev", "text"} /\ prev.text \in Tokens =>
              chk[c].start <= prev.mtime \/ chk[c].start < prev.mtime + Grace
         /\ chk[c].pc = "accepted" =>
              /\ chk[c].offered \in Tokens
              /\ \/ chk[c].start <= retired[chk[c].offered]
                 \/ chk[c].start < retired[chk[c].offered] + Grace

LEMMA InitTime == Init => TimeInv
  <1> SUFFICES ASSUME Init PROVE TimeInv
    OBVIOUS
  <1>1. file.live = First /\ prev = NoPrev /\ now = 0 /\ retired[First] = Never
    BY TokenAssumption DEF Init, NoFile
  <1>2. \A c \in Checks : chk[c].pc = "idle" /\ chk[c].start = 0
    BY DEF Init, NoCheck
  <1>3. Absent \notin Tokens
    BY TokenAssumption DEF Unreadable
  <1>4. QED
    BY <1>1, <1>2, <1>3 DEF TimeInv, NoPrev, Asking

LEMMA StepTime ==
    OneRotation /\ TypeInv /\ TypeInv' /\ UnknownInv /\ AloneInv /\ TimeInv /\ [Next]_vars => TimeInv'
  <1> SUFFICES ASSUME OneRotation, TypeInv, TypeInv', UnknownInv, AloneInv, TimeInv, [Next]_vars
               PROVE  TimeInv'
    OBVIOUS
  <1>t. /\ now \in Nat /\ Grace \in Nat /\ Never \in Nat /\ now < Never
        /\ retired \in [Tokens -> Nat] /\ file.live \in Tokens
        /\ prev.mtime \in Nat
        /\ \A c \in Checks : chk[c].start \in Nat
    <2>1. now \in 0..MaxTime /\ retired \in [Tokens -> 0..Never] /\ prev \in PrevFile /\ chk \in [Checks -> Check]
      BY Types DEF TypeInv
    <2>2. MaxTime \in Nat /\ Never = MaxTime + 1 /\ Grace \in Nat
      BY TimeAssumption DEF Never
    <2>3. prev.mtime \in 0..MaxTime /\ \A c \in Checks : chk[c].start \in 0..MaxTime
      BY <2>1 DEF PrevFile, Check
    <2>4. QED
      BY <2>1, <2>2, <2>3 DEF AloneInv
  <1>e. Absent \notin Tokens /\ Empty \notin Tokens
    BY TokenAssumption DEF Unreadable
  <1>1. CASE WizardCrash \/ \E r \in Rotators : RotationStep(r)
    <2>1. now' = now /\ chk' = chk /\ (Unseen \/ Stashed \/ GoneLive)
      BY <1>1, RotationSeen
    <2>2. \A c \in Checks : Asking(c)' <=> Asking(c)
      BY <2>1 DEF Asking
    <2>3. CASE Unseen
      BY <2>1, <2>2, <2>3 DEF Unseen, TimeInv, NotStale
    <2>4. CASE Stashed
      <3>1. prev'.text \in Tokens => prev'.text = file.live
        BY <1>e, <2>4 DEF Stashed
      <3>2. QED
        BY <1>t, <2>1, <2>2, <2>4, <3>1 DEF Stashed, TimeInv, NotStale
    <2>5. CASE GoneLive
      <3>1. /\ retired'[file'.live] = Never
            /\ \A t \in Tokens : retired'[t] = IF t = file.live THEN now ELSE retired[t]
        BY <1>t, <2>5 DEF GoneLive, Known
      <3>2. prev'.text \in Tokens => prev'.mtime <= retired'[prev'.text]
        BY <2>5, <3>1 DEF GoneLive, TimeInv
      <3>3. \A c \in Checks : Asking(c)' => NotStale(c, chk[c].live)'
        BY <2>1, <2>2, <3>1 DEF TimeInv, NotStale
      <3>4. ASSUME NEW c \in Checks, chk[c].pc = "accepted"
            PROVE  /\ chk[c].offered \in Tokens
                   /\ \/ chk[c].start <= retired'[chk[c].offered]
                      \/ chk[c].start < retired'[chk[c].offered] + Grace
        BY <3>1, <3>4 DEF TimeInv
      <3>5. QED
        BY <2>1, <2>5, <3>1, <3>2, <3>3, <3>4 DEF GoneLive, TimeInv
    <2>6. QED
      BY <2>1, <2>3, <2>4, <2>5
  <1>2. CASE Tick
    BY <1>2, <1>t DEF Tick, TimeInv, NotStale, Asking
  <1>3. CASE Revoke
    BY <1>3, <1>e, <1>t DEF Revoke, NoPrev, TimeInv, NotStale, Asking
  <1>4. CASE UNCHANGED vars
    BY <1>4 DEF vars, TimeInv, NotStale, Asking
  <1>5. ASSUME NEW c \in Checks, CheckStep(c) PROVE TimeInv'
    <2>1. /\ UNCHANGED <<now, file, prev, retired>>
          /\ \A b \in Checks \ {c} : chk'[b] = chk[b]
          /\ Asks(c) \/ GoesOn(c) \/ Looks(c) \/ Accepts(c) \/ Ends(c)
      BY <1>5, CheckSeen
    <2> DEFINE Fine(b) ==
                 /\ chk[b].start <= now
                 /\ Asking(b) => NotStale(b, chk[b].live)
                 /\ chk[b].pc \in {"prev", "text"} /\ prev.text \in Tokens =>
                      chk[b].start <= prev.mtime \/ chk[b].start < prev.mtime + Grace
                 /\ chk[b].pc = "accepted" =>
                      /\ chk[b].offered \in Tokens
                      /\ \/ chk[b].start <= retired[chk[b].offered]
                         \/ chk[b].start < retired[chk[b].offered] + Grace
    <2>2. \A b \in Checks : Fine(b)
      BY DEF TimeInv
    <2>3. \A b \in Checks \ {c} : Fine(b)'
      BY <2>1, <2>2 DEF NotStale, Asking
    <2>4. CASE Asks(c)
      <3>1. Asking(c)' /\ NotStale(c, chk[c].live)'
        BY <1>t, <2>1, <2>4 DEF Asks, TimeInv, Asking, NotStale
      <3>2. Fine(c)'
        BY <1>t, <2>1, <2>4, <3>1 DEF Asks
      <3>3. QED
        BY <2>1, <2>3, <3>2 DEF TimeInv
    <2>5. CASE GoesOn(c)
      <3>1. chk[c].start < prev.mtime + Grace
        BY <1>t, <2>2, <2>5 DEF GoesOn, PrevIsYoung
      <3>2. Asking(c)' /\ NotStale(c, chk[c].live)'
        BY <2>1, <2>2, <2>5 DEF GoesOn, Asking, NotStale
      <3>3. Fine(c)'
        BY <2>1, <2>2, <2>5, <3>1, <3>2 DEF GoesOn
      <3>4. QED
        BY <2>1, <2>3, <3>3 DEF TimeInv
    <2>6. CASE Accepts(c)
      <3>1. chk[c].offered \in Tokens
        BY <2>6 DEF Accepts, Asking, UnknownInv, Known
      <3>2. chk[c].start <= retired[chk[c].offered] \/ chk[c].start < retired[chk[c].offered] + Grace
        <4>1. CASE Asking(c) /\ chk[c].offered = chk[c].live
          BY <2>2, <4>1 DEF NotStale
        <4>2. CASE chk[c].pc = "text" /\ chk[c].offered = prev.text
          <5>1. prev.mtime <= retired[chk[c].offered] /\ retired[chk[c].offered] \in Nat
            BY <1>t, <3>1, <4>2 DEF TimeInv
          <5>2. chk[c].start <= prev.mtime \/ chk[c].start < prev.mtime + Grace
            BY <2>2, <3>1, <4>2
          <5>3. QED
            BY <1>t, <5>1, <5>2
        <4>3. QED
          BY <2>6, <4>1, <4>2 DEF Accepts
      <3>3. Fine(c)'
        BY <2>1, <2>2, <2>6, <3>1, <3>2 DEF Accepts, Asking
      <3>4. QED
        BY <2>1, <2>3, <3>3 DEF TimeInv
    <2>7. CASE Ends(c)
      <3>1. Fine(c)'
        BY <1>t, <2>1, <2>7 DEF Ends, NoCheck, Asking
      <3>2. QED
        BY <2>1, <2>3, <3>1 DEF TimeInv
    <2>8. CASE Looks(c)
      <3>1. Asking(c)' /\ NotStale(c, chk[c].live)'
        BY <2>1, <2>2, <2>8 DEF Looks, Asking, NotStale
      <3>2. Fine(c)'
        BY <2>1, <2>2, <2>8, <3>1 DEF Looks
      <3>3. QED
        BY <2>1, <2>3, <3>2 DEF TimeInv
    <2>9. QED
      BY <2>1, <2>4, <2>5, <2>6, <2>7, <2>8
  <1>6. QED
    BY <1>1, <1>2, <1>3, <1>4, <1>5, StepKinds

(***************************************************************************)
(* Revocation.  A revoked token was known, is neither live nor in .prev,   *)
(* and what goes live is known to nobody: it cannot come back.             *)
(***************************************************************************)
RevInv ==
    /\ revoked \subseteq Known \ {file.live, prev.text}
    /\ prev.text \in Tokens => prev.text \in Known
    /\ \A c \in Checks :
         /\ chk[c].dead \subseteq revoked
         /\ Asking(c) => chk[c].live \notin chk[c].dead
         /\ chk[c].pc = "accepted" => chk[c].offered \notin chk[c].dead

LEMMA InitRev == Init => RevInv
  <1> SUFFICES ASSUME Init PROVE RevInv
    OBVIOUS
  <1>1. revoked = {} /\ prev.text = Absent /\ \A c \in Checks : chk[c].dead = {}
    BY DEF Init, NoPrev, NoCheck
  <1>2. QED
    BY <1>1, TokenAssumption DEF RevInv, Unreadable

LEMMA StepRev == OneRotation /\ TypeInv /\ UnknownInv /\ AloneInv /\ RevInv /\ [Next]_vars => RevInv'
  <1> SUFFICES ASSUME OneRotation, TypeInv, UnknownInv, AloneInv, RevInv, [Next]_vars
               PROVE  RevInv'
    OBVIOUS
  <1>e. Absent \notin Tokens /\ Empty \notin Tokens /\ file.live \in Known /\ file.live \in Tokens
    BY TokenAssumption DEF Unreadable, AloneInv, Known
  <1>1. CASE WizardCrash \/ \E r \in Rotators : RotationStep(r)
    <2>1. chk' = chk /\ revoked' = revoked /\ (Unseen \/ Stashed \/ GoneLive)
      BY <1>1, RotationSeen
    <2>2. CASE Unseen
      <3>1. Known' = Known
        BY <2>2 DEF Unseen, Known
      <3>2. QED
        BY <2>1, <2>2, <3>1 DEF Unseen, RevInv, Asking
    <2>3. CASE Stashed
      <3>1. Known' = Known
        BY <2>3 DEF Stashed, Known
      <3>2. revoked \subseteq Tokens
        BY DEF RevInv, Known
      <3>3. QED
        BY <1>e, <2>1, <2>3, <3>1, <3>2 DEF Stashed, RevInv, Asking
    <2>4. CASE GoneLive
      <3>1. now # Never /\ retired \in [Tokens -> 0..Never]
        BY TimeAssumption, Types DEF TypeInv, Never
      <3>2. ASSUME NEW t \in Known PROVE t \in Known'
        BY <2>4, <3>1, <3>2 DEF GoneLive, Known
      <3>3. revoked \subseteq Known' \ {file'.live}
        BY <2>4, <3>2 DEF GoneLive, RevInv
      <3>4. QED
        BY <2>1, <2>4, <3>2, <3>3 DEF GoneLive, RevInv, Asking
    <2>5. QED
      BY <2>1, <2>2, <2>3, <2>4
  <1>2. CASE Tick \/ UNCHANGED vars
    BY <1>2 DEF Tick, vars, RevInv, Known, Asking
  <1>3. CASE Revoke
    <2>1. prev'.text = Absent /\ Known' = Known /\ chk' = chk /\ file' = file
      BY <1>3 DEF Revoke, NoPrev, Known
    <2>2. revoked' = revoked \cup (({prev.text} \cap Tokens) \ {file.live})
      BY <1>3 DEF Revoke
    <2>3. revoked' \subseteq Known \ {file.live, Absent}
      BY <1>e, <2>2 DEF RevInv, Known
    <2>4. QED
      BY <1>e, <2>1, <2>2, <2>3 DEF RevInv, Asking
  <1>4. ASSUME NEW c \in Checks, CheckStep(c) PROVE RevInv'
    <2>1. /\ UNCHANGED <<file, prev, retired, revoked>>
          /\ \A b \in Checks \ {c} : chk'[b] = chk[b]
          /\ Asks(c) \/ GoesOn(c) \/ Looks(c) \/ Accepts(c) \/ Ends(c)
      BY <1>4, CheckSeen
    <2>2. Known' = Known
      BY <2>1 DEF Known
    <2>3. /\ chk'[c].dead \subseteq revoked
          /\ Asking(c)' => chk'[c].live \notin chk'[c].dead
          /\ chk'[c].pc = "accepted" => chk'[c].offered \notin chk'[c].dead
      <3>1. CASE Asks(c)
        BY <3>1 DEF Asks, RevInv
      <3>2. CASE GoesOn(c)
        BY <3>2 DEF GoesOn, RevInv, Asking
      <3>3. CASE Accepts(c)
        BY <3>3 DEF Accepts, RevInv, Asking
      <3>4. CASE Ends(c)
        BY <3>4 DEF Ends, NoCheck
      <3>5. CASE Looks(c)
        BY <3>5 DEF Looks, RevInv, Asking
      <3>6. QED
        BY <2>1, <3>1, <3>2, <3>3, <3>4, <3>5
    <2>4. QED
      BY <2>1, <2>2, <2>3 DEF RevInv, Asking
  <1>5. QED
    BY <1>1, <1>2, <1>3, <1>4, StepKinds

(***************************************************************************)
(* The register of valid tokens.  Once a rotation has opened .prev, what   *)
(* that held before is gone, so no token but the one it replaces can be in *)
(* its grace when the new one goes live; and a token that was no good when *)
(* a check began is none at any later moment of it.                        *)
(***************************************************************************)
PrevInv ==
    \A r \in Rotators : rot[r].pc \in {"prevOpen", "mint", "opened", "filled"}
                          => prev.text \in {Absent, Empty, file.live}
Bad(t) == t # file.live /\ (t = prev.text => ~PrevIsYoung)
Right(c) == \/ chk[c].good
            \/ /\ chk[c].live # chk[c].offered
               /\ Bad(chk[c].offered)
               /\ chk[c].pc \in {"prev", "text"} => prev.text # chk[c].offered
GoodInv == \A c \in Checks : Asking(c) => Right(c)

LEMMA InitRegister == Init => PrevInv /\ GoodInv
  BY DEF Init, PrevInv, GoodInv, Resting, NoCheck, Asking

LEMMA StepPrev ==
    OneRotation /\ TypeInv /\ UnknownInv /\ AloneInv /\ PrevInv /\ [Next]_vars => PrevInv'
  <1> SUFFICES ASSUME OneRotation, TypeInv, UnknownInv, AloneInv, PrevInv, [Next]_vars,
                      NEW r \in Rotators, rot'[r].pc \in {"prevOpen", "mint", "opened", "filled"}
               PROVE  prev'.text \in {Absent, Empty, file'.live}
    BY DEF PrevInv
  <1>t. rot \in [Rotators -> Rotation] /\ file.live \in Tokens
    BY Types DEF TypeInv, AloneInv
  <1>1. CASE WizardCrash
    BY <1>1 DEF WizardCrash, Resting
  <1>2. ASSUME RotationStep(r) PROVE prev'.text \in {Absent, Empty, file'.live}
    <2>1. CASE ReadLive(r) \/ NothingToStash(r)
      BY <1>t, <2>1 DEF ReadLive, NothingToStash
    <2>2. CASE OpenPrev(r)
      BY <2>2 DEF OpenPrev
    <2>3. CASE FillPrev(r)
      BY <2>3 DEF FillPrev, AloneInv
    <2>4. CASE FillTmp(r) \/ \E t \in Tokens : OpenTmp(r, t)
      <3>1. file'.live = file.live /\ prev' = prev
        <4>1. CASE FillTmp(r)
          BY <1>t, <4>1 DEF FillTmp, Filled, AloneInv, Opening
        <4>2. CASE \E t \in Tokens : OpenTmp(r, t)
          BY <4>2 DEF OpenTmp, Opened
        <4>3. QED
          BY <2>4, <4>1, <4>2
      <3>2. rot[r].pc \in {"mint", "opened"}
        BY <2>4 DEF FillTmp, OpenTmp
      <3>3. QED
        BY <3>1, <3>2 DEF PrevInv
    <2>5. CASE Replace(r) \/ RotationFails(r)
      BY <1>t, <2>5 DEF Replace, RotationFails, Resting
    <2>6. QED
      BY <1>2, <2>1, <2>2, <2>3, <2>4, <2>5 DEF RotationStep
  <1>3. ASSUME NEW s \in Rotators \ {r}, RotationStep(s)
        PROVE  prev'.text \in {Absent, Empty, file'.live}
    <2>1. rot'[r] = rot[r]
      BY <1>3, <1>t DEF RotationStep, ReadLive, NothingToStash, OpenPrev, FillPrev, OpenTmp,
                        FillTmp, Replace, RotationFails
    <2>2. rot[s].pc = "idle"
      BY <2>1 DEF OneRotation
    <2>3. file' = file /\ prev' = prev
      BY <1>3, <2>2 DEF RotationStep, ReadLive, NothingToStash, OpenPrev, FillPrev, OpenTmp,
                        FillTmp, Replace, RotationFails
    <2>4. QED
      BY <2>1, <2>3 DEF PrevInv
  <1>4. CASE Revoke
    BY <1>4 DEF Revoke, NoPrev
  <1>5. ASSUME UNCHANGED <<file, prev, rot>> PROVE prev'.text \in {Absent, Empty, file'.live}
    BY <1>5 DEF PrevInv
  <1>6. QED
    BY <1>1, <1>2, <1>3, <1>4, <1>5, StepKinds, CheckSeen DEF Tick, vars

LEMMA StepGood ==
    OneRotation /\ TypeInv /\ UnknownInv /\ AloneInv /\ GoodInv /\ [Next]_vars => GoodInv'
  <1> SUFFICES ASSUME OneRotation, TypeInv, UnknownInv, AloneInv, GoodInv, [Next]_vars,
                      NEW c \in Checks, Asking(c)'
               PROVE  Right(c)'
    BY DEF GoodInv
  <1>t. /\ now \in Nat /\ Grace \in Nat /\ prev.mtime \in Nat
        /\ Absent \notin Tokens /\ Empty \notin Tokens
    BY Types, TimeAssumption, TokenAssumption DEF TypeInv, PrevFile, Unreadable
  <1>f. ASSUME chk' = chk
        PROVE  Asking(c) /\ chk[c].offered \in Known /\ chk[c].offered \in Tokens
    BY <1>f DEF Asking, UnknownInv, Known
  <1>1. CASE WizardCrash \/ \E r \in Rotators : RotationStep(r)
    <2>1. now' = now /\ chk' = chk /\ (Unseen \/ Stashed \/ GoneLive)
      BY <1>1, RotationSeen
    <2>2. CASE Unseen
      BY <1>f, <2>1, <2>2 DEF Unseen, GoodInv, Right, Bad, PrevIsYoung
    <2>3. CASE Stashed
      BY <1>f, <1>t, <2>1, <2>3 DEF Stashed, GoodInv, Right, Bad, PrevIsYoung
    <2>4. CASE GoneLive
      BY <1>f, <2>1, <2>4 DEF GoneLive, GoodInv, Right, Bad, PrevIsYoung
    <2>5. QED
      BY <2>1, <2>2, <2>3, <2>4
  <1>2. CASE Tick
    <2>1. PrevIsYoung' => PrevIsYoung
      BY <1>2, <1>t DEF Tick, PrevIsYoung
    <2>2. QED
      BY <1>2, <1>f, <2>1 DEF Tick, GoodInv, Right, Bad
  <1>3. CASE Revoke
    BY <1>3, <1>f, <1>t DEF Revoke, NoPrev, GoodInv, Right, Bad, PrevIsYoung
  <1>4. CASE UNCHANGED vars
    BY <1>4, <1>f DEF vars, GoodInv, Right, Bad, PrevIsYoung
  <1>5. ASSUME NEW b \in Checks, CheckStep(b)
        PROVE  Right(c)'
    <2>1. /\ UNCHANGED <<now, file, prev>>
          /\ b # c => chk'[c] = chk[c]
          /\ Asks(b) \/ GoesOn(b) \/ Looks(b) \/ Accepts(b) \/ Ends(b)
      BY <1>5, CheckSeen
    <2>2. PrevIsYoung' <=> PrevIsYoung
      BY <2>1 DEF PrevIsYoung
    <2>3. CASE b # c
      <3>1. chk'[c] = chk[c] /\ Asking(c)
        BY <2>1, <2>3 DEF Asking
      <3>2. QED
        BY <2>1, <2>2, <3>1 DEF GoodInv, Right, Bad
    <2>4. CASE b = c /\ Asks(c)
      BY <2>1, <2>2, <2>4 DEF Asks, GoodNow, Right, Bad
    <2>5. CASE b = c /\ GoesOn(c)
      BY <2>1, <2>2, <2>5 DEF GoesOn, GoodInv, Asking, Right, Bad
    <2>6. CASE b = c /\ (Accepts(c) \/ Ends(c))
      BY <2>6 DEF Accepts, Ends, NoCheck, Asking
    <2>7. CASE b = c /\ Looks(c)
      BY <2>1, <2>2, <2>7 DEF Looks, GoodInv, Asking, Right, Bad
    <2>8. QED
      BY <2>1, <2>3, <2>4, <2>5, <2>6, <2>7
  <1>6. QED
    BY <1>1, <1>2, <1>3, <1>4, <1>5, StepKinds

\* What the register's variables are.
LEMMA PriorIs ==
    /\ \A t : GoodNow(t) /\ t \in Tokens <=>
                t \in Tokens /\ (t = file.live \/ \E p \in Prior : p.token = t)
    /\ \A p \in Prior : /\ p.token \in Tokens /\ p.token = prev.text /\ p.token # file.live
                        /\ p.since = retired[p.token] /\ PrevIsYoung
    /\ prev.text \in {Absent, Empty, file.live} => Prior = {}
    /\ Prior # {} => Prior = {[token |-> prev.text, since |-> retired[prev.text]]}
  <1>e. Absent \notin Tokens /\ Empty \notin Tokens
    BY TokenAssumption DEF Unreadable
  <1>1. \A p \in Prior : /\ p.token \in Tokens /\ p.token = prev.text /\ p.token # file.live
                         /\ p.since = retired[p.token] /\ PrevIsYoung
                         /\ p = [token |-> prev.text, since |-> retired[prev.text]]
    BY DEF Prior, InPrev
  <1>2. ASSUME NEW t \in Tokens, t = prev.text, PrevIsYoung, t # file.live
        PROVE  [token |-> t, since |-> retired[t]] \in Prior
    BY <1>2 DEF Prior, InPrev
  <1>3. ASSUME NEW t \in Tokens
        PROVE  GoodNow(t) <=> (t = file.live \/ \E p \in Prior : p.token = t)
    BY <1>1, <1>2, <1>3 DEF GoodNow
  <1>4. QED
    BY <1>e, <1>1, <1>3

LEMMA RequestIs ==
    ASSUME NEW c \in Checks
    PROVE  /\ Requests[c].token = chk[c].offered
           /\ Requests[c].good = chk[c].good
           /\ Asking(c) => Requests[c].stage = "asked"
           /\ ~Asking(c) => Requests[c].stage = chk[c].pc
  BY DEF Requests, Asking

(***************************************************************************)
(* The requests a revocation fell into are in progress, and a check that    *)
(* finds no .prev where it has just seen one is such a request.             *)
(***************************************************************************)
CutInv ==
    \A c \in Checks :
        /\ c \in cut => Asking(c)
        /\ chk[c].pc = "text" /\ prev.text = Absent => c \in cut

LEMMA StepCut ==
    TypeInv /\ CutInv /\ [Next /\ Histories]_<<vars, histories>> => CutInv'
  <1> SUFFICES ASSUME TypeInv, CutInv, [Next /\ Histories]_<<vars, histories>>, NEW c \in Checks
               PROVE  /\ c \in cut' => Asking(c)'
                      /\ chk'[c].pc = "text" /\ prev'.text = Absent => c \in cut'
    BY DEF CutInv
  <1>1. CASE UNCHANGED <<vars, histories>>
    BY <1>1 DEF vars, histories, CutInv, Asking
  <1>2. CASE Next /\ Histories
    <2>1. c \in cut' <=> Asking(c)' /\ (c \in cut \/ Revoking)
      BY <1>2 DEF Histories
    <2>2. ASSUME chk'[c].pc = "text", prev'.text = Absent, prev.text = Absent
          PROVE  chk[c].pc = "text"
      <3>1. CASE chk'[c] = chk[c]
        BY <2>2, <3>1
      <3>2. ASSUME NEW b \in Checks, CheckStep(b) PROVE chk[c].pc = "text"
        <4>1. CASE b # c
          BY <2>2, <3>2, <4>1, CheckSeen
        <4>2. CASE b = c
          <5>1. chk \in [Checks -> Check]
            BY Types DEF TypeInv
          <5>2. ASSUME NEW accepted, Answer(c, accepted) PROVE FALSE
            BY <2>2, <5>1, <5>2 DEF Answer, NoCheck, Check
          <5>3. QED
            BY <2>2, <3>2, <4>2, <5>1, <5>2 DEF CheckStep, CheckLive, CheckAge, CheckPrev,
                 CheckText, CheckBreaks, CheckEnds, NoCheck, Check
        <4>3. QED
          BY <4>1, <4>2
      <3>3. QED
        BY <1>2, <3>1, <3>2, ChecksOnly
    <2>3. QED
      BY <2>1, <2>2 DEF CutInv, Revoking, Asking
  <1>3. QED
    BY <1>1, <1>2

LEMMA Cuts == Spec => []CutInv
  <1>1. Init => CutInv
    BY DEF Init, CutInv, NoCheck
  <1>2. QED
    BY <1>1, Typed, StepCut, PTL DEF Spec

\* Steps that neither revoke nor touch the checks leave that history alone.
LEMMA CutKept ==
    ASSUME TypeInv, CutInv, [Histories]_<<vars, histories>>, chk' = chk, ~Revoking
    PROVE  cut' = cut
  <1>1. cut \in SUBSET Checks
    BY DEF TypeInv, TypeOK
  <1>2. QED
    BY <1>1 DEF Histories, histories, CutInv, Asking

\* A rotation step is a lapse of the token in its grace, a rotation, or nothing.
LEMMA RotationMapped ==
    ASSUME OneRotation, TypeInv, UnknownInv, AloneInv, TimeInv, PrevInv, CutInv,
           [Histories]_<<vars, histories>>,
           WizardCrash \/ \E r \in Rotators : RotationStep(r)
    PROVE  [Register!Next]_(Register!registerVars)
  <1>t. /\ now \in Nat /\ Grace \in Nat /\ prev.mtime \in Nat /\ now # Never
        /\ Absent \notin Tokens /\ Empty \notin Tokens /\ file.live \in Tokens
        /\ retired \in [Tokens -> 0..Never]
    BY Types, TimeAssumption, TokenAssumption DEF TypeInv, PrevFile, Unreadable, AloneInv, Never
  <1>1. now' = now /\ chk' = chk /\ (Unseen \/ Stashed \/ GoneLive)
    BY RotationSeen
  <1>2. Requests' = Requests /\ cut' = cut
    <2>1. ~Revoking
      BY <1>1, <1>t, FileNamesAssumption DEF Unseen, Stashed, GoneLive, Revoking
    <2>2. cut' = cut
      BY <1>1, <2>1, CutKept
    <2>3. QED
      BY <1>1, <2>2 DEF Requests, Asking
  <1>3. CASE Unseen
    <2>1. Prior' = Prior /\ Known' = Known
      BY <1>1, <1>3 DEF Unseen, Prior, InPrev, PrevIsYoung, Known
    <2>2. QED
      BY <1>1, <1>2, <1>3, <2>1 DEF Unseen, Register!registerVars
  <1>4. CASE Stashed
    <2>1. prev'.text \in {Absent, Empty, file'.live} /\ Known' = Known
      BY <1>4 DEF Stashed, Known
    <2>2. Prior' = {}
      BY <1>t, <1>4, <2>1 DEF Stashed, Prior, InPrev
    <2>3. Register!Lapse
      BY <1>1, <1>2, <1>4, <2>1, <2>2 DEF Stashed, Register!Lapse
    <2>4. QED
      BY <2>3 DEF Register!Next
  <1>5. CASE GoneLive
    <2> DEFINE n == file'.live
    <2>1. n \in Tokens \ Known /\ n # file.live /\ prev' = prev
          /\ retired' = [retired EXCEPT ![file.live] = now]
      BY <1>5, <1>t DEF GoneLive, Known
    <2>2. Known' = Known \cup {n}
      BY <1>t, <2>1 DEF Known
    <2>3. prev.text \in {Absent, Empty, file.live}
      <3>1. PICK r \in Rotators : RotationStep(r)
        BY <2>1 DEF WizardCrash, Closed
      <3>2. CASE Replace(r)
        BY <3>2 DEF Replace, PrevInv
      <3>3. ASSUME ~Replace(r) PROVE FALSE
        <4>1. CASE ReadLive(r) \/ NothingToStash(r) \/ OpenPrev(r) \/ FillPrev(r)
          BY <2>1, <4>1 DEF ReadLive, NothingToStash, OpenPrev, FillPrev
        <4>2. CASE \E t \in Tokens : OpenTmp(r, t)
          BY <2>1, <4>2 DEF OpenTmp, Opened
        <4>3. CASE FillTmp(r)
          <5>1. file.at[r] = "tmp"
            BY <4>3 DEF FillTmp, AloneInv, Opening
          <5>2. file'.live = file.live
            BY <4>3, <5>1 DEF FillTmp, Filled
          <5>3. QED
            BY <2>1, <5>2
        <4>4. CASE RotationFails(r)
          BY <2>1, <4>4 DEF RotationFails, Closed
        <4>5. QED
          BY <3>1, <3>3, <4>1, <4>2, <4>3, <4>4 DEF RotationStep
      <3>4. QED
        BY <3>2, <3>3
    <2>4. Prior' \in {{}, {[token |-> file.live, since |-> now]}}
      <3>1. retired'[file.live] = now
        BY <1>t, <2>1
      <3>2. \A t \in InPrev' : t = file.live
        BY <1>t, <2>1, <2>3 DEF InPrev
      <3>3. CASE InPrev' = {}
        BY <3>3 DEF Prior
      <3>4. CASE InPrev' # {}
        <4>1. InPrev' = {file.live}
          BY <3>2, <3>4
        <4>2. Prior' = {[token |-> file.live, since |-> now]}
          BY <3>1, <4>1 DEF Prior
        <4>3. QED
          BY <4>2
      <3>5. QED
        BY <3>3, <3>4
    <2>5. \A p \in Prior' : now < p.since + Grace
      <3>1. SUFFICES ASSUME Prior' # {} PROVE now < now + Grace
        BY <2>4
      <3>2. PrevIsYoung'
        BY <3>1 DEF Prior, InPrev
      <3>3. QED
        BY <1>1, <1>t, <2>1, <3>2 DEF PrevIsYoung, TimeInv
    <2>6. Register!Rotate(n)
      BY <1>1, <1>2, <2>1, <2>2, <2>4, <2>5 DEF Register!Rotate, Register!InGrace
    <2>7. QED
      BY <2>1, <2>6 DEF Register!Next
  <1>6. QED
    BY <1>1, <1>3, <1>4, <1>5

\* A check asks, gets its answer, or ends: reading the age of .prev is no step of it.
LEMMA CheckMapped ==
    ASSUME TypeInv, TypeInv', UnknownInv, GoodInv, CutInv, [Histories]_<<vars, histories>>,
           NEW c \in Checks, CheckStep(c)
    PROVE  [Register!Next]_(Register!registerVars)
  <1>1. /\ UNCHANGED <<now, file, prev, drawn, rot, retired, revoked>>
        /\ \A b \in Checks \ {c} : chk'[b] = chk[b]
        /\ Asks(c) \/ GoesOn(c) \/ Looks(c) \/ Accepts(c) \/ Ends(c)
    BY CheckSeen
  <1>2. /\ now' = now /\ file' = file /\ Prior' = Prior /\ Known' = Known
    BY <1>1 DEF Prior, InPrev, PrevIsYoung, Known
  <1>3. \A x : Requests'[c] = x => Requests' = [Requests EXCEPT ![c] = x]
    BY <1>1 DEF Requests, Asking
  <1>h. cut' = IF Asking(c)' THEN cut ELSE cut \ {c}
    <2>1. cut \in SUBSET Checks /\ \A b \in cut : Asking(b)
      BY DEF TypeInv, TypeOK, CutInv
    <2>2. ~Revoking /\ \A b \in Checks \ {c} : Asking(b)' <=> Asking(b)
      BY <1>1 DEF Revoking, Asking
    <2>3. CASE Histories
      BY <2>1, <2>2, <2>3 DEF Histories
    <2>4. CASE UNCHANGED <<vars, histories>>
      BY <2>1, <2>4 DEF vars, histories, Asking
    <2>5. QED
      BY <2>3, <2>4
  <1>4. CASE Asks(c)
    <2> DEFINE t == chk'[c].offered
    <2>1. ~Asking(c) /\ Asking(c)' /\ chk[c].pc = "idle" /\ t \in Known /\ t \in Tokens
      BY <1>4 DEF Asks, Asking, Known
    <2>2. chk'[c].good = Register!Valid(t)
      <3>1. chk'[c].good = GoodNow(t)
        BY <1>4 DEF Asks
      <3>2. GoodNow(t) <=> Register!Valid(t)
        BY <2>1, PriorIs DEF Register!Valid
      <3>3. GoodNow(t) \in BOOLEAN /\ Register!Valid(t) \in BOOLEAN
        BY DEF GoodNow, Register!Valid
      <3>4. QED
        BY <3>1, <3>2, <3>3
    <2>3. Requests'[c] = [stage |-> "asked", token |-> t, good |-> Register!Valid(t)]
      BY <2>1, <2>2 DEF Requests, Asking
    <2>4. Requests[c].stage = "idle"
      BY <2>1, RequestIs
    <2>5. Register!Ask(c, t)
      BY <1>2, <1>3, <1>h, <2>1, <2>3, <2>4 DEF Register!Ask
    <2>6. QED
      BY <2>1, <2>5 DEF Register!Next
  <1>5. CASE GoesOn(c) \/ Looks(c)
    <2>1. Requests'[c] = Requests[c] /\ Asking(c)'
      BY <1>5 DEF GoesOn, Looks, Requests, Asking
    <2>2. Requests' = Requests
      BY <1>1, <2>1 DEF Requests, Asking
    <2>3. QED
      BY <1>2, <1>h, <2>1, <2>2 DEF Register!registerVars
  <1>6. CASE Accepts(c)
    <2>1. Asking(c) /\ ~Asking(c)' /\ chk'[c].pc = "accepted" /\ chk[c].good
      BY <1>6 DEF Accepts, Asking, GoodInv, Right
    <2>2. Requests[c] = [stage |-> "asked", token |-> chk[c].offered, good |-> chk[c].good]
      BY <2>1 DEF Requests, Asking
    <2>3. Requests[c].stage = "asked" /\ Requests[c].good
      BY <2>1, RequestIs
    <2>4. Requests'[c] = [stage |-> "accepted", token |-> chk[c].offered, good |-> chk[c].good]
      BY <1>6, <2>1 DEF Requests, Accepts, Asking
    <2>5. Requests'[c] = [Requests[c] EXCEPT !.stage = "accepted"]
      BY <2>2, <2>4
    <2>6. Register!Accept(c)
      BY <1>2, <1>3, <1>h, <2>1, <2>3, <2>5 DEF Register!Accept
    <2>7. QED
      BY <2>6 DEF Register!Next
  <1>7. CASE Ends(c)
    <2>1. Requests'[c] = Register!NoRequest
      <3>1. /\ chk'[c].pc = "idle" /\ chk'[c].offered = Absent /\ chk'[c].good = FALSE
        BY <1>7 DEF Ends, NoCheck
      <3>2. QED
        BY <3>1 DEF Requests, Register!NoRequest, Asking
    <2>2. Requests' = [Requests EXCEPT ![c] = Register!NoRequest]
      BY <1>3, <2>1
    <2>n. ~Asking(c)'
      BY <1>7 DEF Ends, NoCheck, Asking
    <2>r. Asking(c) => Requests[c].stage = "asked" /\ Requests[c].token = chk[c].offered
      BY RequestIs
    <2>3. CASE CheckBreaks(c)
      <3>1. Asking(c) /\ c \in cut
        BY <2>3 DEF CheckBreaks, CutInv, Asking
      <3>2. Register!Error(c)
        BY <1>2, <1>h, <2>2, <2>n, <2>r, <3>1 DEF Register!Error
      <3>3. QED
        BY <3>2 DEF Register!Next
    <2>4. CASE Asking(c) /\ ~CheckBreaks(c)
      <3>1. ~GoodNow(chk[c].offered) /\ chk[c].offered \in Tokens
        BY <1>7, <2>4, RefusedIsBad DEF Refuses, Ends, NoCheck, UnknownInv, Known
      <3>2. ~Register!Valid(Requests[c].token)
        BY <2>4, <2>r, <3>1, PriorIs DEF Register!Valid
      <3>3. Register!Reject(c)
        BY <1>2, <1>h, <2>2, <2>4, <2>n, <2>r, <3>2 DEF Register!Reject
      <3>4. QED
        BY <3>3 DEF Register!Next
    <2>5. CASE ~Asking(c)
      <3>1. chk[c].pc = "accepted"
        BY <1>7, <2>5, Types DEF TypeInv, Check, Ends, Asking
      <3>2. Requests[c].stage = "accepted"
        BY <2>5, <3>1, RequestIs
      <3>3. cut' = cut
        BY <1>h, <2>5, <2>n DEF CutInv
      <3>4. Register!Ends(c)
        BY <1>2, <2>2, <3>2, <3>3 DEF Register!Ends
      <3>5. QED
        BY <3>4 DEF Register!Next
    <2>6. QED
      BY <2>3, <2>4, <2>5
  <1>8. QED
    BY <1>1, <1>4, <1>5, <1>6, <1>7

\* The clock ends a grace at the latest when it is over; a revocation at once.
LEMMA OtherMapped ==
    ASSUME TypeInv, AloneInv, TimeInv, CutInv, [Histories]_<<vars, histories>>,
           Tick \/ Revoke \/ UNCHANGED vars
    PROVE  [Register!Next]_(Register!registerVars)
  <1>t. /\ now \in Nat /\ Grace \in Nat /\ prev.mtime \in Nat /\ Absent \notin Tokens
        /\ retired \in [Tokens -> Nat]
    BY Types, TimeAssumption, TokenAssumption DEF TypeInv, PrevFile, Unreadable, Never
  <1>1. Known' = Known /\ Requests' = Requests /\ file' = file
    BY DEF Tick, Revoke, vars, Known, Requests, Asking
  <1>h. Tick \/ UNCHANGED vars => cut' = cut
    BY CutKept DEF Tick, vars, Revoking
  <1>2. CASE Tick
    <2>1. now' = now + 1 /\ prev' = prev /\ retired' = retired
      BY <1>2 DEF Tick
    <2>2. CASE PrevIsYoung'
      <3>1. PrevIsYoung
        BY <1>t, <2>1, <2>2 DEF PrevIsYoung
      <3>2. Prior' = Prior
        BY <1>1, <2>1, <2>2, <3>1 DEF Prior, InPrev
      <3>3. ASSUME NEW p \in Prior PROVE now + 1 < p.since + Grace
        <4>1. p.token \in Tokens /\ p.token = prev.text /\ p.since = retired[p.token]
          BY PriorIs
        <4>2. prev.mtime <= p.since /\ p.since \in Nat
          BY <1>t, <4>1 DEF TimeInv
        <4>3. now + 1 < prev.mtime + Grace
          BY <2>1, <2>2 DEF PrevIsYoung
        <4>4. QED
          BY <1>t, <4>2, <4>3
      <3>4. QED
        BY <1>1, <1>2, <1>h, <2>1, <3>2, <3>3 DEF Register!Next, Register!Tick, Register!InGrace
    <2>3. CASE ~PrevIsYoung'
      <3>1. Prior' = {}
        BY <2>3 DEF Prior, InPrev
      <3>2. QED
        BY <1>1, <1>2, <1>h, <2>1, <3>1 DEF Register!Next, Register!Tick, Register!InGrace
    <2>4. QED
      BY <2>2, <2>3
  <1>3. CASE Revoke
    <2>1. now' = now /\ prev'.text = Absent
      BY <1>3 DEF Revoke, NoPrev
    <2>2. Prior' = {}
      BY <1>t, <2>1 DEF Prior, InPrev
    <2>3. chk' = chk /\ Revoking
      BY <1>3, <2>1 DEF Revoke, Revoking
    <2>4. cut' = {c \in Checks : Asking(c)}
      <3>1. Histories
        BY <1>3 DEF Revoke, vars, NoPrev
      <3>2. QED
        BY <2>3, <3>1 DEF Histories, Asking
    <2>5. \A c \in Checks : Asking(c) <=> Requests[c].stage = "asked"
      BY Types, RequestIs DEF TypeInv, Check
    <2>6. QED
      BY <1>1, <2>1, <2>2, <2>4, <2>5 DEF Register!Next, Register!Revoke
  <1>4. CASE UNCHANGED vars
    <2>1. now' = now /\ Prior' = Prior
      BY <1>4 DEF vars, Prior, InPrev, PrevIsYoung
    <2>2. QED
      BY <1>1, <1>4, <1>h, <2>1 DEF Register!registerVars
  <1>5. QED
    BY <1>2, <1>3, <1>4

LEMMA InitMapped == Init => Register!Init
  <1> SUFFICES ASSUME Init PROVE Register!Init
    OBVIOUS
  <1>1. now = 0 /\ file.live = First /\ prev.text = Absent /\ First \in Tokens
    BY TokenAssumption DEF Init, NoFile, NoPrev
  <1>2. Prior = {}
    BY <1>1 DEF Prior, InPrev, PrevIsYoung
  <1>3. Known = {First}
    BY <1>1 DEF Init, Known
  <1>4. Requests = [c \in Checks |-> Register!NoRequest]
    <2>1. \A c \in Checks : chk[c].pc = "idle" /\ chk[c].offered = Absent /\ chk[c].good = FALSE
      BY DEF Init, NoCheck
    <2>2. QED
      BY <2>1 DEF Requests, Register!NoRequest, Asking
  <1>5. QED
    BY <1>1, <1>2, <1>3, <1>4 DEF Register!Init, Init

(***************************************************************************)
(* All of it holds until two rotations meet.                               *)
(***************************************************************************)
SerialInv ==
    ~met => OneRotation /\ AloneInv /\ TimeInv /\ RevInv /\ PrevInv /\ GoodInv

LEMMA Serial == Spec => []SerialInv
  <1>1. Init => SerialInv
    BY InitAlone, InitTime, InitRev, InitRegister DEF SerialInv, Init, OneRotation, Resting
  <1>2. TypeInv /\ UnknownInv /\ SerialInv /\ [Next /\ Histories]_<<vars, histories>> => SerialInv'
    <2> SUFFICES ASSUME TypeInv, UnknownInv, SerialInv, [Next /\ Histories]_<<vars, histories>>, ~met'
                 PROVE  (OneRotation /\ AloneInv /\ TimeInv /\ RevInv /\ PrevInv /\ GoodInv)'
      BY DEF SerialInv
    <2>1. [Next]_vars /\ ~met /\ TypeInv'
      BY Steps
    <2>2. OneRotation /\ AloneInv /\ TimeInv /\ RevInv /\ PrevInv /\ GoodInv
      BY <2>1 DEF SerialInv
    <2>3. OneRotation'
      <3>1. CASE Histories
        BY <3>1 DEF Histories, OneRotation
      <3>2. CASE UNCHANGED vars
        BY <2>2, <3>2 DEF vars, OneRotation
      <3>3. QED
        BY <3>1, <3>2
    <2>4. QED
      BY <2>1, <2>2, <2>3, StepAlone, StepTime, StepRev, StepPrev, StepGood
  <1>3. QED
    BY <1>1, <1>2, Typed, Unknown, PTL DEF Spec

\* Until two rotations meet the file of the live token holds a token at all times.
THEOREM LiveTokenUsable == Spec => []LiveUsableAlone
  <1>1. SerialInv /\ TypeInv => LiveUsableAlone
    BY DEF SerialInv, AloneInv, LiveUsableAlone, LiveUsable
  <1>2. QED
    BY <1>1, Serial, Typed, PTL

\* Until two rotations meet no request that begins when a token's grace is over is
\* accepted with it.
THEOREM GraceIsBounded == Spec => []AcceptWithinGrace
  <1>1. SerialInv => AcceptWithinGrace
    BY DEF SerialInv, TimeInv, AcceptWithinGrace
  <1>2. QED
    BY <1>1, Serial, PTL

\* Until two rotations meet a revoked token is refused by every request that begins
\* after its revocation.
THEOREM RevocationIsFinal == Spec => []RevokedStaysDead
  <1>1. SerialInv => RevokedStaysDead
    BY DEF SerialInv, RevInv, RevokedStaysDead
  <1>2. QED
    BY <1>1, Serial, PTL

\* Until two rotations meet the two files, and the reads a rotation can come between,
\* are one register of valid tokens.
THEOREM RegisterImplemented == Spec => ImplementsRegister
  <1>1. TypeInv /\ UnknownInv /\ CutInv /\ SerialInv /\ [Next /\ Histories]_<<vars, histories>>
          => [met' \/ Register!Next]_(Register!registerVars)
    <2> SUFFICES ASSUME TypeInv, UnknownInv, CutInv, SerialInv, [Next /\ Histories]_<<vars, histories>>, ~met'
                 PROVE  [Register!Next]_(Register!registerVars)
      OBVIOUS
    <2>1. [Next]_vars /\ ~met /\ TypeInv' /\ [Histories]_<<vars, histories>>
      BY Steps
    <2>2. OneRotation /\ AloneInv /\ TimeInv /\ PrevInv /\ GoodInv
      BY <2>1 DEF SerialInv
    <2>3. QED
      BY <2>1, <2>2, StepKinds, RotationMapped, CheckMapped, OtherMapped
  <1>2. QED
    BY <1>1, InitMapped, Typed, Unknown, Cuts, Serial, PTL DEF Spec, ImplementsRegister
=============================================================================
