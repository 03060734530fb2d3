------------------------ MODULE AdminPasswordProofs ------------------------
(***************************************************************************)
(* Theorems about AdminPassword for every set of requests, processes,      *)
(* passwords and tokens.                                                   *)
(***************************************************************************)
EXTENDS AdminPassword, TmpRenameProofs

\* What an operation keeps when it moves on.
LEMMA OnwardFacts ==
    ASSUME NEW o \in Operations, NEW stage \in Stages
    PROVE  LET n == Onward(o, stage)
           IN  /\ n \in Operations
               /\ n.pc = stage /\ n.kind = o.kind /\ n.did = o.did
               /\ stage \in {"whoami", "login"} => n.pw = o.pw
               /\ stage \in {"whoami", "cache", "cacheOpen", "cacheFull", "call"} => n.tok = o.tok
               /\ stage \notin Outcomes => n.new = o.new
               /\ n.calm => o.calm
<1> DEFINE pw == IF stage \in {"whoami", "login"} THEN o.pw ELSE Absent
           tok == IF stage \in {"whoami", "cache", "cacheOpen", "cacheFull", "call"}
                  THEN o.tok ELSE Absent
           new == IF stage \in Outcomes THEN Absent ELSE o.new
           calm == o.calm /\ stage \notin {"update", "ok", "failed"}
           n == [o EXCEPT !.pc = stage, !.pw = pw, !.tok = tok, !.new = new, !.calm = calm]
<1>1. /\ pw \in {Absent} \cup Passwords /\ tok \in {Absent, Garbage} \cup Tokens
      /\ new \in {Absent} \cup Passwords
  BY DEF Operations
<1>2. calm \in BOOLEAN /\ (calm => o.calm)
  OBVIOUS
<1> HIDE DEF pw, tok, new, calm
<1>3. /\ n \in Operations /\ n.pc = stage /\ n.kind = o.kind /\ n.did = o.did
      /\ n.pw = pw /\ n.tok = tok /\ n.new = new /\ n.calm = calm
  BY <1>1, <1>2 DEF Operations
<1>4. n = Onward(o, stage)
  BY DEF Onward, pw, tok, new, calm
<1> HIDE DEF n
<1>5. QED
  BY <1>2, <1>3, <1>4 DEF pw, tok, new

\* What a step of one actor that only moves on changes.
LEMMA MovesOn ==
    ASSUME TypeOK, NEW a \in Actors, NEW stage \in Stages, GoTo(a, stage)
    PROVE  /\ op' \in [Actors -> Operations]
           /\ \A b \in Actors \ {a} : op'[b] = op[b]
           /\ op'[a].pc = stage /\ op'[a].kind = op[a].kind /\ op'[a].did = op[a].did
           /\ stage \in {"whoami", "login"} => op'[a].pw = op[a].pw
           /\ stage \in {"whoami", "cache", "cacheOpen", "cacheFull", "call"}
                => op'[a].tok = op[a].tok
           /\ stage \notin Outcomes => op'[a].new = op[a].new
           /\ op'[a].calm => op[a].calm
<1>1. op \in [Actors -> Operations] /\ op[a] \in Operations
  BY DEF TypeOK
<1>2. Onward(op[a], stage) \in Operations
  BY <1>1, OnwardFacts
<1>3. op' = [op EXCEPT ![a] = Onward(op[a], stage)]
  BY DEF GoTo
<1>4. op' \in [Actors -> Operations] /\ op'[a] = Onward(op[a], stage)
      /\ \A b \in Actors \ {a} : op'[b] = op[b]
  BY <1>1, <1>2, <1>3
<1>5. QED
  BY <1>1, <1>4, OnwardFacts

\* The same for a step that also obtains a token.
LEMMA TakesToken ==
    ASSUME TypeOK, NEW a \in Actors, NEW stage \in Stages \ Outcomes, NEW t \in Tokens \cup {Garbage},
           op' = [op EXCEPT ![a] = [Onward(@, stage) EXCEPT !.tok = t]]
    PROVE  /\ op' \in [Actors -> Operations]
           /\ \A b \in Actors \ {a} : op'[b] = op[b]
           /\ op'[a].pc = stage /\ op'[a].kind = op[a].kind /\ op'[a].did = op[a].did
           /\ stage \in {"whoami", "login"} => op'[a].pw = op[a].pw
           /\ op'[a].new = op[a].new
           /\ op'[a].calm => op[a].calm
<1>1. op \in [Actors -> Operations] /\ op[a] \in Operations /\ stage \in Stages
  BY DEF TypeOK
<1> DEFINE n == Onward(op[a], stage)
           m == [n EXCEPT !.tok = t]
<1>2. /\ n \in Operations /\ n.pc = stage /\ n.kind = op[a].kind /\ n.did = op[a].did
      /\ stage \in {"whoami", "login"} => n.pw = op[a].pw
      /\ n.new = op[a].new /\ (n.calm => op[a].calm)
  BY <1>1, OnwardFacts
<1>3. op' = [op EXCEPT ![a] = m]
  OBVIOUS
<1> HIDE DEF n
<1>4. /\ m \in Operations /\ m.tok = t /\ m.pc = n.pc /\ m.kind = n.kind /\ m.did = n.did
      /\ m.pw = n.pw /\ m.new = n.new /\ m.calm = n.calm
  BY <1>2 DEF Operations
<1> HIDE DEF m
<1>5. op' \in [Actors -> Operations] /\ op'[a] = m /\ \A b \in Actors \ {a} : op'[b] = op[b]
  BY <1>1, <1>3, <1>4
<1>6. QED
  BY <1>2, <1>4, <1>5

\* What a reset of the password changes.
LEMMA SetsPassword ==
    ASSUME TypeOK, NEW a \in Actors, NEW stage \in Stages, NEW kept \in SUBSET Tokens,
           op[a].new \in Passwords, SetPassword(a, kept, stage)
    PROVE  /\ op' \in [Actors -> Operations]
           /\ op'[a] = [Onward(op[a], stage) EXCEPT !.did = TRUE]
           /\ op'[a].pc = stage /\ op'[a].did /\ op'[a].kind = op[a].kind
           /\ stage \notin Outcomes => op'[a].new = op[a].new
           /\ \A b \in Actors \ {a} : /\ op'[b] = [op[b] EXCEPT !.calm = FALSE]
                                      /\ ~op'[b].calm /\ op'[b].pc = op[b].pc
                                      /\ op'[b].kind = op[b].kind /\ op'[b].did = op[b].did
                                      /\ op'[b].new = op[b].new
           /\ syn' \in [pw : Passwords, alive : SUBSET Tokens, rec : SUBSET Cli]
           /\ syn'.pw = op[a].new /\ syn'.alive = kept
<1>1. op \in [Actors -> Operations] /\ op[a] \in Operations
  BY DEF TypeOK
<1>2. /\ Onward(op[a], stage) \in Operations /\ Onward(op[a], stage).pc = stage
      /\ Onward(op[a], stage).kind = op[a].kind
      /\ stage \notin Outcomes => Onward(op[a], stage).new = op[a].new
  BY <1>1, OnwardFacts
<1> DEFINE n == Onward(op[a], stage)
           m == [n EXCEPT !.did = TRUE]
<1> HIDE DEF n
<1>3. m \in Operations /\ m.pc = n.pc /\ m.did /\ m.kind = n.kind /\ m.new = n.new
  BY <1>2 DEF n, Operations
<1>4. op' = [b \in Actors |-> IF b = a THEN m ELSE [op[b] EXCEPT !.calm = FALSE]]
  BY DEF SetPassword, n
<1> HIDE DEF m
<1>5. ASSUME NEW b \in Actors \ {a}
      PROVE  LET o == [op[b] EXCEPT !.calm = FALSE]
             IN  /\ o \in Operations /\ ~o.calm /\ o.pc = op[b].pc /\ o.kind = op[b].kind
                 /\ o.did = op[b].did /\ o.new = op[b].new
  BY <1>1 DEF Operations
<1>6. op' \in [Actors -> Operations]
  BY <1>3, <1>4, <1>5
<1>7. op'[a] = m /\ \A b \in Actors \ {a} : op'[b] = [op[b] EXCEPT !.calm = FALSE]
  BY <1>4
<1>8. syn' = [syn EXCEPT !.pw = op[a].new, !.alive = kept]
  BY DEF SetPassword
<1>9. /\ syn' \in [pw : Passwords, alive : SUBSET Tokens, rec : SUBSET Cli]
      /\ syn'.pw = op[a].new /\ syn'.alive = kept
  BY <1>8 DEF TypeOK
<1>10. m = [Onward(op[a], stage) EXCEPT !.did = TRUE]
  BY DEF m, n
<1>11. /\ op'[a].pc = stage /\ op'[a].did /\ op'[a].kind = op[a].kind
       /\ stage \notin Outcomes => op'[a].new = op[a].new
  BY <1>2, <1>3, <1>7 DEF n
<1>12. QED
  BY <1>5, <1>6, <1>7, <1>9, <1>10, <1>11

-----------------------------------------------------------------------------
\* What the stage of an operation says of its kind, of the new password and of `did`.
StageOK(o) ==
    /\ o.pc \in {"lookup", "whoami", "login", "cache", "cacheOpen", "cacheFull", "call"}
         => o.kind \in {"look", "reset", "change"}
    /\ o.pc \in {"register", "recLogin", "recReset", "recDrop", "cleanup"} => o.kind = "recover"
    /\ o.pc \in {"update", "write"} => o.kind \in {"change", "recover"}
    /\ o.pc \in {"recDrop", "update", "write"} => o.did
    /\ o.kind \in Setting /\ o.pc \notin Outcomes => o.new \in Passwords
    /\ o.pc \in {"cache", "cacheOpen"} => o.tok \in Tokens
    /\ o.pc = "idle" => ~o.did
StageInv == \A a \in Actors : StageOK(op[a]) /\ op[a].kind \in {"none"} \cup Kinds[a]

\* Recoveries are run from a shell.
LEMMA RecoversInCli ==
    \A a \in Actors : op[a].kind \in {"none"} \cup Kinds[a] /\ op[a].kind = "recover" => a \in Cli
  BY KindsAssumption DEF Actors

\* An actor that does nothing is in order.
LEMMA IdleFacts ==
    /\ Idle \in Operations /\ StageOK(Idle)
    /\ Idle.kind = "none" /\ Idle.pc = "idle" /\ ~Idle.did /\ ~Idle.calm
  BY DEF Idle, Operations, StageOK, Stages, Setting, Outcomes

\* So is one that just began, and it knows the password when .setup-complete does.
LEMMA StartedFacts ==
    ASSUME TypeOK, sentinel \in Passwords,
           NEW k \in {"look"} \cup Setting, NEW n \in Aims(k)
    PROVE  LET o == Started(k, n)
           IN  /\ o \in Operations /\ StageOK(o) /\ o.kind = k /\ ~o.did
               /\ o.pc \in {"lookup", "register"}
               /\ o.calm => o.pw = syn.pw
<1>1. n \in {Absent} \cup Passwords /\ (k \in Setting => n \in Passwords)
  BY DEF Aims, Setting
<1>2. CASE k = "recover"
  <2>1. Started(k, n) = [kind |-> k, pc |-> "register", pw |-> Absent, tok |-> Absent,
                         new |-> n, did |-> FALSE, calm |-> FALSE]
    BY <1>2 DEF Started, Idle
  <2> DEFINE o == Started(k, n)
  <2>2. o \in Operations
    <3>1. k \in {"none", "look"} \cup Setting /\ "register" \in Stages
      BY DEF Stages
    <3>2. QED
      BY <1>1, <2>1, <3>1 DEF Operations
  <2>3. o.kind = "recover" /\ o.pc = "register" /\ o.new = n /\ o.did = FALSE /\ o.calm = FALSE
    BY <1>2, <2>1
  <2>4. n \in Passwords
    BY <1>1, <1>2 DEF Setting
  <2> HIDE DEF o
  <2>5. StageOK(o)
    BY <2>3, <2>4 DEF StageOK
  <2>6. o \in Operations /\ StageOK(o) /\ o.kind = k /\ ~o.did /\ o.pc = "register" /\ ~o.calm
    BY <1>2, <2>2, <2>3, <2>5
  <2>7. QED
    BY <2>6 DEF o
<1>3. CASE k # "recover"
  <2> DEFINE calm == sentinel = syn.pw
  <2>1. Started(k, n) = [kind |-> k, pc |-> "lookup", pw |-> sentinel, tok |-> Absent,
                         new |-> n, did |-> FALSE, calm |-> calm]
    BY <1>3 DEF Started, Idle
  <2>2. calm \in BOOLEAN /\ (calm => sentinel = syn.pw)
    OBVIOUS
  <2> HIDE DEF calm
  <2>3. QED
    BY <1>1, <1>3, <2>1, <2>2 DEF Operations, StageOK, Stages, Setting, Outcomes
<1>4. QED
  BY <1>2, <1>3

\* An actor's step that leaves the others' operations alone keeps StageInv when its own
\* operation is in order.
LEMMA OneActor ==
    ASSUME StageInv, NEW a \in Actors, op' \in [Actors -> Operations],
           StageOK(op'[a]), op'[a].kind = op[a].kind,
           \A b \in Actors \ {a} : op'[b] = op[b]
    PROVE  StageInv'
  BY DEF StageInv, StageOK

-----------------------------------------------------------------------------
\* Every step keeps the types, and the stages in order.
LEMMA TypeStep ==
    TypeOK /\ StageInv /\ [Next]_vars /\ met' \in BOOLEAN => TypeOK' /\ StageInv'
<1> SUFFICES ASSUME TypeOK, StageInv, [Next]_vars, met' \in BOOLEAN PROVE TypeOK' /\ StageInv'
  OBVIOUS
<1>1. ASSUME NEW a \in Actors, NEW stage \in Stages, GoTo(a, stage), stage # "idle", NEW o,
             o.kind = op[a].kind, o.pc = stage, o.did = op[a].did,
             stage \notin Outcomes => o.new = op[a].new, stage = "cacheOpen" => o.tok = op[a].tok,
             stage # "cache", StageOK(o)
      PROVE  op' \in [Actors -> Operations] /\ StageInv'
  <2>1. /\ op' \in [Actors -> Operations] /\ \A b \in Actors \ {a} : op'[b] = op[b]
        /\ op'[a].pc = stage /\ op'[a].kind = op[a].kind /\ op'[a].did = op[a].did
        /\ stage \notin Outcomes => op'[a].new = op[a].new
        /\ stage = "cacheOpen" => op'[a].tok = op[a].tok
    BY <1>1, MovesOn
  <2>2. StageOK(op'[a])
    BY <1>1, <2>1 DEF StageOK
  <2>3. QED
    BY <2>1, <2>2, OneActor
<1>2. ASSUME NEW a \in Actors
      PROVE  /\ op[a] \in Operations /\ StageOK(op[a])
             /\ op[a].kind \in {"none"} \cup Kinds[a]
  BY DEF TypeOK, StageInv
<1> DEFINE Fine == op' \in [Actors -> Operations] /\ StageInv'
<1> HIDE DEF Fine
<1>3. ASSUME NEW a \in Actors, NEW stage \in Stages, GoTo(a, stage), stage # "idle",
             stage \in Outcomes \/ op[a].pc \notin Outcomes,
             \/ stage \in {"refused", "failed", "ok"}
             \/ /\ stage \in {"login", "cacheOpen", "cacheFull", "call"}
                /\ op[a].pc \in {"lookup", "whoami", "cache", "cacheOpen", "cacheFull"}
                /\ stage = "cacheOpen" => op[a].pc = "cache"
             \/ /\ stage \in {"recLogin", "recReset", "cleanup"}
                /\ op[a].pc \in {"register", "recLogin", "recReset", "recDrop"}
             \/ stage = "update" /\ op[a].pc = "recDrop"
             \/ stage = "write" /\ op[a].pc = "update"
      PROVE  Fine
  <2> DEFINE o == [kind |-> op[a].kind, pc |-> stage, did |-> op[a].did,
                   new |-> op[a].new, tok |-> op[a].tok]
  <2>1. /\ o.kind = op[a].kind /\ o.pc = stage /\ o.did = op[a].did
        /\ o.new = op[a].new /\ o.tok = op[a].tok
    OBVIOUS
  <2> HIDE DEF o
  <2>2. StageOK(o)
    BY <1>2, <1>3, <2>1 DEF StageOK, Outcomes
  <2>3. QED
    BY <1>1, <1>3, <2>1, <2>2 DEF Fine
<1>4. ASSUME NEW a \in Actors, NEW stage \in {"whoami", "cache"}, NEW t \in Tokens \cup {Garbage},
             op[a].pc \in {"lookup", "login"}, stage = "cache" => t \in Tokens,
             op' = [op EXCEPT ![a] = [Onward(@, stage) EXCEPT !.tok = t]]
      PROVE  Fine
  <2>1. stage \in Stages \ Outcomes
    BY DEF Stages, Outcomes
  <2>2. /\ op' \in [Actors -> Operations] /\ \A b \in Actors \ {a} : op'[b] = op[b]
        /\ op'[a].pc = stage /\ op'[a].kind = op[a].kind /\ op'[a].did = op[a].did
        /\ op'[a].new = op[a].new
    BY <1>4, <2>1, TakesToken
  <2>3. op'[a].tok = t
    <3> DEFINE n == Onward(op[a], stage)
    <3>1. n \in Operations /\ op \in [Actors -> Operations]
      BY <1>2, <2>1, OnwardFacts DEF TypeOK
    <3>2. op' = [op EXCEPT ![a] = [n EXCEPT !.tok = t]]
      BY <1>4
    <3> HIDE DEF n
    <3>3. [n EXCEPT !.tok = t].tok = t
      BY <3>1 DEF Operations
    <3>4. QED
      BY <3>1, <3>2, <3>3
  <2>4. StageOK(op'[a])
    BY <1>2, <1>4, <2>2, <2>3 DEF StageOK, Outcomes
  <2>5. QED
    BY <2>2, <2>4, OneActor DEF Fine
<1>5. ASSUME NEW a \in Actors, NEW stage \in {"update", "ok", "failed", "recDrop"},
             NEW kept \in SUBSET Tokens, SetPassword(a, kept, stage),
             op[a].pc \in {"call", "recReset"}, op[a].kind \in Setting,
             stage = "update" => op[a].kind = "change",
             stage = "recDrop" => op[a].kind = "recover"
      PROVE  /\ Fine
             /\ syn' \in [pw : Passwords, alive : SUBSET Tokens, rec : SUBSET Cli]
  <2>1. stage \in Stages /\ op[a].new \in Passwords
    BY <1>2, <1>5 DEF Stages, Outcomes, StageOK
  <2>2. /\ op' \in [Actors -> Operations]
        /\ op'[a].pc = stage /\ op'[a].did /\ op'[a].kind = op[a].kind
        /\ stage \notin Outcomes => op'[a].new = op[a].new
        /\ \A b \in Actors \ {a} : /\ op'[b] = [op[b] EXCEPT !.calm = FALSE]
                                   /\ op'[b].pc = op[b].pc /\ op'[b].new = op[b].new
                                   /\ op'[b].kind = op[b].kind /\ op'[b].did = op[b].did
        /\ syn' \in [pw : Passwords, alive : SUBSET Tokens, rec : SUBSET Cli]
    BY <1>5, <2>1, SetsPassword
  <2>3. StageOK(op'[a])
    BY <1>5, <2>1, <2>2 DEF StageOK, Outcomes
  <2>4. ASSUME NEW b \in Actors \ {a} PROVE StageOK(op'[b])
    <3>1. op'[b].tok = op[b].tok
      BY <1>2, <2>2 DEF Operations
    <3>2. QED
      BY <1>2, <2>2, <3>1 DEF StageOK
  <2>5. StageInv'
    BY <1>2, <2>2, <2>3, <2>4 DEF StageInv, StageOK
  <2>6. QED
    BY <2>2, <2>5 DEF Fine
<1>6. ASSUME NEW A, Leave(A) PROVE Fine
  <2>1. op' \in [Actors -> Operations]
    BY <1>2, <1>6, IdleFacts DEF Leave
  <2>2. StageInv'
    BY <1>2, <1>6, IdleFacts DEF Leave, StageInv, StageOK
  <2>3. QED
    BY <2>1, <2>2 DEF Fine
<1>7. CASE UNCHANGED vars
  BY <1>7 DEF vars, TypeOK, StageInv, StageOK
<1>8. ASSUME NEW a \in Actors, NEW k \in Kinds[a], NEW n \in Passwords \cup {Absent}, Begin(a, k, n)
      PROVE  TypeOK' /\ StageInv'
  <2>1. k \in {"look"} \cup Setting /\ n \in Aims(k) /\ sentinel \in Passwords
    BY <1>8, KindsAssumption DEF Begin
  <2>2. /\ Started(k, n) \in Operations /\ StageOK(Started(k, n))
        /\ Started(k, n).kind = k
    BY <2>1, StartedFacts
  <2>3. op' = [op EXCEPT ![a] = Started(k, n)]
    BY <1>8 DEF Begin
  <2>4. op' \in [Actors -> Operations] /\ StageInv'
    BY <1>2, <2>2, <2>3 DEF TypeOK, StageInv, StageOK
  <2>5. QED
    BY <1>8, <2>4 DEF Begin, TypeOK
<1>9. ASSUME NEW a \in Actors, Lookup(a) PROVE TypeOK' /\ StageInv'
  <2>1. CASE cache.live \in {Absent, Empty}
    <3>1. op' = [op EXCEPT ![a] = Onward(@, "login")]
      BY <1>9, <2>1 DEF Lookup
    <3>2. Fine
      BY <1>3, <1>9, <3>1 DEF Lookup, GoTo, At, Stages, Outcomes
    <3>3. QED
      BY <1>9, <3>2 DEF Lookup, Fine, TypeOK
  <2>2. CASE cache.live \notin {Absent, Empty}
    <3>1. op' = [op EXCEPT ![a] = [Onward(@, "whoami") EXCEPT !.tok = cache.live]]
      BY <1>9, <2>2 DEF Lookup
    <3>2. cache.live \in Tokens \cup {Garbage}
      BY <2>2 DEF TypeOK, File, Unreadable
    <3>3. Fine
      BY <1>4, <1>9, <3>1, <3>2 DEF Lookup, At
    <3>4. QED
      BY <1>9, <3>3 DEF Lookup, Fine, TypeOK
  <2>3. QED
    BY <2>1, <2>2
<1>10. ASSUME NEW a \in Actors, Whoami(a) PROVE TypeOK' /\ StageInv'
  <2>1. Fine
    BY <1>3, <1>10 DEF Whoami, At, Stages, Outcomes
  <2>2. QED
    BY <1>10, <2>1 DEF Whoami, Fine, TypeOK
<1>11. ASSUME NEW a \in Actors, Login(a) PROVE TypeOK' /\ StageInv'
  <2>1. NewToken \in Tokens
    BY <1>11 DEF Login, NewToken
  <2>2. Fine
    BY <1>4, <1>11, <2>1 DEF Login, At
  <2>3. syn' \in [pw : Passwords, alive : SUBSET Tokens, rec : SUBSET Cli]
    BY <1>11, <2>1 DEF Login, TypeOK
  <2>4. QED
    BY <1>11, <2>2, <2>3 DEF Login, Fine, TypeOK
<1>12. ASSUME NEW a \in Actors, LoginRefused(a) PROVE TypeOK' /\ StageInv'
  <2>1. Fine
    BY <1>3, <1>12 DEF LoginRefused, At, Stages, Outcomes
  <2>2. QED
    BY <1>12, <2>1 DEF LoginRefused, Fine, TypeOK
<1>13. ASSUME NEW a \in Actors, OpenCache(a) PROVE TypeOK' /\ StageInv'
  <2>1. Fine
    BY <1>3, <1>13 DEF OpenCache, At, Stages, Outcomes
  <2>2. cache' \in File(Actors, Tokens)
    BY <1>13, FileTyping DEF OpenCache, TypeOK
  <2>3. QED
    BY <1>13, <2>1, <2>2 DEF OpenCache, Fine, TypeOK
<1>14. ASSUME NEW a \in Actors, FillCache(a) PROVE TypeOK' /\ StageInv'
  <2>1. Fine
    BY <1>3, <1>14 DEF FillCache, At, Stages, Outcomes
  <2>2. cache' \in File(Actors, Tokens)
    BY <1>2, <1>14, FileTyping DEF FillCache, TypeOK, At, StageOK
  <2>3. QED
    BY <1>14, <2>1, <2>2 DEF FillCache, Fine, TypeOK
<1>15. ASSUME NEW a \in Actors, ReplaceCache(a) PROVE TypeOK' /\ StageInv'
  <2>1. Fine
    BY <1>3, <1>15 DEF ReplaceCache, At, Stages, Outcomes
  <2>2. cache' \in File(Actors, Tokens)
    BY <1>15, FileTyping DEF ReplaceCache, TypeOK
  <2>3. QED
    BY <1>15, <2>1, <2>2 DEF ReplaceCache, Fine, TypeOK
<1>16. ASSUME NEW a \in Actors, CacheMoved(a) PROVE TypeOK' /\ StageInv'
  <2>1. Fine
    BY <1>3, <1>16 DEF CacheMoved, At, Stages, Outcomes
  <2>2. cache' \in File(Actors, Tokens)
    BY <1>16, FileTyping DEF CacheMoved, TypeOK
  <2>3. QED
    BY <1>16, <2>1, <2>2 DEF CacheMoved, Fine, TypeOK
<1>17. ASSUME NEW a \in Actors, Reset(a) PROVE TypeOK' /\ StageInv'
  <2>1. op[a].tok \in Tokens
    BY <1>2, <1>17 DEF Reset, TypeOK
  <2>2. PICK stage \in {AfterReset(a), "failed"} : SetPassword(a, {op[a].tok}, stage)
    BY <1>17 DEF Reset
  <2>3. /\ stage \in {"update", "ok", "failed"} /\ (stage = "update" => op[a].kind = "change")
        /\ op[a].pc = "call" /\ op[a].kind \in Setting
    BY <1>17 DEF Reset, AfterReset, At
  <2>4. Fine /\ syn' \in [pw : Passwords, alive : SUBSET Tokens, rec : SUBSET Cli]
    BY <1>5, <2>1, <2>2, <2>3
  <2>5. QED
    BY <1>17, <2>4 DEF Reset, Fine, TypeOK
<1>18. ASSUME NEW a \in Actors, Look(a) PROVE TypeOK' /\ StageInv'
  <2>1. Fine
    BY <1>3, <1>18 DEF Look, At, Stages, Outcomes
  <2>2. QED
    BY <1>18, <2>1 DEF Look, Fine, TypeOK
<1>19. ASSUME NEW a \in Actors, CallRefused(a) PROVE TypeOK' /\ StageInv'
  <2>1. Fine
    BY <1>3, <1>19 DEF CallRefused, At, Stages, Outcomes
  <2>2. QED
    BY <1>19, <2>1 DEF CallRefused, Fine, TypeOK
<1>20. ASSUME NEW a \in Actors, Register(a) PROVE TypeOK' /\ StageInv'
  <2>1. Fine
    BY <1>3, <1>20 DEF Register, At, Stages, Outcomes
  <2>2. syn' \in [pw : Passwords, alive : SUBSET Tokens, rec : SUBSET Cli]
    BY <1>2, <1>20, RecoversInCli DEF Register, Deactivate, TypeOK, At, StageOK
  <2>3. QED
    BY <1>20, <2>1, <2>2 DEF Register, Fine, TypeOK
<1>21. ASSUME NEW a \in Actors, RecLogin(a) PROVE TypeOK' /\ StageInv'
  <2>1. Fine
    BY <1>3, <1>21 DEF RecLogin, At, Stages, Outcomes
  <2>2. QED
    BY <1>21, <2>1 DEF RecLogin, Fine, TypeOK
<1>22. ASSUME NEW a \in Actors, RecReset(a) PROVE TypeOK' /\ StageInv'
  <2>1. PICK stage \in {"recDrop", "failed"} : SetPassword(a, {}, stage)
    BY <1>22 DEF RecReset
  <2>2. op[a].pc = "recReset" /\ op[a].kind = "recover"
    BY <1>2, <1>22 DEF RecReset, At, StageOK
  <2>3. Fine /\ syn' \in [pw : Passwords, alive : SUBSET Tokens, rec : SUBSET Cli]
    BY <1>5, <2>1, <2>2 DEF Setting
  <2>4. QED
    BY <1>22, <2>3 DEF RecReset, Fine, TypeOK
<1>23. ASSUME NEW a \in Actors, RecDrop(a) PROVE TypeOK' /\ StageInv'
  <2>1. Fine
    BY <1>3, <1>23 DEF RecDrop, At, Stages, Outcomes
  <2>2. syn' \in [pw : Passwords, alive : SUBSET Tokens, rec : SUBSET Cli]
    BY <1>2, <1>23, RecoversInCli DEF RecDrop, Deactivate, TypeOK, At, StageOK
  <2>3. QED
    BY <1>23, <2>1, <2>2 DEF RecDrop, Fine, TypeOK
<1>24. ASSUME NEW a \in Actors, RecError(a) PROVE TypeOK' /\ StageInv'
  <2>1. Fine
    BY <1>3, <1>24 DEF RecError, At, Stages, Outcomes
  <2>2. QED
    BY <1>24, <2>1 DEF RecError, Fine, TypeOK
<1>25. ASSUME NEW a \in Actors, Cleanup(a) PROVE TypeOK' /\ StageInv'
  <2>1. Fine
    BY <1>3, <1>25 DEF Cleanup, At, Stages, Outcomes
  <2>2. syn' \in [pw : Passwords, alive : SUBSET Tokens, rec : SUBSET Cli]
    BY <1>2, <1>25, RecoversInCli DEF Cleanup, Deactivate, TypeOK, At, StageOK
  <2>3. QED
    BY <1>25, <2>1, <2>2 DEF Cleanup, Fine, TypeOK
<1>26. ASSUME NEW a \in Actors, Truncate(a) PROVE TypeOK' /\ StageInv'
  <2>1. Fine
    BY <1>3, <1>26 DEF Truncate, At, Stages, Outcomes
  <2>2. QED
    BY <1>26, <2>1 DEF Truncate, Fine, TypeOK
<1>27. ASSUME NEW a \in Actors, Fill(a) PROVE TypeOK' /\ StageInv'
  <2>1. Fine
    BY <1>3, <1>27 DEF Fill, At, Stages, Outcomes
  <2>2. sentinel' \in Passwords
    BY <1>2, <1>27 DEF Fill, At, StageOK, Setting, Outcomes
  <2>3. QED
    BY <1>27, <2>1, <2>2 DEF Fill, Fine, TypeOK
<1>28. ASSUME NEW a \in Actors, Fails(a) PROVE TypeOK' /\ StageInv'
  <2>1. Fine
    BY <1>3, <1>28 DEF Fails, At, Stages, Outcomes
  <2>2. cache' \in File(Actors, Tokens)
    BY <1>28, FileTyping DEF Fails, TypeOK
  <2>3. QED
    BY <1>28, <2>1, <2>2 DEF Fails, Fine, TypeOK
<1>29. ASSUME NEW a \in Actors, Report(a) PROVE TypeOK' /\ StageInv'
  <2>1. Fine
    BY <1>6, <1>29 DEF Report
  <2>2. unsettled' \in BOOLEAN
    BY <1>2, <1>29 DEF Report, TypeOK, Operations
  <2>3. QED
    BY <1>29, <2>1, <2>2 DEF Report, Fine, TypeOK
<1>30. ASSUME NEW A \in SUBSET Actors, Die(A) PROVE TypeOK' /\ StageInv'
  <2>1. Fine
    BY <1>6, <1>30 DEF Die
  <2>2. cache' \in File(Actors, Tokens)
    BY <1>30, FileTyping DEF Die, TypeOK
  <2>3. unsettled' \in BOOLEAN
    BY <1>2, <1>30 DEF Die, TypeOK, Operations
  <2>4. QED
    BY <1>30, <2>1, <2>2, <2>3 DEF Die, Fine, TypeOK
<1>31. CASE Forget
  BY <1>31 DEF Forget, TypeOK, StageInv, StageOK, File, Unreadable
<1>32. QED
  BY <1>7, <1>8, <1>9, <1>10, <1>11, <1>12, <1>13, <1>14, <1>15, <1>16, <1>17, <1>18, <1>19, <1>20, <1>21, <1>22, <1>23, <1>24, <1>25, <1>26, <1>27, <1>28, <1>29, <1>30, <1>31 DEF Next, Step, Actors

\* A step of the specification is one of these.
LEMMA Steps ==
    ASSUME TypeOK, [Next /\ Meets]_<<vars, met>>
    PROVE  [Next]_vars /\ met' \in BOOLEAN
  BY DEF TypeOK, Meets

-----------------------------------------------------------------------------
\* An operation that began with the right password, and saw no reset since, has that
\* password or a token that is good, and was not refused.
SessionOK(a) ==
    op[a].calm =>
        /\ op[a].pc \in {"lookup", "whoami", "login"} => op[a].pw = syn.pw
        /\ op[a].pc \in {"cache", "cacheOpen", "cacheFull", "call"} => op[a].tok \in syn.alive
        /\ op[a].pc # "refused"
SessionInv == \A a \in Actors : SessionOK(a)

\* Every step keeps it: a login only replaces tokens that nobody holds, and a reset
\* ends the calm of all others.
LEMMA SessionStep == TypeOK /\ StageInv /\ SessionInv /\ [Next]_vars => SessionInv'
<1> SUFFICES ASSUME TypeOK, StageInv, SessionInv, [Next]_vars PROVE SessionInv'
  OBVIOUS
<1> DEFINE Kept == syn'.pw = syn.pw /\ syn'.alive = syn.alive
<1>1. ASSUME NEW a \in Actors, NEW stage \in Stages, GoTo(a, stage), Kept,
             op[a].calm =>
               /\ stage \in {"lookup", "whoami", "login"}
                    => stage = "login" /\ op[a].pc \in {"lookup", "whoami"}
               /\ stage \in {"cache", "cacheOpen", "cacheFull", "call"}
                    => \/ op[a].pc \in {"cache", "cacheOpen", "cacheFull"}
                       \/ op[a].tok \in syn.alive
               /\ stage # "refused"
      PROVE  SessionInv'
  <2>1. /\ \A b \in Actors \ {a} : op'[b] = op[b]
        /\ op'[a].pc = stage /\ (op'[a].calm => op[a].calm)
        /\ stage \in {"whoami", "login"} => op'[a].pw = op[a].pw
        /\ stage \in {"whoami", "cache", "cacheOpen", "cacheFull", "call"}
             => op'[a].tok = op[a].tok
    BY <1>1, MovesOn
  <2>2. SessionOK(a)'
    BY <1>1, <2>1 DEF SessionInv, SessionOK
  <2>3. ASSUME NEW b \in Actors \ {a} PROVE SessionOK(b)'
    BY <1>1, <2>1 DEF SessionInv, SessionOK
  <2>4. QED
    BY <2>2, <2>3 DEF SessionInv
<1>2. ASSUME NEW a \in Actors, NEW stage \in {"update", "ok", "failed", "recDrop"},
             NEW kept \in SUBSET Tokens, SetPassword(a, kept, stage),
             op[a].pc \in {"call", "recReset"}, op[a].kind \in Setting
      PROVE  SessionInv'
  <2>1. stage \in Stages /\ op[a].new \in Passwords
    BY <1>2 DEF Stages, Outcomes, StageInv, StageOK
  <2>2. /\ op'[a].pc = stage
        /\ \A b \in Actors \ {a} : ~op'[b].calm
    BY <1>2, <2>1, SetsPassword
  <2>3. QED
    BY <1>2, <2>2 DEF SessionInv, SessionOK
<1>3. ASSUME NEW A, Leave(A), UNCHANGED syn PROVE SessionInv'
  BY <1>3, IdleFacts DEF Leave, SessionInv, SessionOK
<1> HIDE DEF Kept
<1>4. CASE UNCHANGED vars
  BY <1>4 DEF vars, SessionInv, SessionOK
<1>5. ASSUME NEW a \in Actors, NEW k \in Kinds[a], NEW n \in Passwords \cup {Absent}, Begin(a, k, n)
      PROVE  SessionInv'
  <2>1. k \in {"look"} \cup Setting /\ n \in Aims(k) /\ sentinel \in Passwords
    BY <1>5, KindsAssumption DEF Begin
  <2>2. Started(k, n).pc \in {"lookup", "register"} /\ (Started(k, n).calm => Started(k, n).pw = syn.pw)
    BY <2>1, StartedFacts
  <2>3. op' = [op EXCEPT ![a] = Started(k, n)] /\ syn' = syn
    BY <1>5 DEF Begin
  <2>4. op'[a] = Started(k, n) /\ \A b \in Actors \ {a} : op'[b] = op[b]
    BY <2>3 DEF TypeOK
  <2>5. QED
    BY <2>2, <2>3, <2>4 DEF SessionInv, SessionOK
<1>6. ASSUME NEW a \in Actors, Lookup(a) PROVE SessionInv'
  <2>1. CASE cache.live \in {Absent, Empty}
    <3>1. op' = [op EXCEPT ![a] = Onward(@, "login")]
      BY <1>6, <2>1 DEF Lookup
    <3>2. QED
      BY <1>1, <1>6, <3>1 DEF Lookup, GoTo, At, Stages, Kept
  <2>2. CASE cache.live \notin {Absent, Empty}
    <3>1. op' = [op EXCEPT ![a] = [Onward(@, "whoami") EXCEPT !.tok = cache.live]]
      BY <1>6, <2>2 DEF Lookup
    <3>2. cache.live \in Tokens \cup {Garbage} /\ "whoami" \in Stages \ Outcomes
      BY <2>2 DEF TypeOK, File, Unreadable, Stages, Outcomes
    <3>3. /\ \A b \in Actors \ {a} : op'[b] = op[b]
          /\ op'[a].pc = "whoami" /\ op'[a].pw = op[a].pw /\ (op'[a].calm => op[a].calm)
      BY <3>1, <3>2, TakesToken
    <3>4. QED
      BY <1>6, <3>3 DEF Lookup, At, SessionInv, SessionOK
  <2>3. QED
    BY <2>1, <2>2
<1>7. ASSUME NEW a \in Actors, Whoami(a) PROVE SessionInv'
  BY <1>1, <1>7 DEF Whoami, At, Stages, Outcomes, Kept
<1>8. ASSUME NEW a \in Actors, Login(a) PROVE SessionInv'
  <2>1. NewToken \in Tokens
    BY <1>8 DEF Login, NewToken
  <2>2. "cache" \in Stages \ Outcomes
    BY DEF Stages, Outcomes
  <2>3. op' = [op EXCEPT ![a] = [Onward(@, "cache") EXCEPT !.tok = NewToken]]
    BY <1>8 DEF Login
  <2>4. /\ \A b \in Actors \ {a} : op'[b] = op[b]
        /\ op'[a].pc = "cache"
    BY <2>1, <2>2, <2>3, TakesToken
  <2>5. op'[a].tok = NewToken
    <3> DEFINE n == Onward(op[a], "cache")
    <3>1. n \in Operations /\ op \in [Actors -> Operations]
      BY <2>2, OnwardFacts DEF TypeOK
    <3>2. op' = [op EXCEPT ![a] = [n EXCEPT !.tok = NewToken]]
      BY <2>3
    <3> HIDE DEF n
    <3>3. [n EXCEPT !.tok = NewToken].tok = NewToken
      BY <3>1 DEF Operations
    <3>4. QED
      BY <3>1, <3>2, <3>3
  <2>6. syn'.pw = syn.pw /\ syn'.alive = (syn.alive \cap Held) \cup {NewToken}
    BY <1>8 DEF Login, TypeOK
  <2>7. \A b \in Actors : op[b].tok \in Held
    BY DEF Held
  <2>8. SessionOK(a)'
    BY <2>4, <2>5, <2>6 DEF SessionOK
  <2>9. ASSUME NEW b \in Actors \ {a} PROVE SessionOK(b)'
    BY <2>4, <2>6, <2>7 DEF SessionInv, SessionOK
  <2>10. QED
    BY <2>8, <2>9 DEF SessionInv
<1>9. ASSUME NEW a \in Actors, LoginRefused(a) PROVE SessionInv'
  <2>1. ~op[a].calm
    BY <1>9 DEF LoginRefused, At, SessionInv, SessionOK
  <2>2. QED
    BY <1>1, <1>9, <2>1 DEF LoginRefused, Stages, Outcomes, Kept
<1>10. ASSUME NEW a \in Actors, OpenCache(a) PROVE SessionInv'
  BY <1>1, <1>10 DEF OpenCache, At, Stages, Outcomes, Kept
<1>11. ASSUME NEW a \in Actors, FillCache(a) PROVE SessionInv'
  BY <1>1, <1>11 DEF FillCache, At, Stages, Outcomes, Kept
<1>12. ASSUME NEW a \in Actors, ReplaceCache(a) PROVE SessionInv'
  BY <1>1, <1>12 DEF ReplaceCache, At, Stages, Outcomes, Kept
<1>13. ASSUME NEW a \in Actors, CacheMoved(a) PROVE SessionInv'
  BY <1>1, <1>13 DEF CacheMoved, At, Stages, Outcomes, Kept
<1>14. ASSUME NEW a \in Actors, Reset(a) PROVE SessionInv'
  <2>1. op[a].tok \in Tokens
    BY <1>14 DEF Reset, TypeOK
  <2>2. PICK stage \in {AfterReset(a), "failed"} : SetPassword(a, {op[a].tok}, stage)
    BY <1>14 DEF Reset
  <2>3. stage \in {"update", "ok", "failed"} /\ op[a].pc = "call" /\ op[a].kind \in Setting
    BY <1>14 DEF Reset, AfterReset, At
  <2>4. QED
    BY <1>2, <2>1, <2>2, <2>3
<1>15. ASSUME NEW a \in Actors, Look(a) PROVE SessionInv'
  BY <1>1, <1>15 DEF Look, At, Stages, Outcomes, Kept
<1>16. ASSUME NEW a \in Actors, CallRefused(a) PROVE SessionInv'
  <2>1. ~op[a].calm
    BY <1>16 DEF CallRefused, At, SessionInv, SessionOK
  <2>2. QED
    BY <1>1, <1>16, <2>1 DEF CallRefused, Stages, Outcomes, Kept
<1>17. ASSUME NEW a \in Actors, Register(a) PROVE SessionInv'
  BY <1>1, <1>17 DEF Register, At, Stages, Outcomes, Kept, TypeOK
<1>18. ASSUME NEW a \in Actors, RecLogin(a) PROVE SessionInv'
  BY <1>1, <1>18 DEF RecLogin, At, Stages, Outcomes, Kept
<1>19. ASSUME NEW a \in Actors, RecReset(a) PROVE SessionInv'
  <2>1. PICK stage \in {"recDrop", "failed"} : SetPassword(a, {}, stage)
    BY <1>19 DEF RecReset
  <2>2. op[a].pc = "recReset" /\ op[a].kind = "recover"
    BY <1>19 DEF RecReset, At, StageInv, StageOK
  <2>3. QED
    BY <1>2, <2>1, <2>2 DEF Setting
<1>20. ASSUME NEW a \in Actors, RecDrop(a) PROVE SessionInv'
  BY <1>1, <1>20 DEF RecDrop, At, Stages, Outcomes, Kept, Deactivate, TypeOK
<1>21. ASSUME NEW a \in Actors, RecError(a) PROVE SessionInv'
  BY <1>1, <1>21 DEF RecError, At, Stages, Outcomes, Kept
<1>22. ASSUME NEW a \in Actors, Cleanup(a) PROVE SessionInv'
  BY <1>1, <1>22 DEF Cleanup, At, Stages, Outcomes, Kept, Deactivate, TypeOK
<1>23. ASSUME NEW a \in Actors, Truncate(a) PROVE SessionInv'
  BY <1>1, <1>23 DEF Truncate, At, Stages, Outcomes, Kept
<1>24. ASSUME NEW a \in Actors, Fill(a) PROVE SessionInv'
  BY <1>1, <1>24 DEF Fill, At, Stages, Outcomes, Kept
<1>25. ASSUME NEW a \in Actors, Fails(a) PROVE SessionInv'
  BY <1>1, <1>25 DEF Fails, At, Stages, Outcomes, Kept
<1>26. ASSUME NEW a \in Actors, Report(a) PROVE SessionInv'
  BY <1>3, <1>26 DEF Report
<1>27. ASSUME NEW A, Die(A) PROVE SessionInv'
  BY <1>3, <1>27 DEF Die
<1>28. CASE Forget
  BY <1>28 DEF Forget, SessionInv, SessionOK
<1>29. QED
  BY <1>4, <1>5, <1>6, <1>7, <1>8, <1>9, <1>10, <1>11, <1>12, <1>13, <1>14, <1>15, <1>16, <1>17, <1>18, <1>19, <1>20, <1>21, <1>22, <1>23, <1>24, <1>25, <1>26, <1>27, <1>28 DEF Next, Step, Actors

-----------------------------------------------------------------------------
\* An operation that has set the password and has yet to record it records the one that
\* Synapse has, and one that recorded it was right.
AimOK(a) ==
    /\ op[a].pc \in {"recDrop", "update", "write"} => op[a].new = syn.pw
    /\ op[a].pc = "ok" /\ op[a].kind \in {"change", "recover"} => sentinel = syn.pw
AimInv == \A a \in Actors : AimOK(a)

\* That is so when the operation meets no other that sets the password; drift is owed to
\* somebody in any case.
DriftInv == NoSilentDrift /\ (~met => OneSetter /\ AimInv)

\* What a step does to that, whether or not two operations meet by it.
DriftKept == NoSilentDrift' /\ (~met => AimInv')

LEMMA DriftSteps == TypeOK /\ StageInv /\ DriftInv /\ [Next]_vars => DriftKept
<1> SUFFICES ASSUME TypeOK, StageInv, DriftInv, [Next]_vars PROVE DriftKept
  OBVIOUS
<1>1. ASSUME NEW a \in Actors, NEW stage \in Stages, GoTo(a, stage),
             syn'.pw = syn.pw, sentinel' = sentinel, unsettled' = unsettled,
             stage \in {"recDrop", "update", "write"}
               => op[a].pc \in {"recDrop", "update"} /\ stage # "recDrop",
             stage = "ok" => op[a].kind \notin {"change", "recover"}
      PROVE  DriftKept
  <2>1. /\ \A b \in Actors \ {a} : op'[b] = op[b]
        /\ op'[a].pc = stage /\ op'[a].kind = op[a].kind /\ op'[a].did = op[a].did
        /\ stage \notin Outcomes => op'[a].new = op[a].new
    BY <1>1, MovesOn
  <2>2. AimInv => AimInv'
    BY <1>1, <2>1 DEF AimInv, AimOK, Outcomes
  <2>3. NoSilentDrift'
    BY <1>1, <2>1 DEF DriftInv, NoSilentDrift
  <2>4. QED
    BY <2>2, <2>3 DEF DriftInv, DriftKept
<1>2. ASSUME NEW a \in Actors, NEW stage \in {"update", "ok", "failed", "recDrop"},
             NEW kept \in SUBSET Tokens, SetPassword(a, kept, stage),
             op[a].pc \in {"call", "recReset"}, op[a].kind \in Setting,
             stage = "ok" => op[a].kind \notin {"change", "recover"},
             UNCHANGED <<sentinel, unsettled>>
      PROVE  DriftKept
  <2>1. stage \in Stages /\ op[a].new \in Passwords
    BY <1>2 DEF Stages, Outcomes, StageInv, StageOK
  <2>2. /\ op'[a].pc = stage /\ op'[a].did /\ op'[a].kind = op[a].kind
        /\ stage \notin Outcomes => op'[a].new = op[a].new
        /\ \A b \in Actors \ {a} : /\ op'[b].pc = op[b].pc /\ op'[b].kind = op[b].kind
                                   /\ op'[b].new = op[b].new
    BY <1>2, <2>1, SetsPassword
  <2>3. syn'.pw = op[a].new
    BY <1>2 DEF SetPassword, TypeOK
  <2>4. AimOK(a)'
    BY <1>2, <2>2, <2>3 DEF AimOK, Outcomes
  <2>5. ASSUME ~met, NEW b \in Actors \ {a} PROVE AimOK(b)'
    <3>1. op[b].kind \notin Setting
      BY <1>2, <2>5 DEF DriftInv, OneSetter, Setters
    <3>2. op[b].pc \notin {"recDrop", "update", "write"} /\ op[b].kind \notin {"change", "recover"}
      BY <3>1 DEF StageInv, StageOK, Setting
    <3>3. QED
      BY <2>2, <3>2 DEF AimOK
  <2>6. NoSilentDrift'
    BY <2>2 DEF NoSilentDrift
  <2>7. QED
    BY <2>4, <2>5, <2>6 DEF AimInv, DriftKept
<1>3. ASSUME NEW A, Leave(A), UNCHANGED <<syn, sentinel>>, AimInv PROVE AimInv'
  BY <1>3, IdleFacts DEF Leave, AimInv, AimOK, Setting
<1>4. CASE UNCHANGED vars
  BY <1>4 DEF vars, DriftInv, AimInv, AimOK, NoSilentDrift, DriftKept
<1>5. ASSUME NEW a \in Actors, NEW k \in Kinds[a], NEW n \in Passwords \cup {Absent}, Begin(a, k, n)
      PROVE  DriftKept
  <2>1. k \in {"look"} \cup Setting /\ n \in Aims(k) /\ sentinel \in Passwords
    BY <1>5, KindsAssumption DEF Begin
  <2>2. Started(k, n).pc \in {"lookup", "register"} /\ Started(k, n).kind = k
    BY <2>1, StartedFacts
  <2>3. op' = [op EXCEPT ![a] = Started(k, n)] /\ syn' = syn /\ sentinel' = sentinel
        /\ unsettled' = unsettled /\ op[a].pc = "idle"
    BY <1>5 DEF Begin, At
  <2>4. op'[a] = Started(k, n) /\ \A b \in Actors \ {a} : op'[b] = op[b]
    BY <2>3 DEF TypeOK
  <2>5. AimInv => AimInv'
    BY <2>2, <2>3, <2>4 DEF AimInv, AimOK
  <2>6. ~op[a].did
    BY <2>3 DEF StageInv, StageOK
  <2>7. NoSilentDrift'
    BY <2>3, <2>4, <2>6 DEF DriftInv, NoSilentDrift
  <2>8. QED
    BY <2>5, <2>7 DEF DriftInv, DriftKept
<1>6. ASSUME NEW a \in Actors, Lookup(a) PROVE DriftKept
  <2>1. CASE cache.live \in {Absent, Empty}
    <3>1. op' = [op EXCEPT ![a] = Onward(@, "login")]
      BY <1>6, <2>1 DEF Lookup
    <3>2. QED
      BY <1>1, <1>6, <3>1 DEF Lookup, GoTo, Stages
  <2>2. CASE cache.live \notin {Absent, Empty}
    <3>1. op' = [op EXCEPT ![a] = [Onward(@, "whoami") EXCEPT !.tok = cache.live]]
      BY <1>6, <2>2 DEF Lookup
    <3>2. cache.live \in Tokens \cup {Garbage} /\ "whoami" \in Stages \ Outcomes
      BY <2>2 DEF TypeOK, File, Unreadable, Stages, Outcomes
    <3>3. /\ \A b \in Actors \ {a} : op'[b] = op[b]
          /\ op'[a].pc = "whoami" /\ op'[a].kind = op[a].kind /\ op'[a].did = op[a].did
      BY <3>1, <3>2, TakesToken
    <3>4. QED
      BY <1>6, <3>3 DEF Lookup, DriftInv, AimInv, AimOK, NoSilentDrift, DriftKept
  <2>3. QED
    BY <2>1, <2>2
<1>7. ASSUME NEW a \in Actors, Whoami(a) PROVE DriftKept
  BY <1>1, <1>7 DEF Whoami, At, Stages, Outcomes
<1>8. ASSUME NEW a \in Actors, Login(a) PROVE DriftKept
  <2>1. NewToken \in Tokens
    BY <1>8 DEF Login, NewToken
  <2>2. "cache" \in Stages \ Outcomes
    BY DEF Stages, Outcomes
  <2>3. op' = [op EXCEPT ![a] = [Onward(@, "cache") EXCEPT !.tok = NewToken]]
    BY <1>8 DEF Login
  <2>4. /\ \A b \in Actors \ {a} : op'[b] = op[b]
        /\ op'[a].pc = "cache" /\ op'[a].kind = op[a].kind /\ op'[a].did = op[a].did
    BY <2>1, <2>2, <2>3, TakesToken
  <2>5. syn'.pw = syn.pw
    BY <1>8 DEF Login, TypeOK
  <2>6. QED
    BY <1>8, <2>4, <2>5 DEF Login, DriftInv, AimInv, AimOK, NoSilentDrift, DriftKept
<1>9. ASSUME NEW a \in Actors, LoginRefused(a) PROVE DriftKept
  BY <1>1, <1>9 DEF LoginRefused, At, Stages, Outcomes
<1>10. ASSUME NEW a \in Actors, OpenCache(a) PROVE DriftKept
  BY <1>1, <1>10 DEF OpenCache, At, Stages, Outcomes
<1>11. ASSUME NEW a \in Actors, FillCache(a) PROVE DriftKept
  BY <1>1, <1>11 DEF FillCache, At, Stages, Outcomes
<1>12. ASSUME NEW a \in Actors, ReplaceCache(a) PROVE DriftKept
  BY <1>1, <1>12 DEF ReplaceCache, At, Stages, Outcomes
<1>13. ASSUME NEW a \in Actors, CacheMoved(a) PROVE DriftKept
  BY <1>1, <1>13 DEF CacheMoved, At, Stages, Outcomes
<1>14. ASSUME NEW a \in Actors, Reset(a) PROVE DriftKept
  <2>1. op[a].tok \in Tokens
    BY <1>14 DEF Reset, TypeOK
  <2>2. PICK stage \in {AfterReset(a), "failed"} : SetPassword(a, {op[a].tok}, stage)
    BY <1>14 DEF Reset
  <2>3. /\ stage \in {"update", "ok", "failed"} /\ op[a].pc = "call" /\ op[a].kind \in Setting
        /\ stage = "ok" => op[a].kind # "change"
    BY <1>14 DEF Reset, AfterReset, At
  <2>4. op[a].kind # "recover"
    BY <2>3 DEF StageInv, StageOK
  <2>5. QED
    BY <1>2, <1>14, <2>1, <2>2, <2>3, <2>4 DEF Reset
<1>15. ASSUME NEW a \in Actors, Look(a) PROVE DriftKept
  BY <1>1, <1>15 DEF Look, Stages, Outcomes
<1>16. ASSUME NEW a \in Actors, CallRefused(a) PROVE DriftKept
  BY <1>1, <1>16 DEF CallRefused, At, Stages, Outcomes
<1>17. ASSUME NEW a \in Actors, Register(a) PROVE DriftKept
  BY <1>1, <1>17 DEF Register, At, Stages, Outcomes, TypeOK
<1>18. ASSUME NEW a \in Actors, RecLogin(a) PROVE DriftKept
  BY <1>1, <1>18 DEF RecLogin, At, Stages, Outcomes
<1>19. ASSUME NEW a \in Actors, RecReset(a) PROVE DriftKept
  <2>1. PICK stage \in {"recDrop", "failed"} : SetPassword(a, {}, stage)
    BY <1>19 DEF RecReset
  <2>2. op[a].pc = "recReset" /\ op[a].kind = "recover"
    BY <1>19 DEF RecReset, At, StageInv, StageOK
  <2>3. QED
    BY <1>2, <1>19, <2>1, <2>2 DEF RecReset, Setting
<1>20. ASSUME NEW a \in Actors, RecDrop(a) PROVE DriftKept
  BY <1>1, <1>20 DEF RecDrop, At, Stages, Outcomes, Deactivate, TypeOK
<1>21. ASSUME NEW a \in Actors, RecError(a) PROVE DriftKept
  BY <1>1, <1>21 DEF RecError, At, Stages, Outcomes
<1>22. ASSUME NEW a \in Actors, Cleanup(a) PROVE DriftKept
  BY <1>1, <1>22 DEF Cleanup, At, Stages, Outcomes, Deactivate, TypeOK
<1>23. ASSUME NEW a \in Actors, Truncate(a) PROVE DriftKept
  <2>1. /\ \A b \in Actors \ {a} : op'[b] = op[b]
        /\ op'[a].pc = "write" /\ op'[a].kind = op[a].kind /\ op'[a].did = op[a].did
        /\ op'[a].new = op[a].new /\ syn' = syn /\ op[a].pc = "update"
    BY <1>23, MovesOn DEF Truncate, At, Stages, Outcomes
  <2>2. op[a].did /\ op[a].kind \in Setting
    BY <2>1 DEF StageInv, StageOK, Setting
  <2>3. ASSUME ~met PROVE \A b \in Actors \ {a} : op[b].kind \notin Setting
    BY <2>2, <2>3 DEF DriftInv, OneSetter, Setters
  <2>4. ~met => AimInv'
    BY <2>1, <2>3 DEF DriftInv, AimInv, AimOK, Setting
  <2>5. NoSilentDrift'
    BY <2>1, <2>2 DEF NoSilentDrift
  <2>6. QED
    BY <2>4, <2>5 DEF DriftKept
<1>24. ASSUME NEW a \in Actors, Fill(a) PROVE DriftKept
  <2>1. PICK stage \in {"ok", "failed"} : GoTo(a, stage)
    BY <1>24 DEF Fill
  <2>2. stage \in Stages /\ op[a].pc = "write"
    BY <1>24 DEF Fill, At, Stages, Outcomes
  <2>3. /\ \A b \in Actors \ {a} : op'[b] = op[b]
        /\ op'[a].pc = stage /\ op'[a].kind = op[a].kind /\ op'[a].did = op[a].did
    BY <2>1, <2>2, MovesOn
  <2>4. ASSUME ~met PROVE AimInv'
    <3>1. syn' = syn /\ sentinel' = syn.pw
      BY <1>24, <2>2, <2>4 DEF Fill, DriftInv, AimInv, AimOK
    <3>2. QED
      BY <2>3, <2>4, <3>1 DEF DriftInv, AimInv, AimOK
  <2>5. op[a].did
    BY <2>2 DEF StageInv, StageOK
  <2>6. NoSilentDrift'
    BY <2>3, <2>5 DEF NoSilentDrift
  <2>7. QED
    BY <2>4, <2>6 DEF DriftKept
<1>25. ASSUME NEW a \in Actors, Fails(a) PROVE DriftKept
  BY <1>1, <1>25 DEF Fails, At, Stages, Outcomes
<1>26. ASSUME NEW a \in Actors, Report(a) PROVE DriftKept
  <2>1. ~met => AimInv'
    BY <1>3, <1>26 DEF Report, DriftInv
  <2>2. syn' = syn /\ sentinel' = sentinel /\ \A b \in Actors \ {a} : op'[b] = op[b]
    BY <1>26 DEF Report, Leave
  <2>3. ASSUME At(a, "ok"), op[a].kind \in {"change", "recover"}, ~met PROVE NoSilentDrift'
    BY <2>2, <2>3 DEF At, DriftInv, AimInv, AimOK, NoSilentDrift
  <2>4. ASSUME ~(At(a, "ok") /\ op[a].kind \in {"change", "recover"} /\ ~met)
        PROVE  NoSilentDrift'
    <3>1. unsettled' = (unsettled \/ op[a].did)
      BY <1>26, <2>4 DEF Report
    <3>2. QED
      BY <2>2, <3>1 DEF DriftInv, NoSilentDrift
  <2>5. NoSilentDrift'
    BY <2>3, <2>4
  <2>6. QED
    BY <2>1, <2>5 DEF DriftKept
<1>27. ASSUME NEW A, Die(A) PROVE DriftKept
  <2>1. ~met => AimInv'
    BY <1>3, <1>27 DEF Die, DriftInv
  <2>2. /\ syn' = syn /\ sentinel' = sentinel /\ \A b \in Actors \ A : op'[b] = op[b]
        /\ unsettled' = (unsettled \/ \E a \in A : op[a].did)
    BY <1>27 DEF Die, Leave
  <2>3. NoSilentDrift'
    BY <2>2 DEF DriftInv, NoSilentDrift
  <2>4. QED
    BY <2>1, <2>3 DEF DriftKept
<1>28. CASE Forget
  BY <1>28 DEF Forget, DriftInv, AimInv, AimOK, NoSilentDrift, DriftKept
<1>29. QED
  BY <1>4, <1>5, <1>6, <1>7, <1>8, <1>9, <1>10, <1>11, <1>12, <1>13, <1>14, <1>15, <1>16, <1>17, <1>18, <1>19, <1>20, <1>21, <1>22, <1>23, <1>24, <1>25, <1>26, <1>27, <1>28 DEF Next, Step, Actors

\* While nobody is setting the password nobody has it to record.
LEMMA DriftStep ==
    TypeOK /\ StageInv /\ DriftInv /\ [Next /\ Meets]_<<vars, met>> => DriftInv'
<1> SUFFICES ASSUME TypeOK, StageInv, DriftInv, [Next /\ Meets]_<<vars, met>> PROVE DriftInv'
  OBVIOUS
<1>1. [Next]_vars /\ met' \in BOOLEAN
  BY Steps
<1>2. NoSilentDrift' /\ (~met => AimInv') /\ StageInv'
  BY <1>1, DriftSteps, TypeStep DEF DriftKept
<1>3. CASE Meets
  <2>1. ASSUME Setters' = {} PROVE OneSetter' /\ AimInv'
    <3>1. \A a \in Actors : op'[a].kind \notin Setting
      BY <2>1 DEF Setters
    <3>2. AimInv'
      BY <1>2, <3>1 DEF StageInv, StageOK, AimInv, AimOK, Setting
    <3>3. QED
      BY <2>1, <3>2 DEF OneSetter
  <2>2. QED
    BY <1>2, <1>3, <2>1 DEF Meets, DriftInv
<1>4. CASE UNCHANGED <<vars, met>>
  BY <1>2, <1>4 DEF vars, DriftInv, OneSetter, Setters
<1>5. QED
  BY <1>3, <1>4

-----------------------------------------------------------------------------
\* The inductive invariant, and that it and DriftInv hold at the start.
Inv == TypeOK /\ StageInv /\ SessionInv

LEMMA Start == Init => Inv /\ DriftInv
<1> SUFFICES ASSUME Init PROVE Inv /\ DriftInv
  OBVIOUS
<1>1. \A a \in Actors : op[a] = Idle
  BY DEF Init
<1>2. op \in [Actors -> Operations]
  BY IdleFacts DEF Init
<1>3. cache \in File(Actors, Tokens)
  BY DEF Init, NoFile, File, Unreadable
<1>4. TypeOK
  BY <1>2, <1>3, FirstAssumption DEF Init, TypeOK
<1>5. StageInv /\ SessionInv
  BY <1>1, IdleFacts DEF StageInv, SessionInv, SessionOK
<1>6. DriftInv
  BY <1>1, IdleFacts
     DEF Init, DriftInv, OneSetter, Setters, AimInv, AimOK, NoSilentDrift, Setting
<1>7. QED
  BY <1>4, <1>5, <1>6 DEF Inv

\* It holds at all times.
LEMMA Always == Spec => []Inv
<1>1. Init => Inv
  BY Start
<1>2. Inv /\ [Next /\ Meets]_<<vars, met>> => Inv'
  BY Steps, TypeStep, SessionStep DEF Inv
<1>3. QED
  BY <1>1, <1>2, PTL DEF Spec

\* Every variable stays in its domain.
THEOREM TypeCorrect == Spec => []TypeOK
<1>1. Inv => TypeOK
  BY DEF Inv
<1>2. QED
  BY <1>1, Always, PTL

\* However many operations overlap, fail or die at any point: one that began with the
\* password that Synapse had, and saw no reset by another, is never refused on account
\* of the token cached in secrets/admin_access_token (admin_session).
THEOREM CachedTokenHarmless == Spec => []CacheIsHarmless
<1>1. Inv => CacheIsHarmless
  BY DEF Inv, SessionInv, SessionOK, CacheIsHarmless, At
<1>2. QED
  BY <1>1, Always, PTL

\* However many operations that set the password overlap, fail or die: a .setup-complete
\* that does not record Synapse's password (change_admin_password, admin reset-password)
\* is owed to one that has yet to report, or to the last one that set it, which reported
\* no success or met another.
THEOREM DriftIsReported == Spec => []NoSilentDrift
<1>1. Init => DriftInv
  BY Start
<1>2. Inv /\ DriftInv /\ [Next /\ Meets]_<<vars, met>> => DriftInv'
  BY DriftStep DEF Inv
<1>3. DriftInv => NoSilentDrift
  BY DEF DriftInv
<1>4. QED
  BY <1>1, <1>2, <1>3, Always, PTL DEF Spec
=============================================================================
