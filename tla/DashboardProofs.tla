-------------------------- MODULE DashboardProofs --------------------------
(***************************************************************************)
(* Theorems about Dashboard for every set of browsers and of mixes.        *)
(***************************************************************************)
EXTENDS Dashboard, TmpRenameProofs, FiniteSetTheorems

\* What may be left of a page.
Rests == {
    LoginPage, <<"pending", "render">>, <<"countAuto", "render">>, <<"render">>, <<>>,
    Login, <<"attempt", "sign", "mark">>, <<"sign", "mark">>, <<"mark">>,
    Logout, <<"leave">>,
    Home, <<"countPassword", "countRecovery", "render">>, <<"countRecovery", "render">>,
    ZeroPassword, <<"form", "zeroPassword">>, <<"zeroPassword">>,
    ZeroRecovery, <<"form", "zeroRecovery">>, <<"zeroRecovery">>,
    PairPage, <<"offer", "render">>,
    NewCode, <<"form", "drop">>, <<"drop">>,
    Shell, <<"token">>,
    RotateToken}

Operations == Others \cup DOMAIN Uses

Late == {<<"countRecovery", "render">>, <<"render">>, <<>>}     \* what follows a reveal

Orderly(s) ==
    /\ s \in Seq(Operations)
    /\ s # <<>> => /\ Tail(s) \in Rests /\ Head(s) \in Operations
                   /\ Tail(s) # <<"countAuto", "render">>
                   /\ Head(s) = "countAuto" => s = <<"countAuto", "render">>
                   /\ Head(s) = "sign" => Tail(s) = <<"mark">>
                   /\ Head(s) = "offer" => Tail(s) = <<"render">>
                   /\ Head(s) \in Counting => Tail(s) \in Late
                   /\ Head(s) = "attempt" => s # RotateToken
                   /\ Head(s) \in Zeroing \cup {"drop"} => s \notin Late

LEMMA RestFacts == \A s \in Rests : Orderly(s)
<1>1. Orderly(LoginPage)
  BY DEF Orderly, Rests, Operations, Others, Uses, Late, Counting, Zeroing, LoginPage
<1>2. Orderly(<<"pending", "render">>)
  BY DEF Orderly, Rests, Operations, Others, Uses, Late, Counting, Zeroing
<1>3. Orderly(<<"countAuto", "render">>)
  BY DEF Orderly, Rests, Operations, Others, Uses, Late, Counting, Zeroing
<1>4. Orderly(<<"render">>)
  BY DEF Orderly, Rests, Operations, Others, Uses, Late, Counting, Zeroing
<1>5. Orderly(<<>>)
  BY DEF Orderly, Rests, Operations, Others, Uses, Late, Counting, Zeroing
<1>6. Orderly(Login)
  BY DEF Orderly, Rests, Operations, Others, Uses, Late, Counting, Zeroing, Login
<1>7. Orderly(<<"attempt", "sign", "mark">>)
  BY DEF Orderly, Rests, Operations, Others, Uses, Late, Counting, Zeroing, RotateToken
<1>8. Orderly(<<"sign", "mark">>)
  BY DEF Orderly, Rests, Operations, Others, Uses, Late, Counting, Zeroing
<1>9. Orderly(<<"mark">>)
  BY DEF Orderly, Rests, Operations, Others, Uses, Late, Counting, Zeroing
<1>10. Orderly(Logout)
  BY DEF Orderly, Rests, Operations, Others, Uses, Late, Counting, Zeroing, Logout
<1>11. Orderly(<<"leave">>)
  BY DEF Orderly, Rests, Operations, Others, Uses, Late, Counting, Zeroing
<1>12. Orderly(Home)
  BY DEF Orderly, Rests, Operations, Others, Uses, Late, Counting, Zeroing, Home
<1>13. Orderly(<<"countPassword", "countRecovery", "render">>)
  BY DEF Orderly, Rests, Operations, Others, Uses, Late, Counting, Zeroing
<1>14. Orderly(<<"countRecovery", "render">>)
  BY DEF Orderly, Rests, Operations, Others, Uses, Late, Counting, Zeroing
<1>15. Orderly(ZeroPassword)
  BY DEF Orderly, Rests, Operations, Others, Uses, Late, Counting, Zeroing, ZeroPassword
<1>16. Orderly(<<"form", "zeroPassword">>)
  BY DEF Orderly, Rests, Operations, Others, Uses, Late, Counting, Zeroing
<1>17. Orderly(<<"zeroPassword">>)
  BY DEF Orderly, Rests, Operations, Others, Uses, Late, Counting, Zeroing
<1>18. Orderly(ZeroRecovery)
  BY DEF Orderly, Rests, Operations, Others, Uses, Late, Counting, Zeroing, ZeroRecovery
<1>19. Orderly(<<"form", "zeroRecovery">>)
  BY DEF Orderly, Rests, Operations, Others, Uses, Late, Counting, Zeroing
<1>20. Orderly(<<"zeroRecovery">>)
  BY DEF Orderly, Rests, Operations, Others, Uses, Late, Counting, Zeroing
<1>21. Orderly(PairPage)
  BY DEF Orderly, Rests, Operations, Others, Uses, Late, Counting, Zeroing, PairPage
<1>22. Orderly(<<"offer", "render">>)
  BY DEF Orderly, Rests, Operations, Others, Uses, Late, Counting, Zeroing
<1>23. Orderly(NewCode)
  BY DEF Orderly, Rests, Operations, Others, Uses, Late, Counting, Zeroing, NewCode
<1>24. Orderly(<<"form", "drop">>)
  BY DEF Orderly, Rests, Operations, Others, Uses, Late, Counting, Zeroing
<1>25. Orderly(<<"drop">>)
  BY DEF Orderly, Rests, Operations, Others, Uses, Late, Counting, Zeroing
<1>26. Orderly(Shell)
  BY DEF Orderly, Rests, Operations, Others, Uses, Late, Counting, Zeroing, Shell
<1>27. Orderly(<<"token">>)
  BY DEF Orderly, Rests, Operations, Others, Uses, Late, Counting, Zeroing
<1>28. Orderly(RotateToken)
  BY DEF Orderly, Rests, Operations, Others, Uses, Late, Counting, Zeroing, RotateToken
<1>29. QED
  BY <1>1, <1>2, <1>3, <1>4, <1>5, <1>6, <1>7, <1>8, <1>9, <1>10, <1>11, <1>12, <1>13, <1>14, <1>15, <1>16, <1>17, <1>18, <1>19, <1>20, <1>21, <1>22, <1>23, <1>24, <1>25, <1>26, <1>27, <1>28 DEF Rests

-----------------------------------------------------------------------------
Stages == {"next", "open", "opened", "full", "limit", "unlink"}
WritingStages == {"open", "opened", "full"}
Requests == [page : Pages \cup {"none"}, rest : Rests, at : Stages, text : {Absent} \cup Texts,
             list : Seq(Nat), gift : Holdings, had : SUBSET Counters, late : BOOLEAN]

OpOf(r) == IF r.rest = <<>> THEN "answer" ELSE Head(r.rest)
TextsFor(op) == IF op \in Counting \cup Zeroing THEN 0..MaxCount ELSE Marks

\* What is left of a page fits what it has done: (e: somebody has logged in) a session is
\* not granted before the first login is about to be retired; codes and secrets are for
\* the page that is about to be shown.
Fits(r, rest, e) ==
    /\ r.page = "rotate" => rest \in {RotateToken, <<>>}
    /\ r.gift["cli"] = Absent
    /\ r.gift["session"] # Absent => rest = <<"mark">> \/ e
    /\ r.gift["code"] # Absent => rest \in {<<"render">>, <<>>}
    /\ r.had # {} => rest \in Late

\* A request that writes has the text of its operation in hand.
InOrder(r, e) ==
    /\ r.at \in WritingStages => OpOf(r) \in DOMAIN Uses /\ r.text \in TextsFor(OpOf(r))
    /\ r.at = "limit" => OpOf(r) = "attempt"
    /\ r.at = "unlink" => OpOf(r) = "drop"
    /\ Fits(r, r.rest, e)
Good(e) == {r \in Requests : InOrder(r, e)}

LEMMA IdleGood == \A e : Idle \in Good(e)
<1>1. /\ Idle.page = "none" /\ Idle.rest = <<>> /\ Idle.at = "next" /\ Idle.gift = Nothing /\ Idle.had = {}
  BY DEF Idle
<1>2. Nothing \in Holdings /\ \A f \in {"session", "cli", "code"} : Nothing[f] = Absent
  BY DEF Nothing, Holdings, Drawn
<1>3. Idle \in Requests
  BY <1>2 DEF Idle, Requests, Stages, Rests
<1>4. \A e : InOrder(Idle, e)
  BY <1>1, <1>2 DEF InOrder, Fits, WritingStages
<1>5. QED BY <1>3, <1>4 DEF Good

\* The next operation of a page, or others in its place.
Moved(r, rest, text) == [r EXCEPT !.rest = rest, !.at = "next", !.text = text, !.list = <<>>]

LEMMA MovedGood ==
    ASSUME NEW e \in BOOLEAN, NEW r \in Good(e), NEW rest \in Rests, NEW text \in {Absent} \cup Texts,
           Fits(r, rest, e)
    PROVE  /\ Moved(r, rest, text) \in Good(e)
           /\ Moved(r, rest, text).rest = rest /\ Moved(r, rest, text).at = "next"
           /\ Moved(r, rest, text).page = r.page /\ Moved(r, rest, text).list = <<>>
           /\ Moved(r, rest, text).gift = r.gift /\ Moved(r, rest, text).had = r.had
           /\ Moved(r, rest, text).late = r.late /\ Moved(r, rest, text).text = text
<1> DEFINE s == Moved(r, rest, text)
<1>1. r \in Requests /\ <<>> \in Seq(Nat) /\ "next" \in Stages BY DEF Good, Stages
<1>2. /\ s \in Requests /\ s.rest = rest /\ s.at = "next" /\ s.page = r.page /\ s.list = <<>>
      /\ s.gift = r.gift /\ s.had = r.had /\ s.late = r.late /\ s.text = text
  BY <1>1 DEF Requests, Moved
<1> HIDE DEF s
<1>3. InOrder(s, e)
  BY <1>2 DEF InOrder, Fits, WritingStages
<1>4. QED BY <1>2, <1>3 DEF Good, s

LEMMA OnwardGood ==
    ASSUME NEW e \in BOOLEAN, NEW b \in Browsers, req[b] \in Good(e), req[b].rest # <<>>,
           req[b].gift["session"] = Absent \/ e
    PROVE  /\ Onward(b) \in Good(e) /\ Onward(b).rest = Tail(req[b].rest) /\ Onward(b).at = "next"
           /\ Onward(b).page = req[b].page /\ Onward(b).gift = req[b].gift /\ Onward(b).had = req[b].had
           /\ Onward(b).late = req[b].late /\ Onward(b).text = Absent /\ Onward(b).list = <<>>
<1>1. InOrder(req[b], e) /\ req[b].rest \in Rests
  BY DEF Good, Requests
<1>2. Tail(req[b].rest) \in Rests
  BY <1>1, RestFacts DEF Orderly
<1>3. Fits(req[b], Tail(req[b].rest), e)
  <2>1. Tail(<<"redraw">>) = <<>> /\ Tail(<<"render">>) = <<>>
        /\ Tail(<<"countRecovery", "render">>) = <<"render">>
    OBVIOUS
  <2>2. QED BY <1>1, <2>1 DEF InOrder, Fits, RotateToken, Late
<1>4. Onward(b) = Moved(req[b], Tail(req[b].rest), Absent)
  BY DEF Onward, Moved
<1>5. Absent \in {Absent} \cup Texts
  OBVIOUS
<1>6. QED BY <1>2, <1>3, <1>4, <1>5, MovedGood

\* What an operation makes of a text.
Became(b, s, got, e) ==
    /\ s \in Good(e) /\ s.at = "next"
    /\ \/ s = Idle
       \/ /\ s.rest = Tail(req[b].rest) /\ s.page = req[b].page /\ s.late = req[b].late
          /\ s.had = req[b].had \cup (IF Op(b) \in Counting THEN {About(b)} ELSE {})
          /\ s.gift = IF Op(b) \in {"sign", "render", "offer"}
                        THEN [req[b].gift EXCEPT ![About(b)] = got] ELSE req[b].gift

LEMMA ResultGood ==
    ASSUME NEW e \in BOOLEAN, NEW b \in Browsers, req[b] \in Good(e), Op(b) \in DOMAIN Uses,
           NEW got, got \in Marks \/ Op(b) \in Counting \cup Zeroing
    PROVE  Became(b, Result(b, got), got, e)
<1> DEFINE o == Onward(b)
<1>1. req[b] \in Requests /\ InOrder(req[b], e) /\ req[b].rest \in Rests /\ req[b].rest # <<>>
      /\ Op(b) = Head(req[b].rest)
  BY DEF Good, Requests, Op, Uses
<1>2. req[b].gift["session"] = Absent \/ e
  BY <1>1 DEF InOrder, Fits, Uses
<1>3. /\ o \in Good(e) /\ o.rest = Tail(req[b].rest) /\ o.at = "next" /\ o.page = req[b].page
      /\ o.gift = req[b].gift /\ o.had = req[b].had /\ o.late = req[b].late
  BY <1>1, <1>2, OnwardGood
<1>4. Idle \in Good(e) /\ Idle.at = "next"
  BY IdleGood DEF Idle
<1> HIDE DEF o
<1>5. CASE Op(b) \in Guarded
  <2>1. Result(b, got) = Idle \/ Result(b, got) = o
    <3>1. CASE Op(b) = "guest"
      BY <3>1 DEF Result, Guarded, Counting, o
    <3>2. CASE Op(b) \in Guarded \ {"guest"}
      BY <3>2 DEF Result, Guarded, Counting, o
    <3>3. QED BY <1>5, <3>1, <3>2
  <2>2. Op(b) \notin Counting /\ Op(b) \notin {"sign", "render", "offer"}
    BY <1>5 DEF Guarded, Counting
  <2>3. CASE Result(b, got) = Idle
    BY <1>4, <2>3 DEF Became
  <2>4. CASE Result(b, got) = o
    BY <1>3, <2>2, <2>4 DEF Became
  <2>5. QED BY <2>1, <2>3, <2>4
<1>6. CASE Op(b) \in Counting
  <2>1. Result(b, got) = [o EXCEPT !.had = @ \cup {About(b)}]
    BY <1>6 DEF Result, Guarded, Counting, o
  <2>2. About(b) \in Counters
    BY <1>6 DEF About, Uses, Counting, Counters
  <2> DEFINE s == [o EXCEPT !.had = @ \cup {About(b)}]
  <2>3. s \in Requests /\ s.rest = o.rest /\ s.at = o.at /\ s.page = o.page /\ s.gift = o.gift /\ s.late = o.late
        /\ s.had = o.had \cup {About(b)}
    BY <1>3, <2>2 DEF Good, Requests
  <2> HIDE DEF s
  <2>4. s \in Good(e)
    <3>1. s.rest \in Late BY <1>1, <1>3, <1>6, <2>3, RestFacts DEF Orderly
    <3>2. QED BY <1>3, <2>3, <3>1 DEF Good, InOrder, Fits, WritingStages
  <2>5. Op(b) \notin {"sign", "render", "offer"}
    BY <1>6 DEF Counting
  <2>6. QED BY <1>3, <1>6, <2>1, <2>3, <2>4, <2>5 DEF s, Became
<1>7. CASE Op(b) \in {"sign", "render", "offer"}
  <2>1. Result(b, got) = [o EXCEPT !.gift = [@ EXCEPT ![About(b)] = got]]
    BY <1>7 DEF Result, Guarded, Counting, o
  <2>2. About(b) \in Drawn \ {"cli"} /\ (About(b) = "session" => Op(b) = "sign")
        /\ (About(b) = "code" => Op(b) = "offer")
    BY <1>7 DEF About, Uses, Drawn
  <2>3. got \in Marks
    BY <1>7 DEF Counting, Zeroing
  <2> DEFINE g == [o.gift EXCEPT ![About(b)] = got]
             s == [o EXCEPT !.gift = g]
  <2>4. g \in Holdings /\ \A f \in Drawn : f # About(b) => g[f] = o.gift[f]
    BY <1>3, <2>2, <2>3 DEF Good, Requests, Holdings
  <2> HIDE DEF g
  <2>5. s \in Requests /\ s.rest = o.rest /\ s.at = o.at /\ s.page = o.page /\ s.gift = g /\ s.late = o.late
        /\ s.had = o.had
    BY <1>3, <2>4 DEF Good, Requests
  <2> HIDE DEF s
  <2>6. (Op(b) = "sign" => s.rest = <<"mark">>) /\ (Op(b) = "offer" => s.rest = <<"render">>)
    BY <1>1, <1>3, <2>5, RestFacts DEF Orderly
  <2>7. s \in Good(e)
    <3>1. InOrder(o, e) BY <1>3 DEF Good
    <3>2. InOrder(s, e) BY <1>3, <2>2, <2>4, <2>5, <2>6, <3>1 DEF InOrder, Fits, WritingStages, Drawn
    <3>3. QED BY <2>5, <3>2 DEF Good
  <2>8. Op(b) \notin Counting
    BY <1>7 DEF Counting
  <2>9. QED BY <1>3, <1>7, <2>1, <2>5, <2>7, <2>8 DEF s, g, Became
<1>8. CASE Op(b) \notin Guarded \cup Counting \cup {"sign", "render", "offer"}
  <2>1. Result(b, got) = o
    BY <1>8 DEF Result, Guarded, o
  <2>2. QED BY <1>3, <1>8, <2>1 DEF Became
<1>9. QED BY <1>5, <1>6, <1>7, <1>8

-----------------------------------------------------------------------------
\* Growing old shortens a list of attempts, if anything.
LEMMA OlderFacts ==
    ASSUME NEW s \in Seq(Nat)
    PROVE  Older(s) \in Seq(Nat) /\ Len(Older(s)) <= Len(s)
<1> DEFINE G == {i \in DOMAIN s : s[i] >= Window}
<1>1. Len(s) \in Nat /\ DOMAIN s = 1..Len(s) /\ \A i \in 1..Len(s) : s[i] \in Nat
  OBVIOUS
<1>2. IsFiniteSet(1..Len(s)) /\ Cardinality(1..Len(s)) = Len(s)
  BY <1>1, FS_Interval
<1>3. Cardinality(G) \in Nat /\ Cardinality(G) <= Len(s)
  BY <1>1, <1>2, FS_Subset, FS_CardinalityType
<1>4. Gone(s) = Cardinality(G)
  BY DEF Gone
<1> DEFINE g == Gone(s)
<1>5. g \in Nat /\ g <= Len(s)
  BY <1>3, <1>4
<1> HIDE DEF g, G
<1>6. Older(s) = [i \in 1..(Len(s) - g) |-> s[i + g] + 1]
  BY DEF Older, g
<1>7. Len(s) - g \in Nat /\ Len(s) - g <= Len(s)
  BY <1>1, <1>5
<1>8. \A i \in 1..(Len(s) - g) : s[i + g] + 1 \in Nat
  BY <1>1, <1>5
<1>9. Older(s) \in Seq(Nat) /\ Len(Older(s)) = Len(s) - g
  BY <1>6, <1>7, <1>8
<1>10. QED BY <1>7, <1>9

-----------------------------------------------------------------------------
Typed ==
    /\ mix \in Mixes /\ file \in [Names -> File(Browsers, Texts)]
    /\ stale \in BOOLEAN /\ entered \in BOOLEAN /\ greeted \in BOOLEAN
    /\ attempts \in Seq(Nat) /\ passed \in Seq(Nat)
    /\ req \in [Browsers -> Good(entered)]
    /\ jar \in [Browsers -> Holdings]
    /\ raced \in SUBSET (Names \cup {"attempts"})
    /\ seen \in [Counters -> Nat]
    /\ greeted => entered

LEMMA TypedTypeOK == Typed => TypeOK
<1>1. Rests \subseteq Seq(Others \cup DOMAIN Uses)
  BY RestFacts DEF Orderly, Operations
<1>2. Good(entered) \subseteq
        [page : Pages \cup {"none"}, rest : Seq(Others \cup DOMAIN Uses), at : Stages,
         text : {Absent} \cup Texts, list : Seq(Nat), gift : Holdings, had : SUBSET Counters, late : BOOLEAN]
  BY <1>1 DEF Good, Requests
<1>3. QED BY <1>2 DEF Typed, TypeOK, Stages

LEMMA InitTyped == Init => Typed
<1> SUFFICES ASSUME Init PROVE Typed
  OBVIOUS
<1>1. FirstMark \in Marks
  BY MarksAssumption DEF FirstMark
<1>2. NoFile(Browsers) \in File(Browsers, Texts)
  BY DEF NoFile, File, Unreadable
<1>3. [NoFile(Browsers) EXCEPT !.live = FirstMark] \in File(Browsers, Texts)
  BY <1>1, <1>2 DEF File, Texts
<1>4. file \in [Names -> File(Browsers, Texts)]
  BY <1>2, <1>3 DEF Init
<1>5. req \in [Browsers -> Good(entered)]
  BY IdleGood DEF Init
<1>6. jar \in [Browsers -> Holdings]
  BY <1>1 DEF Init, Holdings
<1>7. mix \in Mixes /\ entered = mix.entered /\ entered \in BOOLEAN
  BY MixesAssumption DEF Init
<1>8. attempts = <<>> /\ passed = <<>> /\ <<>> \in Seq(Nat) /\ stale = FALSE /\ raced = {}
      /\ greeted = mix.entered /\ seen \in [Counters -> Nat]
  BY DEF Init
<1>9. QED BY <1>4, <1>5, <1>6, <1>7, <1>8 DEF Typed

\* One request changes, and remains in order.
LEMMA OneRequest ==
    ASSUME Typed, NEW b \in Browsers, NEW r \in Good(entered), Becomes(b, r)
    PROVE  /\ req' \in [Browsers -> Good(entered)] /\ req'[b] = r
           /\ \A c \in Browsers \ {b} : req'[c] = req[c]
BY DEF Typed, Becomes

\* The operation at hand.
LEMMA AtHand ==
    ASSUME Typed, NEW b \in Browsers
    PROVE  /\ req[b] \in Good(entered) /\ req[b] \in Requests /\ InOrder(req[b], entered)
           /\ req[b].rest \in Rests /\ OpOf(req[b]) = Op(b)
           /\ Op(b) # "answer" => req[b].rest # <<>> /\ Op(b) = Head(req[b].rest) /\ Orderly(req[b].rest)
           /\ Op(b) \in Operations \cup {"answer"}
           /\ req[b].at \in WritingStages => Op(b) \in DOMAIN Uses /\ req[b].text \in TextsFor(Op(b))
           /\ req[b].at = "limit" => Op(b) = "attempt"
           /\ req[b].at = "unlink" => Op(b) = "drop"
<1>1. req[b] \in Good(entered) /\ req[b] \in Requests /\ InOrder(req[b], entered) /\ req[b].rest \in Rests
  BY DEF Typed, Good, Requests
<1>2. OpOf(req[b]) = Op(b)
  BY DEF OpOf, Op
<1>3. req[b].rest # <<>> => Head(req[b].rest) # "answer" /\ Head(req[b].rest) \in Operations
  BY <1>1, RestFacts DEF Orderly, Operations, Others, Uses
<1>4. Op(b) # "answer" => req[b].rest # <<>> /\ Op(b) = Head(req[b].rest) /\ Orderly(req[b].rest)
  BY <1>1, RestFacts DEF Op
<1>5. QED BY <1>1, <1>2, <1>3, <1>4 DEF InOrder, Op

\* Pages begin, and turn.
LEMMA BegunGood ==
    ASSUME Typed, NEW p \in Pages
    PROVE  LET r == [Idle EXCEPT !.page = p, !.rest = Script[p], !.late = greeted]
           IN  r \in Good(entered) /\ r.rest = Script[p] /\ r.at = "next" /\ r.had = {} /\ r.gift = Nothing
               /\ r.late = greeted /\ Script[p] # <<"countAuto", "render">>
<1> DEFINE r == [Idle EXCEPT !.page = p, !.rest = Script[p], !.late = greeted]
<1>1. Script[p] \in Rests /\ (p = "rotate" => Script[p] = RotateToken) /\ Script[p] # <<"countAuto", "render">>
  BY DEF Script, Pages, Rests, LoginPage, Login, Logout, Home, ZeroPassword, ZeroRecovery, PairPage,
         NewCode, Shell, RotateToken
<1>2. Idle \in Requests /\ Idle.at = "next" /\ Idle.had = {} /\ Idle.gift = Nothing
  BY IdleGood DEF Good, Idle
<1>3. r \in Requests /\ r.rest = Script[p] /\ r.at = "next" /\ r.had = {} /\ r.gift = Nothing /\ r.page = p
      /\ r.late = greeted
  BY <1>1, <1>2 DEF Requests, Typed
<1> HIDE DEF r
<1>4. \A f \in {"session", "cli", "code"} : r.gift[f] = Absent
  BY <1>3 DEF Nothing, Drawn
<1>5. InOrder(r, entered)
  BY <1>1, <1>3, <1>4 DEF InOrder, Fits, WritingStages
<1>6. QED BY <1>1, <1>3, <1>5 DEF Good, r

LEMMA TurnGood ==
    ASSUME Typed, NEW b \in Browsers, NEW rest \in Rests, Fits(req[b], rest, entered)
    PROVE  /\ Turn(b, rest) \in Good(entered) /\ Turn(b, rest).rest = rest /\ Turn(b, rest).at = "next"
           /\ Turn(b, rest).gift = req[b].gift /\ Turn(b, rest).had = req[b].had
           /\ Turn(b, rest).late = req[b].late
<1>1. Turn(b, rest) = Moved(req[b], rest, req[b].text)
  <2>1. req[b] \in Requests BY AtHand
  <2>2. QED BY <2>1 DEF Turn, Moved, Requests
<1>2. req[b] \in Good(entered) /\ req[b].text \in {Absent} \cup Texts /\ entered \in BOOLEAN
  BY AtHand DEF Requests, Typed
<1>3. QED BY <1>1, <1>2, MovedGood

\* A request that has not done anything yet may turn to what it likes.
LEMMA FitsAfter ==
    ASSUME Typed, NEW b \in Browsers, Op(b) \in {"pending", "attempt"}, NEW rest
    PROVE  Fits(req[b], rest, entered)
<1>1. req[b].rest # <<>> /\ Head(req[b].rest) = Op(b) /\ Fits(req[b], req[b].rest, entered)
      /\ Orderly(req[b].rest)
  BY AtHand DEF InOrder
<1>2. req[b].rest \notin Late \cup {RotateToken, <<>>, <<"mark">>}
  BY <1>1 DEF Late, RotateToken
<1>3. <<"render">> \in Late
  BY DEF Late
<1>4. QED BY <1>1, <1>2, <1>3 DEF Fits

LEMMA OnwardTyped ==
    ASSUME Typed, NEW b \in Browsers, req[b].rest # <<>>, req[b].gift["session"] = Absent \/ entered
    PROVE  /\ Onward(b) \in Good(entered) /\ Onward(b).rest = Tail(req[b].rest) /\ Onward(b).at = "next"
           /\ Onward(b).page = req[b].page /\ Onward(b).gift = req[b].gift /\ Onward(b).had = req[b].had
           /\ Onward(b).late = req[b].late /\ Onward(b).text = Absent /\ Onward(b).list = <<>>
BY AtHand, OnwardGood DEF Typed

\* Before the first login is about to be retired, nobody has been granted a session.
LEMMA Ungranted ==
    ASSUME Typed, NEW b \in Browsers, Op(b) # "mark"
    PROVE  req[b].gift["session"] = Absent \/ entered
BY AtHand DEF InOrder, Fits, Op

\* A request at its next operation goes to another stage of it.
AtStage(b, at, text, list) == [req[b] EXCEPT !.at = at, !.text = text, !.list = list]

LEMMA StageGood ==
    ASSUME Typed, NEW b \in Browsers, NEW at \in Stages, NEW text \in {Absent} \cup Texts, NEW list \in Seq(Nat),
           at \in WritingStages => Op(b) \in DOMAIN Uses /\ text \in TextsFor(Op(b)),
           at = "limit" => Op(b) = "attempt",
           at = "unlink" => Op(b) = "drop"
    PROVE  /\ AtStage(b, at, text, list) \in Good(entered)
           /\ AtStage(b, at, text, list).at = at /\ AtStage(b, at, text, list).text = text
           /\ AtStage(b, at, text, list).list = list /\ AtStage(b, at, text, list).rest = req[b].rest
           /\ AtStage(b, at, text, list).gift = req[b].gift /\ AtStage(b, at, text, list).had = req[b].had
           /\ AtStage(b, at, text, list).late = req[b].late
<1> DEFINE r == AtStage(b, at, text, list)
<1>1. /\ req[b] \in Requests /\ InOrder(req[b], entered) /\ OpOf(req[b]) = Op(b)
  BY AtHand
<1>2. /\ r \in Requests /\ r.at = at /\ r.text = text /\ r.list = list /\ r.page = req[b].page
      /\ r.rest = req[b].rest /\ r.gift = req[b].gift /\ r.had = req[b].had /\ r.late = req[b].late
  BY <1>1 DEF Requests, AtStage
<1> HIDE DEF r
<1>3. InOrder(r, entered)
  BY <1>1, <1>2 DEF InOrder, OpOf, Fits
<1>4. QED BY <1>2, <1>3 DEF Good, r

-----------------------------------------------------------------------------
\* What the steps of one request do to the requests.
Alone(b) ==
    /\ req' \in [Browsers -> Good(entered')]
    /\ \A c \in Browsers \ {b} : req'[c] = req[c]

\* It goes on, or ends; what it has in hand stays the same, or is gone.
Kept(b) == req'[b].gift = req[b].gift /\ req'[b].had = req[b].had /\ req'[b].late = req[b].late
Moves(b) ==
    /\ Alone(b) /\ req'[b].at = "next" /\ req'[b].rest # <<"countAuto", "render">>
    /\ req'[b] = Idle \/ Kept(b)

LEMMA IdleMoves ==
    ASSUME Typed, NEW b \in Browsers, Becomes(b, Idle), entered' = entered
    PROVE  Moves(b)
<1>1. Idle \in Good(entered) /\ Idle.at = "next" /\ Idle.rest # <<"countAuto", "render">>
  BY IdleGood DEF Idle
<1>2. QED BY <1>1, OneRequest DEF Moves, Alone

LEMMA OnwardMoves ==
    ASSUME Typed, NEW b \in Browsers, Op(b) \notin {"answer", "mark"}, Becomes(b, Onward(b)), entered' = entered
    PROVE  Moves(b)
<1>1. /\ Onward(b) \in Good(entered) /\ Onward(b).rest = Tail(req[b].rest) /\ Onward(b).at = "next"
      /\ Onward(b).gift = req[b].gift /\ Onward(b).had = req[b].had /\ Onward(b).late = req[b].late
  BY AtHand, Ungranted, OnwardTyped
<1>2. Tail(req[b].rest) # <<"countAuto", "render">>
  BY AtHand DEF Orderly
<1>3. QED BY <1>1, <1>2, OneRequest DEF Moves, Alone, Kept

LEMMA NothingSentMoves ==
    ASSUME Typed, NEW b \in Browsers, NothingSent(b)
    PROVE  Moves(b)
<1>1. Op(b) \in Guarded /\ entered' = entered /\ (Becomes(b, Onward(b)) \/ Becomes(b, Idle))
  BY DEF NothingSent, Ready, Turned
<1>2. Op(b) \notin {"answer", "mark"}
  BY <1>1 DEF Guarded
<1>3. QED BY <1>1, <1>2, IdleMoves, OnwardMoves

LEMMA LimitMoves ==
    ASSUME Typed, NEW b \in Browsers, Refuse(b) \/ Admit(b)
    PROVE  Moves(b)
<1>1. Op(b) = "attempt" /\ req[b].rest \in Rests /\ Orderly(req[b].rest) /\ req[b].rest # <<>>
  BY AtHand DEF Refuse, Admit
<1>2. PICK rest \in {Tail(req[b].rest), <<"render">>} : Becomes(b, Turn(b, rest))
  BY DEF Refuse, Admit
<1>3. rest \in Rests /\ rest # <<"countAuto", "render">>
  <2>1. <<"render">> \in Rests /\ <<"render">> # <<"countAuto", "render">>
    BY DEF Rests
  <2>2. QED BY <1>1, <1>2, <2>1 DEF Orderly
<1>4. /\ Turn(b, rest) \in Good(entered) /\ Turn(b, rest).rest = rest /\ Turn(b, rest).at = "next"
      /\ Turn(b, rest).gift = req[b].gift /\ Turn(b, rest).had = req[b].had
      /\ Turn(b, rest).late = req[b].late
  BY <1>1, <1>3, FitsAfter, TurnGood
<1>5. entered' = entered BY DEF Refuse, Admit
<1>6. QED BY <1>2, <1>3, <1>4, <1>5, OneRequest DEF Moves, Alone, Kept

LEMMA MarkMoves ==
    ASSUME Typed, NEW b \in Browsers, Mark(b)
    PROVE  Moves(b)
<1>1. Op(b) = "mark" /\ entered' = TRUE /\ Becomes(b, Onward(b))
  BY DEF Mark, Ready
<1>2. \A r \in Good(entered) : r \in Good(TRUE)
  BY DEF Good, InOrder, Fits
<1>3. req[b] \in Good(TRUE) /\ req[b].rest # <<>> /\ Orderly(req[b].rest)
  BY <1>1, <1>2, AtHand
<1>4. /\ Onward(b) \in Good(TRUE) /\ Onward(b).rest = Tail(req[b].rest) /\ Onward(b).at = "next"
      /\ Onward(b).gift = req[b].gift /\ Onward(b).had = req[b].had /\ Onward(b).late = req[b].late
  BY <1>3, OnwardGood
<1>5. req' = [req EXCEPT ![b] = Onward(b)] /\ req \in [Browsers -> Good(TRUE)]
  BY <1>1, <1>2 DEF Becomes, Typed
<1>6. Alone(b) /\ req'[b] = Onward(b)
  BY <1>1, <1>4, <1>5 DEF Alone
<1>7. QED BY <1>3, <1>4, <1>6 DEF Moves, Kept, Orderly

LEMMA OtherMoves ==
    ASSUME Typed, NEW b \in Browsers, Leave(b) \/ Fetch(b) \/ Fails(b) \/ Answer(b)
    PROVE  Moves(b)
<1>1. CASE Leave(b) \/ Fetch(b)
  BY <1>1, OnwardMoves DEF Leave, Fetch, Ready
<1>2. CASE Fails(b) \/ Answer(b)
  BY <1>2, IdleMoves DEF Fails, Answer
<1>3. QED BY <1>1, <1>2

\* It goes to another stage of its operation.
Staged(b, at) ==
    /\ Alone(b) /\ Kept(b) /\ req'[b].at = at /\ req'[b].rest = req[b].rest
    /\ Op(b)' = Op(b) /\ About(b)' = About(b)

LEMMA StageStaged ==
    ASSUME Typed, NEW b \in Browsers, NEW at \in Stages, NEW text \in {Absent} \cup Texts, NEW list \in Seq(Nat),
           at \in WritingStages => Op(b) \in DOMAIN Uses /\ text \in TextsFor(Op(b)),
           at = "limit" => Op(b) = "attempt",
           at = "unlink" => Op(b) = "drop",
           Becomes(b, AtStage(b, at, text, list)), entered' = entered
    PROVE  Staged(b, at) /\ req'[b].text = text /\ req'[b].list = list
<1> DEFINE r == AtStage(b, at, text, list)
<1>1. /\ r \in Good(entered) /\ r.at = at /\ r.text = text /\ r.list = list
      /\ r.rest = req[b].rest /\ r.gift = req[b].gift /\ r.had = req[b].had /\ r.late = req[b].late
  BY StageGood
<1> HIDE DEF r
<1>2. req' \in [Browsers -> Good(entered)] /\ req'[b] = r /\ \A c \in Browsers \ {b} : req'[c] = req[c]
  BY <1>1, OneRequest DEF r
<1>3. QED BY <1>1, <1>2 DEF Staged, Alone, Kept, Op, About

LEMMA NewTextsFit ==
    ASSUME Typed, NEW b \in Browsers, Op(b) \in DOMAIN Uses, NEW text \in NewTexts(b)
    PROVE  text \in TextsFor(Op(b)) /\ text \in Texts
           /\ (Op(b) \in Counting => text = Count(About(b)) + 1)
           /\ (Op(b) \in Zeroing => text = 0)
           /\ (Op(b) \notin Counting \cup Zeroing \cup {"redraw"} => ~Usable(About(b)))
<1>0. 0 \in 0..MaxCount
  BY NumbersAssumption
<1>1. CASE Op(b) \in Counting
  <2>1. NewTexts(b) = {Count(About(b)) + 1} \cap 0..MaxCount
    BY <1>1 DEF NewTexts
  <2>2. Op(b) \notin Zeroing BY <1>1 DEF Counting, Zeroing
  <2>3. QED BY <1>1, <2>1, <2>2 DEF TextsFor, Texts
<1>2. CASE Op(b) \in Zeroing
  <2>2. Op(b) \notin Counting BY <1>2 DEF Counting, Zeroing
  <2>1. NewTexts(b) = {0}
    BY <1>2, <2>2 DEF NewTexts
  <2>3. QED BY <1>0, <1>2, <2>1, <2>2 DEF TextsFor, Texts
<1>3. CASE Op(b) \notin Counting \cup Zeroing
  <2>1. /\ Op(b) = "redraw" \/ ~Usable(About(b))
        /\ text \in Free(About(b))
    BY <1>3 DEF NewTexts
  <2>2. text \in Marks
    BY <2>1 DEF Free
  <2>3. QED BY <1>3, <2>1, <2>2 DEF TextsFor, Texts
<1>4. QED BY <1>1, <1>2, <1>3

LEMMA StageIs ==
    ASSUME Typed, NEW b \in Browsers, NEW at, NEW text, NEW list
    PROVE  /\ [req[b] EXCEPT !.at = at, !.text = text] = AtStage(b, at, text, req[b].list)
           /\ [req[b] EXCEPT !.at = at] = AtStage(b, at, req[b].text, req[b].list)
           /\ [req[b] EXCEPT !.at = at, !.list = list] = AtStage(b, at, req[b].text, list)
<1>1. req[b] \in Requests BY AtHand
<1>2. QED BY <1>1 DEF AtStage, Requests

LEMMA InRequest ==
    ASSUME Typed, NEW b \in Browsers
    PROVE  req[b].text \in {Absent} \cup Texts /\ req[b].list \in Seq(Nat) /\ req[b].had \in SUBSET Counters
           /\ req[b].gift \in Holdings /\ req[b].at \in Stages /\ req[b].late \in BOOLEAN
BY AtHand DEF Requests

LEMMA NeedStaged ==
    ASSUME Typed, NEW b \in Browsers, Need(b)
    PROVE  /\ Staged(b, "open") /\ req[b].at = "next" /\ Op(b) \in DOMAIN Uses
           /\ req'[b].text \in NewTexts(b)
<1>1. PICK text \in NewTexts(b) : Becomes(b, [req[b] EXCEPT !.at = "open", !.text = text])
  BY DEF Need
<1>2. req[b].at = "next" /\ Op(b) \in DOMAIN Uses /\ entered' = entered
  BY DEF Need, Proceeds, Ready
<1>3. text \in {Absent} \cup Texts /\ text \in TextsFor(Op(b)) /\ "open" \in Stages
  BY <1>2, NewTextsFit DEF Stages
<1>4. Becomes(b, AtStage(b, "open", text, req[b].list))
  BY <1>1, StageIs
<1>5. Staged(b, "open") /\ req'[b].text = text
  BY <1>2, <1>3, <1>4, InRequest, StageStaged
<1>6. QED BY <1>2, <1>5

LEMMA UsesNames == \A o \in DOMAIN Uses : Uses[o] \in Names
BY DEF Uses, Names, Drawn, Counters

LEMMA OpenStaged ==
    ASSUME Typed, NEW b \in Browsers, Open(b) \/ Fill(b), NEW at,
           at = IF req[b].at = "open" THEN "opened" ELSE "full"
    PROVE  /\ Staged(b, at) /\ Op(b) \in DOMAIN Uses /\ About(b) \in Names
           /\ req'[b].text = req[b].text /\ req[b].text \in TextsFor(Op(b)) /\ req[b].text \in Texts
<1>1. Becomes(b, [req[b] EXCEPT !.at = at]) /\ entered' = entered /\ req[b].at \in {"open", "opened"}
  BY DEF Open, Fill
<1>2. Becomes(b, AtStage(b, at, req[b].text, req[b].list))
  BY <1>1, StageIs
<1>3. Op(b) \in DOMAIN Uses /\ req[b].text \in TextsFor(Op(b))
  BY <1>1, AtHand DEF WritingStages
<1>4. at \in Stages /\ at # "limit" /\ at # "unlink"
  BY <1>1 DEF Stages
<1>5. Staged(b, at) /\ req'[b].text = req[b].text
  BY <1>1, <1>2, <1>3, <1>4, InRequest, StageStaged
<1>6. About(b) \in Names /\ req[b].text \in Texts
  BY <1>3, UsesNames DEF About, TextsFor, Texts
<1>7. QED BY <1>3, <1>5, <1>6

LEMMA AttemptStaged ==
    ASSUME Typed, NEW b \in Browsers, Attempt(b)
    PROVE  Staged(b, "limit") /\ req'[b].list = attempts
<1>1. Becomes(b, AtStage(b, "limit", req[b].text, attempts)) /\ entered' = entered /\ Op(b) = "attempt"
  BY StageIs DEF Attempt, Ready
<1>2. attempts \in Seq(Nat) /\ "limit" \in Stages /\ "limit" \notin WritingStages
  BY DEF Typed, Stages, WritingStages
<1>3. QED BY <1>1, <1>2, InRequest, StageStaged

LEMMA LookMoves ==
    ASSUME Typed, NEW b \in Browsers, Look(b)
    PROVE  Moves(b) \/ Staged(b, "unlink")
<1>1. Op(b) = "drop" /\ entered' = entered
  BY DEF Look, Ready
<1>2. CASE file["code"].live = Absent
  BY <1>1, <1>2, OnwardMoves DEF Look
<1>3. CASE file["code"].live # Absent
  <2>1. Becomes(b, AtStage(b, "unlink", req[b].text, req[b].list))
    BY <1>3, StageIs DEF Look
  <2>2. "unlink" \in Stages /\ "unlink" \notin WritingStages
    BY DEF Stages, WritingStages
  <2>3. QED BY <1>1, <2>1, <2>2, InRequest, StageStaged
<1>4. QED BY <1>2, <1>3

LEMMA PendingMoves ==
    ASSUME Typed, NEW b \in Browsers, Pending(b)
    PROVE  /\ Alone(b) /\ Kept(b) /\ req'[b].at = "next"
           /\ entered => req'[b].rest # <<"countAuto", "render">>
<1>1. Op(b) = "pending" /\ entered' = entered /\ req[b].rest \in Rests /\ req[b].rest # <<>> /\ Head(req[b].rest) = "pending"
  BY AtHand DEF Pending, Ready
<1> DEFINE rest == IF entered THEN <<"render">> ELSE <<"countAuto", "render">>
<1>2. Becomes(b, Turn(b, rest))
  BY DEF Pending
<1>5. rest \in Rests /\ (entered => rest # <<"countAuto", "render">>)
  <2>1. <<"render">> \in Rests /\ <<"countAuto", "render">> \in Rests /\ <<"render">> # <<"countAuto", "render">>
    BY DEF Rests
  <2>2. QED BY <2>1
<1> HIDE DEF rest
<1>6. /\ Turn(b, rest) \in Good(entered) /\ Turn(b, rest).rest = rest /\ Turn(b, rest).at = "next"
      /\ Turn(b, rest).gift = req[b].gift /\ Turn(b, rest).had = req[b].had
      /\ Turn(b, rest).late = req[b].late
  BY <1>1, <1>5, FitsAfter, TurnGood
<1>7. QED BY <1>1, <1>2, <1>5, <1>6, OneRequest DEF Alone, Kept

LEMMA BeginAlone ==
    ASSUME Typed, NEW b \in Browsers, NEW p \in Pages, Begin(b, p)
    PROVE  /\ Alone(b) /\ req'[b].at = "next" /\ req'[b].had = {} /\ req'[b].gift = Nothing
           /\ req'[b].late = greeted /\ req'[b].rest # <<"countAuto", "render">>
<1> DEFINE r == [Idle EXCEPT !.page = p, !.rest = Script[p], !.late = greeted]
<1>1. /\ r \in Good(entered) /\ r.rest = Script[p] /\ r.at = "next" /\ r.had = {} /\ r.gift = Nothing
      /\ r.late = greeted /\ Script[p] # <<"countAuto", "render">>
  BY BegunGood
<1>2. Becomes(b, r) /\ entered' = entered
  BY DEF Begin
<1> HIDE DEF r
<1>3. QED BY <1>1, <1>2, OneRequest DEF Alone

\* It makes of a text what it is to make of it.
Advances(b, got) == Alone(b) /\ Became(b, req'[b], got, entered)

LEMMA ResultAdvances ==
    ASSUME Typed, NEW b \in Browsers, Op(b) \in DOMAIN Uses,
           NEW got, got \in Marks \/ Op(b) \in Counting \cup Zeroing,
           Becomes(b, Result(b, got)), entered' = entered
    PROVE  Advances(b, got)
<1>1. Became(b, Result(b, got), got, entered)
  BY AtHand, ResultGood DEF Typed
<1>2. Result(b, got) \in Good(entered)
  BY <1>1 DEF Became
<1>3. QED BY <1>1, <1>2, OneRequest DEF Advances, Alone

LEMMA UseAdvances ==
    ASSUME Typed, NEW b \in Browsers, Use(b)
    PROVE  /\ Op(b) \in DOMAIN Uses \ (Counting \cup Zeroing \cup {"redraw"}) /\ Usable(About(b))
           /\ Advances(b, file[About(b)].live) \/ Moves(b)
<1>1. /\ Op(b) \in DOMAIN Uses \ (Counting \cup Zeroing \cup {"redraw"}) /\ Usable(About(b))
      /\ entered' = entered
  BY DEF Use, Proceeds, Ready
<1>2. CASE Becomes(b, Result(b, file[About(b)].live))
  BY <1>1, <1>2, ResultAdvances DEF Usable
<1>3. CASE Op(b) \in {"guest", "verify", "form"} /\ Becomes(b, Turned(b))
  <2>1. Becomes(b, Idle) \/ Becomes(b, Onward(b))
    BY <1>3 DEF Turned
  <2>2. QED BY <1>1, <1>3, <2>1, IdleMoves, OnwardMoves
<1>4. QED BY <1>1, <1>2, <1>3 DEF Use

LEMMA ReplaceAdvances ==
    ASSUME Typed, NEW b \in Browsers, Replace(b)
    PROVE  /\ Advances(b, req[b].text) /\ Op(b) \in DOMAIN Uses /\ About(b) \in Names
           /\ req[b].text \in TextsFor(Op(b))
<1>1. /\ Op(b) \in DOMAIN Uses /\ req[b].text \in TextsFor(Op(b)) /\ entered' = entered
      /\ Becomes(b, Result(b, req[b].text))
  BY AtHand DEF Replace, WritingStages
<1>2. req[b].text \in Marks \/ Op(b) \in Counting \cup Zeroing
  BY <1>1 DEF TextsFor
<1>3. QED BY <1>1, <1>2, ResultAdvances, UsesNames DEF About

\* Requests lose the pair code they were to hand out, and nothing else.
Unchanged(c) ==
    /\ req'[c].page = req[c].page /\ req'[c].rest = req[c].rest /\ req'[c].at = req[c].at
    /\ req'[c].text = req[c].text /\ req'[c].had = req[c].had /\ req'[c].late = req[c].late
Stripped(c) ==
    /\ Unchanged(c) /\ req'[c].list = req[c].list
    /\ req'[c].gift["code"] = Absent /\ \A f \in Drawn \ {"code"} : req'[c].gift[f] = req[c].gift[f]

Bare(c) == [req[c] EXCEPT !.gift = [@ EXCEPT !["code"] = Absent]]

LEMMA BareGood ==
    ASSUME Typed, NEW c \in Browsers
    PROVE  /\ Unoffered[c] = Bare(c) /\ Bare(c) \in Good(entered)
           /\ Bare(c).page = req[c].page /\ Bare(c).rest = req[c].rest /\ Bare(c).at = req[c].at
           /\ Bare(c).text = req[c].text /\ Bare(c).had = req[c].had /\ Bare(c).late = req[c].late
           /\ Bare(c).list = req[c].list
           /\ Bare(c).gift["code"] = Absent /\ \A f \in Drawn \ {"code"} : Bare(c).gift[f] = req[c].gift[f]
<1> DEFINE g == [req[c].gift EXCEPT !["code"] = Absent]
           s == [req[c] EXCEPT !.gift = g]
<1>1. req[c] \in Requests /\ InOrder(req[c], entered) /\ req[c].gift \in Holdings
  BY AtHand, InRequest
<1>2. g \in Holdings /\ g["code"] = Absent /\ \A f \in Drawn \ {"code"} : g[f] = req[c].gift[f]
  BY <1>1 DEF Holdings, Drawn
<1> HIDE DEF g
<1>3. /\ s \in Requests /\ s.page = req[c].page /\ s.rest = req[c].rest /\ s.at = req[c].at
      /\ s.text = req[c].text /\ s.had = req[c].had /\ s.late = req[c].late /\ s.list = req[c].list /\ s.gift = g
  BY <1>1, <1>2 DEF Requests
<1>4. Unoffered[c] = s /\ Bare(c) = s
  BY DEF Unoffered, Bare, g
<1> HIDE DEF s
<1>5. InOrder(s, entered)
  BY <1>1, <1>2, <1>3 DEF InOrder, OpOf, Fits, Drawn
<1>6. QED BY <1>2, <1>3, <1>4, <1>5 DEF Good

LEMMA ExpiryStrips ==
    ASSUME Typed, CodeExpires
    PROVE  req' \in [Browsers -> Good(entered)] /\ \A c \in Browsers : Stripped(c)
<1>1. req' = Unoffered
  BY DEF CodeExpires
<1>2. Unoffered = [c \in Browsers |-> Bare(c)]
  BY DEF Unoffered, Bare
<1>3. QED BY <1>1, <1>2, BareGood DEF Stripped, Unchanged

LEMMA UnlinkStrips ==
    ASSUME Typed, NEW b \in Browsers, Unlink(b)
    PROVE  /\ req' \in [Browsers -> Good(entered)] /\ \A c \in Browsers \ {b} : Stripped(c)
           /\ Kept(b) /\ req'[b].at = "next" /\ req'[b].rest # <<"countAuto", "render">>
           /\ req[b].gift["code"] = Absent /\ req[b].had = {} /\ Op(b) = "drop"
<1>1. req' = [Unoffered EXCEPT ![b] = Onward(b)] /\ Op(b) = "drop" /\ Orderly(req[b].rest) /\ req[b].rest # <<>>
  BY AtHand DEF Unlink
<1>2. Unoffered = [c \in Browsers |-> Bare(c)]
  BY DEF Unoffered, Bare
<1>3. /\ Onward(b) \in Good(entered) /\ Onward(b).rest = Tail(req[b].rest) /\ Onward(b).at = "next"
      /\ Onward(b).gift = req[b].gift /\ Onward(b).had = req[b].had /\ Onward(b).late = req[b].late
  BY <1>1, Ungranted, OnwardTyped
<1>4. req[b].rest \notin Late /\ Fits(req[b], req[b].rest, entered)
  BY <1>1, AtHand DEF Orderly, InOrder
<1>5. req[b].gift["code"] = Absent /\ req[b].had = {}
  BY <1>4 DEF Fits, Late
<1>6. Tail(req[b].rest) # <<"countAuto", "render">>
  BY <1>1 DEF Orderly
<1>7. \A c \in Browsers : Bare(c) \in Good(entered)
  BY BareGood
<1>8. req'[b] = Onward(b) /\ (\A c \in Browsers \ {b} : req'[c] = Bare(c)) /\ req' \in [Browsers -> Good(entered)]
  BY <1>1, <1>2, <1>3, <1>7
<1>9. \A c \in Browsers \ {b} : Stripped(c)
  BY <1>8, BareGood DEF Stripped, Unchanged
<1>10. QED BY <1>1, <1>3, <1>5, <1>6, <1>8, <1>9 DEF Kept

\* Time passes: nothing but the lists change.
LEMMA TickAges ==
    ASSUME Typed, Tick
    PROVE  /\ req' \in [Browsers -> Good(entered)]
           /\ \A c \in Browsers : Unchanged(c) /\ req'[c].gift = req[c].gift /\ req'[c].list = Older(req[c].list)
           /\ attempts' = Older(attempts) /\ passed' = Older(passed)
           /\ attempts' \in Seq(Nat) /\ passed' \in Seq(Nat)
<1>1. req' = [b \in Browsers |-> [req[b] EXCEPT !.list = Older(@)]]
  BY DEF Tick
<1>2. ASSUME NEW c \in Browsers
      PROVE  LET s == [req[c] EXCEPT !.list = Older(@)]
             IN  /\ s \in Good(entered) /\ s.page = req[c].page /\ s.rest = req[c].rest /\ s.at = req[c].at
                 /\ s.text = req[c].text /\ s.had = req[c].had /\ s.late = req[c].late
                 /\ s.gift = req[c].gift /\ s.list = Older(req[c].list)
  <2> DEFINE s == [req[c] EXCEPT !.list = Older(@)]
  <2>1. req[c] \in Requests /\ InOrder(req[c], entered) /\ Older(req[c].list) \in Seq(Nat)
    BY AtHand, InRequest, OlderFacts
  <2>2. /\ s \in Requests /\ s.page = req[c].page /\ s.rest = req[c].rest /\ s.at = req[c].at
        /\ s.text = req[c].text /\ s.had = req[c].had /\ s.late = req[c].late
        /\ s.gift = req[c].gift /\ s.list = Older(req[c].list)
    BY <2>1 DEF Requests
  <2> HIDE DEF s
  <2>3. InOrder(s, entered)
    BY <2>1, <2>2 DEF InOrder, OpOf, Fits
  <2>4. QED BY <2>2, <2>3 DEF Good, s
<1>3. attempts' = Older(attempts) /\ passed' = Older(passed)
  BY DEF Tick
<1>4. QED BY <1>1, <1>2, <1>3, OlderFacts DEF Unchanged, Typed

LEMMA RestartClears ==
    ASSUME Typed, Restart
    PROVE  /\ req' \in [Browsers -> Good(entered)]
           /\ \A c \in Browsers : IF req[c].page # "rotate" THEN req'[c] = Idle ELSE req'[c] = req[c]
BY IdleGood DEF Restart, Served, Typed

-----------------------------------------------------------------------------
\* The requests remain in order.
LEMMA StepRequests ==
    ASSUME Typed, [Next]_vars
    PROVE  req' \in [Browsers -> Good(entered')]
<1>1. CASE Restart \/ Tick \/ CodeExpires
  BY <1>1, RestartClears, TickAges, ExpiryStrips DEF Restart, Tick, CodeExpires
<1>2. ASSUME NEW b \in Browsers, NEW p \in Pages, Begin(b, p)
      PROVE  req' \in [Browsers -> Good(entered')]
  BY <1>2, BeginAlone DEF Alone
<1>3. ASSUME NEW b \in Browsers, Use(b) \/ Need(b) \/ Open(b) \/ Fill(b) \/ Replace(b)
      PROVE  req' \in [Browsers -> Good(entered')]
  <2>1. CASE Use(b)
    BY <2>1, UseAdvances DEF Advances, Alone, Moves
  <2>2. CASE Replace(b)
    BY <2>2, ReplaceAdvances DEF Advances, Alone
  <2>3. CASE Need(b)
    BY <2>3, NeedStaged DEF Staged, Alone
  <2>4. CASE Open(b) \/ Fill(b)
    BY <2>4, OpenStaged DEF Staged, Alone
  <2>5. QED BY <1>3, <2>1, <2>2, <2>3, <2>4
<1>4. ASSUME NEW b \in Browsers,
             NothingSent(b) \/ Refuse(b) \/ Admit(b) \/ Mark(b) \/ Leave(b) \/ Fetch(b) \/ Fails(b) \/ Answer(b)
      PROVE  req' \in [Browsers -> Good(entered')]
  BY <1>4, NothingSentMoves, LimitMoves, MarkMoves, OtherMoves DEF Moves, Alone
<1>5. ASSUME NEW b \in Browsers, Pending(b) \/ Attempt(b) \/ Look(b) \/ Unlink(b)
      PROVE  req' \in [Browsers -> Good(entered')]
  <2>1. CASE Unlink(b)
    BY <2>1, UnlinkStrips DEF Unlink
  <2>2. CASE Pending(b) \/ Attempt(b) \/ Look(b)
    BY <2>2, PendingMoves, AttemptStaged, LookMoves DEF Moves, Staged, Alone
  <2>3. QED BY <1>5, <2>1, <2>2
<1>6. CASE UNCHANGED vars
  BY <1>6 DEF Typed, vars
<1>7. QED BY <1>1, <1>2, <1>3, <1>4, <1>5, <1>6 DEF Next

\* The files remain files.
LEMMA StepFiles ==
    ASSUME Typed, [Next]_vars
    PROVE  file' \in [Names -> File(Browsers, Texts)]
<1>0. file \in [Names -> File(Browsers, Texts)]
  BY DEF Typed
<1>1. CASE UNCHANGED file
  BY <1>0, <1>1
<1>2. ASSUME NEW b \in Browsers, Open(b) \/ Fill(b)
      PROVE  file' \in [Names -> File(Browsers, Texts)]
  <2>1. About(b) \in Names /\ req[b].text \in Texts /\ file[About(b)] \in File(Browsers, Texts)
    BY <1>0, <1>2, OpenStaged
  <2>2. Opened(file[About(b)], b) \in File(Browsers, Texts)
        /\ Filled(file[About(b)], b, req[b].text) \subseteq File(Browsers, Texts)
    BY <2>1, FileTyping
  <2>3. QED BY <1>0, <1>2, <2>2 DEF Open, Fill
<1>3. ASSUME NEW b \in Browsers, Replace(b)
      PROVE  file' \in [Names -> File(Browsers, Texts)]
  <2>1. About(b) \in Names /\ file[About(b)] \in File(Browsers, Texts)
    BY <1>0, <1>3, ReplaceAdvances
  <2>2. Replaced(file[About(b)]) \in File(Browsers, Texts)
    BY <2>1, FileTyping
  <2>3. QED BY <1>0, <1>3, <2>2 DEF Replace
<1>4. ASSUME NEW Dead, file' = [f \in Names |-> Closed(file[f], Dead)]
      PROVE  file' \in [Names -> File(Browsers, Texts)]
  BY <1>0, <1>4 DEF Closed, File
<1>5. CASE Restart
  BY <1>4, <1>5 DEF Restart
<1>6. ASSUME NEW b \in Browsers, Fails(b)
      PROVE  file' \in [Names -> File(Browsers, Texts)]
  BY <1>4, <1>6 DEF Fails
<1>7. ASSUME NEW b \in Browsers, Unlink(b)
      PROVE  file' \in [Names -> File(Browsers, Texts)]
  <2>1. "code" \in Names /\ file["code"] \in File(Browsers, Texts)
    BY <1>0 DEF Names, Drawn
  <2>2. Unlinked(file["code"]) \in File(Browsers, Texts)
    BY <2>1 DEF Unlinked, File, Unreadable
  <2>3. QED BY <1>0, <1>7, <2>2 DEF Unlink
<1>8. ASSUME NEW b \in Browsers
      PROVE  /\ \A p \in Pages : Begin(b, p) => UNCHANGED file
             /\ NothingSent(b) \/ Use(b) \/ Need(b) \/ Pending(b) \/ Attempt(b) \/ Refuse(b) \/ Admit(b) \/ Mark(b)
                \/ Leave(b) \/ Fetch(b) \/ Look(b) \/ Answer(b) => UNCHANGED file
  BY DEF Begin, NothingSent, Use, Need, Pending, Attempt, Refuse, Admit, Mark, Leave, Fetch, Look, Answer
<1>9. (Tick \/ CodeExpires \/ UNCHANGED vars) => UNCHANGED file
  BY DEF Tick, CodeExpires, vars
<1>10. QED BY <1>1, <1>2, <1>3, <1>5, <1>6, <1>7, <1>8, <1>9 DEF Next

\* A login is answered with a success when the first login has been retired.
LEMMA StepGreets ==
    ASSUME Typed, [Next]_vars
    PROVE  /\ greeted' \in BOOLEAN /\ entered' \in BOOLEAN
           /\ (entered => entered') /\ (greeted' => entered')
<1>1. ASSUME NEW b \in Browsers, Answer(b)
      PROVE  /\ greeted' \in BOOLEAN /\ entered' \in BOOLEAN
             /\ (entered => entered') /\ (greeted' => entered')
  <2>1. greeted' = (greeted \/ req[b].gift["session"] # Absent) /\ entered' = entered /\ Op(b) = "answer"
    BY <1>1 DEF Answer, Op
  <2>2. req[b].gift["session"] = Absent \/ entered
    BY <2>1, Ungranted
  <2>3. QED BY <2>1, <2>2 DEF Typed
<1>2. ASSUME NEW b \in Browsers, Mark(b)
      PROVE  /\ greeted' \in BOOLEAN /\ entered' \in BOOLEAN
             /\ (entered => entered') /\ (greeted' => entered')
  BY <1>2 DEF Mark, Typed
<1>3. ASSUME UNCHANGED <<entered, greeted>>
      PROVE  /\ greeted' \in BOOLEAN /\ entered' \in BOOLEAN
             /\ (entered => entered') /\ (greeted' => entered')
  BY <1>3 DEF Typed
<1>4. \A b \in Browsers :
        /\ \A p \in Pages : Begin(b, p) => UNCHANGED <<entered, greeted>>
        /\ NothingSent(b) \/ Use(b) \/ Need(b) \/ Open(b) \/ Fill(b) \/ Replace(b) \/ Pending(b) \/ Attempt(b)
           \/ Refuse(b) \/ Admit(b) \/ Leave(b) \/ Fetch(b) \/ Look(b) \/ Unlink(b) \/ Fails(b)
              => UNCHANGED <<entered, greeted>>
  BY DEF Begin, NothingSent, Use, Need, Open, Fill, Replace, Pending, Attempt, Refuse, Admit, Leave, Fetch,
         Look, Unlink, Fails
<1>5. Restart \/ Tick \/ CodeExpires \/ UNCHANGED vars => UNCHANGED <<entered, greeted>>
  BY DEF Restart, Tick, CodeExpires, vars
<1>6. QED BY <1>1, <1>2, <1>3, <1>4, <1>5 DEF Next

\* Jars hold texts.
LEMMA StepJars ==
    ASSUME Typed, [Next]_vars
    PROVE  jar' \in [Browsers -> Holdings]
<1>0. jar \in [Browsers -> Holdings]
  BY DEF Typed
<1>1. ASSUME NEW f, jar' = Withdrawn(f)
      PROVE  jar' \in [Browsers -> Holdings]
  BY <1>0, <1>1 DEF Withdrawn, Holdings
<1>2. ASSUME NEW b \in Browsers, Answer(b)
      PROVE  jar' \in [Browsers -> Holdings]
  <2>1. req[b].gift \in Holdings BY InRequest
  <2>2. [f \in Drawn |-> IF req[b].gift[f] = Absent THEN jar[b][f] ELSE req[b].gift[f]] \in Holdings
    BY <1>0, <2>1 DEF Holdings
  <2>3. QED BY <1>0, <1>2, <2>2 DEF Answer
<1>3. ASSUME NEW b \in Browsers, Leave(b) \/ Fetch(b)
      PROVE  jar' \in [Browsers -> Holdings]
  <2>1. \A text \in {Absent} \cup Marks : \A f : [jar[b] EXCEPT ![f] = text] \in Holdings
    BY <1>0 DEF Holdings
  <2>2. CASE Leave(b)
    <3>1. jar' = [jar EXCEPT ![b] = [jar[b] EXCEPT !["session"] = Absent]] BY <2>2 DEF Leave
    <3>2. QED BY <1>0, <2>1, <3>1
  <2>3. CASE Fetch(b)
    <3> DEFINE text == IF file["cli"].live \in Marks THEN file["cli"].live ELSE Absent
    <3>1. jar' = [jar EXCEPT ![b] = [jar[b] EXCEPT !["cli"] = text]] BY <2>3 DEF Fetch
    <3>2. text \in {Absent} \cup Marks OBVIOUS
    <3> HIDE DEF text
    <3>3. QED BY <1>0, <2>1, <3>1, <3>2
  <2>4. QED BY <1>3, <2>2, <2>3
<1>4. ASSUME UNCHANGED jar PROVE jar' \in [Browsers -> Holdings]
  BY <1>0, <1>4
<1>5. \A b \in Browsers :
        /\ \A p \in Pages : Begin(b, p) => UNCHANGED jar
        /\ NothingSent(b) \/ Use(b) \/ Need(b) \/ Open(b) \/ Fill(b) \/ Pending(b) \/ Attempt(b)
           \/ Refuse(b) \/ Admit(b) \/ Mark(b) \/ Look(b) \/ Fails(b) => UNCHANGED jar
        /\ Replace(b) => UNCHANGED jar \/ jar' = Withdrawn("cli")
        /\ Unlink(b) => jar' = Withdrawn("code")
  BY DEF Begin, NothingSent, Use, Need, Open, Fill, Replace, Pending, Attempt, Refuse, Admit, Mark,
         Look, Unlink, Fails
<1>6. /\ Restart \/ Tick \/ UNCHANGED vars => UNCHANGED jar
      /\ CodeExpires => jar' = Withdrawn("code")
  BY DEF Restart, Tick, CodeExpires, vars
<1>7. QED BY <1>1, <1>2, <1>3, <1>4, <1>5, <1>6 DEF Next

\* The rest of the memory.
LEMMA StepMemory ==
    ASSUME Typed, [Next]_vars
    PROVE  /\ mix' \in Mixes /\ stale' \in BOOLEAN /\ attempts' \in Seq(Nat) /\ passed' \in Seq(Nat)
           /\ raced' \in SUBSET (Names \cup {"attempts"}) /\ seen' \in [Counters -> Nat]
<1> USE DEF Typed
<1>1. mix' = mix
  BY DEF Next, Restart, Tick, CodeExpires, Begin, NothingSent, Use, Need, Open, Fill, Replace, Pending, Attempt,
         Refuse, Admit, Mark, Leave, Fetch, Look, Unlink, Answer, Fails, vars
<1>2. stale' = stale \/ stale' = TRUE \/ stale' = FALSE \/ \E b \in Browsers : stale' = (stale /\ About(b) # "code")
  BY DEF Next, Restart, Tick, CodeExpires, Begin, NothingSent, Use, Need, Open, Fill, Replace, Pending, Attempt,
         Refuse, Admit, Mark, Leave, Fetch, Look, Unlink, Answer, Fails, vars
<1>3. attempts' \in Seq(Nat) /\ passed' \in Seq(Nat)
  <2>1. CASE Restart BY <2>1 DEF Restart
  <2>2. CASE Tick BY <2>2, TickAges
  <2>3. ASSUME NEW b \in Browsers, Refuse(b) PROVE attempts' \in Seq(Nat) /\ passed' \in Seq(Nat)
    BY <2>3, InRequest DEF Refuse
  <2>4. ASSUME NEW b \in Browsers, Admit(b) PROVE attempts' \in Seq(Nat) /\ passed' \in Seq(Nat)
    BY <2>4, InRequest DEF Admit
  <2>5. ASSUME UNCHANGED <<attempts, passed>> PROVE attempts' \in Seq(Nat) /\ passed' \in Seq(Nat)
    BY <2>5
  <2>6. \A b \in Browsers :
        /\ \A p \in Pages : Begin(b, p) => UNCHANGED <<attempts, passed>>
        /\ NothingSent(b) \/ Use(b) \/ Need(b) \/ Open(b) \/ Fill(b) \/ Replace(b) \/ Pending(b) \/ Attempt(b)
           \/ Mark(b) \/ Leave(b) \/ Fetch(b) \/ Look(b) \/ Unlink(b) \/ Answer(b) \/ Fails(b)
             => UNCHANGED <<attempts, passed>>
    BY DEF Begin, NothingSent, Use, Need, Open, Fill, Replace, Pending, Attempt, Mark, Leave, Fetch,
           Look, Unlink, Answer, Fails
  <2>7. CodeExpires \/ UNCHANGED vars => UNCHANGED <<attempts, passed>>
    BY DEF CodeExpires, vars
  <2>8. QED BY <2>1, <2>2, <2>3, <2>4, <2>5, <2>6, <2>7 DEF Next
<1>4. raced' \in SUBSET (Names \cup {"attempts"})
  <2>1. ASSUME NEW b \in Browsers, Need(b)
        PROVE  raced' \in SUBSET (Names \cup {"attempts"})
    BY <2>1, NeedStaged, UsesNames DEF Need, Race, About
  <2>2. ASSUME NEW b \in Browsers, Attempt(b) \/ Unlink(b)
        PROVE  raced' \in SUBSET (Names \cup {"attempts"})
    BY <2>2 DEF Attempt, Unlink, Race, Names, Drawn
  <2>3. \A b \in Browsers :
        /\ \A p \in Pages : Begin(b, p) => UNCHANGED raced
        /\ NothingSent(b) \/ Use(b) \/ Open(b) \/ Fill(b) \/ Replace(b) \/ Pending(b)
           \/ Refuse(b) \/ Admit(b) \/ Mark(b) \/ Leave(b) \/ Fetch(b) \/ Look(b) \/ Answer(b) \/ Fails(b)
             => UNCHANGED raced
    BY DEF Begin, NothingSent, Use, Open, Fill, Replace, Pending, Refuse, Admit, Mark, Leave, Fetch,
           Look, Answer, Fails
  <2>4. raced' = raced \/ raced' = raced \ {"attempts"} \/ \E b \in Browsers : Need(b) \/ Attempt(b) \/ Unlink(b)
    BY <2>3 DEF Next, Restart, Tick, CodeExpires, vars
  <2>5. QED BY <2>1, <2>2, <2>4
<1>5. seen' \in [Counters -> Nat]
  <2>1. ASSUME NEW b \in Browsers, Answer(b) PROVE seen' \in [Counters -> Nat]
    BY <2>1 DEF Answer
  <2>2. ASSUME NEW b \in Browsers, Replace(b) PROVE seen' \in [Counters -> Nat]
    BY <2>2 DEF Replace
  <2>3. \A b \in Browsers :
        /\ \A p \in Pages : Begin(b, p) => UNCHANGED seen
        /\ NothingSent(b) \/ Use(b) \/ Need(b) \/ Open(b) \/ Fill(b) \/ Pending(b) \/ Attempt(b)
           \/ Refuse(b) \/ Admit(b) \/ Mark(b) \/ Leave(b) \/ Fetch(b) \/ Look(b) \/ Unlink(b) \/ Fails(b)
             => UNCHANGED seen
    BY DEF Begin, NothingSent, Use, Need, Open, Fill, Pending, Attempt, Refuse, Admit, Mark, Leave, Fetch,
           Look, Unlink, Fails
  <2>4. Restart \/ Tick \/ CodeExpires \/ UNCHANGED vars => UNCHANGED seen
    BY DEF Restart, Tick, CodeExpires, vars
  <2>5. QED BY <2>1, <2>2, <2>3, <2>4 DEF Next
<1>6. QED BY <1>1, <1>2, <1>3, <1>4, <1>5

LEMMA TypedStep == Typed /\ [Next]_vars => Typed'
BY StepRequests, StepFiles, StepGreets, StepJars, StepMemory DEF Typed

\* Every variable keeps to its domain, whatever the pages of a mix and whoever meets over
\* the files.
THEOREM TypeCorrect == Spec => []TypeOK
<1>1. Init => Typed BY InitTyped
<1>2. Typed /\ [Next]_vars => Typed' BY TypedStep
<1>3. Typed => TypeOK BY TypedTypeOK
<1>4. QED BY <1>1, <1>2, <1>3, PTL DEF Spec

-----------------------------------------------------------------------------
\* A request that began after a login was answered goes past no page that counts an
\* automatic reveal.
Clear(r, e) == r.late => e /\ "autoViews" \notin r.had /\ r.rest # <<"countAuto", "render">>
Clean == \A b \in Browsers : Clear(req[b], entered)

LEMMA AutoUses ==
    ASSUME Typed, NEW b \in Browsers, Op(b) \in DOMAIN Uses, About(b) = "autoViews"
    PROVE  req[b].rest = <<"countAuto", "render">>
<1>1. Op(b) = "countAuto"
  BY DEF About, Uses
<1>2. Orderly(req[b].rest) /\ Head(req[b].rest) = "countAuto" /\ req[b].rest # <<>>
  BY <1>1, AtHand
<1>3. QED BY <1>2 DEF Orderly

LEMMA CleanHides == Typed /\ Clean => PasswordHidden
<1> SUFFICES ASSUME Typed, Clean, NEW b \in Browsers, req[b].late
             PROVE  "autoViews" \notin req[b].had /\ ~Writing(b, "autoViews")
  BY DEF PasswordHidden
<1>1. "autoViews" \notin req[b].had /\ req[b].rest # <<"countAuto", "render">>
  BY DEF Clean, Clear
<1>2. Writing(b, "autoViews") => Op(b) \in DOMAIN Uses /\ About(b) = "autoViews"
  BY AtHand DEF Writing, WritingStages
<1>3. QED BY <1>1, <1>2, AutoUses

LEMMA StepClears ==
    ASSUME Typed, Clean, [Next]_vars, NEW c \in Browsers
    PROVE  Clear(req'[c], entered')
<1>0. Clear(req[c], entered) /\ (entered => entered') /\ (greeted => entered)
  BY StepGreets DEF Clean, Typed
<1>1. Clear(req[c], entered')
  BY <1>0 DEF Clear
<1>2. Clear(Idle, entered')
  BY DEF Clear, Idle
<1>3. ASSUME Unchanged(c) PROVE Clear(req'[c], entered')
  BY <1>1, <1>3 DEF Unchanged, Clear
<1>4. ASSUME NEW b \in Browsers, Moves(b)
      PROVE  Clear(req'[c], entered')
  <2>1. CASE b = c BY <1>1, <1>2, <1>4, <2>1 DEF Moves, Kept, Clear
  <2>2. CASE b # c BY <1>1, <1>4, <2>2 DEF Moves, Alone
  <2>3. QED BY <2>1, <2>2
<1>5. ASSUME NEW b \in Browsers, NEW at, Staged(b, at)
      PROVE  Clear(req'[c], entered')
  <2>1. CASE b = c BY <1>1, <1>5, <2>1 DEF Staged, Kept, Clear
  <2>2. CASE b # c BY <1>1, <1>5, <2>2 DEF Staged, Alone
  <2>3. QED BY <2>1, <2>2
<1>6. ASSUME NEW b \in Browsers, NEW got, Advances(b, got), Op(b) \in DOMAIN Uses
      PROVE  Clear(req'[c], entered')
  <2>1. CASE b = c /\ req'[c] # Idle
    <3>1. /\ req'[b].rest = Tail(req[b].rest) /\ req'[b].late = req[b].late
          /\ req'[b].had = req[b].had \cup (IF Op(b) \in Counting THEN {About(b)} ELSE {})
      BY <1>6, <2>1 DEF Advances, Became
    <3>2. req'[b].rest # <<"countAuto", "render">>
      BY <1>6, <3>1, AtHand DEF Orderly, Uses
    <3>3. req[b].late => About(b) # "autoViews"
      BY <1>0, <1>6, <2>1, AutoUses DEF Clear
    <3>4. QED BY <1>1, <2>1, <3>1, <3>2, <3>3 DEF Clear
  <2>2. CASE b # c BY <1>1, <1>6, <2>2 DEF Advances, Alone
  <2>3. QED BY <1>2, <2>1, <2>2
<1>7. CASE Restart
  BY <1>1, <1>2, <1>7, RestartClears
<1>8. CASE Tick \/ CodeExpires
  BY <1>3, <1>8, TickAges, ExpiryStrips DEF Stripped
<1>9. ASSUME NEW b \in Browsers, NEW p \in Pages, Begin(b, p)
      PROVE  Clear(req'[c], entered')
  <2>1. CASE b = c BY <1>0, <1>9, <2>1, BeginAlone DEF Clear
  <2>2. CASE b # c BY <1>1, <1>9, <2>2, BeginAlone DEF Alone
  <2>3. QED BY <2>1, <2>2
<1>10. ASSUME NEW b \in Browsers, Use(b) \/ Need(b) \/ Open(b) \/ Fill(b) \/ Replace(b)
       PROVE  Clear(req'[c], entered')
  <2>1. CASE Use(b) BY <1>4, <1>6, <2>1, UseAdvances
  <2>2. CASE Replace(b) BY <1>6, <2>2, ReplaceAdvances
  <2>3. CASE Need(b) BY <1>5, <2>3, NeedStaged
  <2>4. CASE Open(b) \/ Fill(b) BY <1>5, <2>4, OpenStaged
  <2>5. QED BY <1>10, <2>1, <2>2, <2>3, <2>4
<1>11. ASSUME NEW b \in Browsers,
              NothingSent(b) \/ Refuse(b) \/ Admit(b) \/ Mark(b) \/ Leave(b) \/ Fetch(b) \/ Fails(b) \/ Answer(b)
       PROVE  Clear(req'[c], entered')
  BY <1>4, <1>11, NothingSentMoves, LimitMoves, MarkMoves, OtherMoves
<1>12. ASSUME NEW b \in Browsers, Attempt(b) \/ Look(b)
       PROVE  Clear(req'[c], entered')
  BY <1>4, <1>5, <1>12, AttemptStaged, LookMoves
<1>13. ASSUME NEW b \in Browsers, Pending(b)
       PROVE  Clear(req'[c], entered')
  <2>1. CASE b = c BY <1>0, <1>1, <1>13, <2>1, PendingMoves DEF Kept, Clear
  <2>2. CASE b # c BY <1>1, <1>13, <2>2, PendingMoves DEF Alone
  <2>3. QED BY <2>1, <2>2
<1>14. ASSUME NEW b \in Browsers, Unlink(b)
       PROVE  Clear(req'[c], entered')
  <2>1. CASE b = c BY <1>1, <1>14, <2>1, UnlinkStrips DEF Kept, Clear
  <2>2. CASE b # c BY <1>3, <1>14, <2>2, UnlinkStrips DEF Stripped
  <2>3. QED BY <2>1, <2>2
<1>15. CASE UNCHANGED vars
  BY <1>1, <1>15 DEF vars
<1>16. QED BY <1>7, <1>8, <1>9, <1>10, <1>11, <1>12, <1>13, <1>14, <1>15 DEF Next

\* However many requests meet and whenever the wizard restarts, a login page asked for
\* after a login succeeded shows no password.
THEOREM HiddenAfterLogin == Spec => []PasswordHidden
<1>1. Init => Typed /\ Clean
  BY InitTyped DEF Init, Clean, Clear, Idle
<1>2. Typed /\ Clean /\ [Next]_vars => Typed' /\ Clean'
  <2>1. ASSUME Typed, Clean, [Next]_vars PROVE Clean'
    BY <2>1, StepClears DEF Clean
  <2>2. QED BY <2>1, TypedStep
<1>3. Typed /\ Clean => PasswordHidden BY CleanHides
<1>4. QED BY <1>1, <1>2, <1>3, PTL DEF Spec

-----------------------------------------------------------------------------
\* One attempt after the other: the list is what the limiter let pass, no longer than
\* the cap, and whoever is about to store it has it as it is.
Sequenced ==
    /\ passed = attempts /\ Len(attempts) <= MaxAttempts
    /\ \A b \in Browsers : req[b].at = "limit" =>
         /\ req[b].list = attempts
         /\ \A c \in Browsers : req[c].at = "limit" => c = b
OneByOne == "attempts" \notin raced => Sequenced

\* Nobody comes to the limit, and nothing of it changes.
Sober ==
    /\ UNCHANGED <<attempts, passed>> /\ ("attempts" \in raced' <=> "attempts" \in raced)
    /\ \A c \in Browsers : req'[c].at = "limit" => req[c].at = "limit" /\ req'[c].list = req[c].list

LEMMA SoberStep == OneByOne /\ Sober => OneByOne'
BY DEF OneByOne, Sequenced, Sober

LEMMA SoberMoves ==
    ASSUME NEW b \in Browsers, Moves(b) \/ (\E at \in {"open", "opened", "full", "unlink"} : Staged(b, at)) \/ (\E got : Advances(b, got)),
           UNCHANGED <<attempts, passed>>, "attempts" \in raced' <=> "attempts" \in raced
    PROVE  Sober
<1>1. Alone(b) /\ req'[b].at # "limit"
  BY DEF Moves, Staged, Advances, Became
<1>2. QED BY <1>1 DEF Alone, Sober

LEMMA StepSober ==
    ASSUME Typed, OneByOne, [Next]_vars
    PROVE  OneByOne'
<1>1. CASE Restart
  <2>1. "attempts" \notin raced' /\ attempts' = <<>> /\ passed' = <<>>
    BY <1>1 DEF Restart
  <2>2. \A c \in Browsers : req'[c].at # "limit"
    <3>1. TAKE c \in Browsers
    <3>2. req[c].page = "rotate" => Op(c) \in {"redraw", "answer"}
      <4>1. InOrder(req[c], entered) BY AtHand
      <4>2. Head(<<"redraw">>) = "redraw" OBVIOUS
      <4>3. QED BY <4>1, <4>2 DEF InOrder, Fits, RotateToken, Op
    <3>3. req[c].page = "rotate" => req[c].at # "limit"
      BY <3>2, AtHand
    <3>4. QED BY <1>1, <3>3, RestartClears DEF Idle
  <2>3. QED BY <2>1, <2>2, NumbersAssumption DEF OneByOne, Sequenced
<1>2. CASE Tick
  <2>1. raced' = raced BY <1>2 DEF Tick
  <2>2. \A c \in Browsers : req'[c].at = req[c].at /\ req'[c].list = Older(req[c].list)
    BY <1>2, TickAges DEF Unchanged
  <2>3. attempts' = Older(attempts) /\ passed' = Older(passed) /\ Len(attempts') <= Len(attempts)
        /\ Len(attempts') \in Nat /\ Len(attempts) \in Nat
    BY <1>2, TickAges, OlderFacts DEF Typed
  <2>4. QED BY <2>1, <2>2, <2>3, NumbersAssumption DEF OneByOne, Sequenced
<1>3. CASE CodeExpires
  BY <1>3, ExpiryStrips, SoberStep DEF CodeExpires, Sober, Stripped, Unchanged
<1>4. ASSUME NEW b \in Browsers, NEW p \in Pages, Begin(b, p)
      PROVE  OneByOne'
  <2>1. Sober BY <1>4, BeginAlone DEF Begin, Sober, Alone
  <2>2. QED BY <2>1, SoberStep
<1>5. ASSUME NEW b \in Browsers, Unlink(b)
      PROVE  OneByOne'
  BY <1>5, UnlinkStrips, SoberStep DEF Unlink, Race, Sober, Stripped, Unchanged
<1>6. ASSUME NEW b \in Browsers, Need(b)
      PROVE  OneByOne'
  <2>1. About(b) \in Names /\ Staged(b, "open")
    BY <1>6, NeedStaged, UsesNames DEF About
  <2>2. UNCHANGED <<attempts, passed>> /\ ("attempts" \in raced' <=> "attempts" \in raced)
    BY <1>6, <2>1 DEF Need, Race, Names, Drawn, Counters
  <2>3. QED BY <2>1, <2>2, SoberMoves, SoberStep
<1>7. ASSUME NEW b \in Browsers, Attempt(b)
      PROVE  OneByOne'
  <2>1. /\ Alone(b) /\ req'[b].at = "limit" /\ req'[b].list = attempts
    BY <1>7, AttemptStaged DEF Staged
  <2>2. attempts' = attempts /\ passed' = passed /\ Race("attempts", {c \in Browsers : req[c].at = "limit"})
    BY <1>7 DEF Attempt
  <2>3. ASSUME "attempts" \notin raced'
        PROVE  "attempts" \notin raced /\ \A c \in Browsers : req[c].at # "limit"
    BY <2>2, <2>3 DEF Race
  <2>4. QED BY <2>1, <2>2, <2>3 DEF OneByOne, Sequenced, Alone
<1>8. ASSUME NEW b \in Browsers, Refuse(b) \/ Admit(b)
      PROVE  OneByOne'
  <2>1. Moves(b) /\ raced' = raced /\ req[b].at = "limit"
    BY <1>8, LimitMoves DEF Refuse, Admit
  <2> SUFFICES ASSUME "attempts" \notin raced
               PROVE  Sequenced'
    BY <2>1 DEF OneByOne
  <2>2. Sequenced BY DEF OneByOne
  <2>3. \A c \in Browsers : req'[c].at # "limit"
    BY <2>1, <2>2 DEF Moves, Alone, Sequenced
  <2>4. passed' = attempts' /\ Len(attempts') <= MaxAttempts
    <3>1. req[b].list = attempts /\ passed = attempts /\ attempts \in Seq(Nat)
      BY <2>1, <2>2 DEF Sequenced, Typed
    <3>2. CASE Refuse(b)
      BY <2>2, <3>1, <3>2 DEF Refuse, Sequenced
    <3>3. CASE Admit(b)
      <4>1. ~(Len(attempts) >= MaxAttempts) /\ attempts' = Append(attempts, 0) /\ passed' = Append(attempts, 0)
        BY <3>1, <3>3 DEF Admit, TooMany
      <4>2. Len(Append(attempts, 0)) = Len(attempts) + 1 /\ Len(attempts) \in Nat
        BY <3>1
      <4>3. QED BY <4>1, <4>2, NumbersAssumption
    <3>4. QED BY <1>8, <3>2, <3>3
  <2>5. QED BY <2>3, <2>4 DEF Sequenced
<1>9. ASSUME NEW b \in Browsers, Use(b) \/ Open(b) \/ Fill(b) \/ Replace(b)
      PROVE  OneByOne'
  <2>1. UNCHANGED <<attempts, passed, raced>>
    BY <1>9 DEF Use, Open, Fill, Replace
  <2>2. Moves(b) \/ (\E at \in {"open", "opened", "full", "unlink"} : Staged(b, at)) \/ (\E got : Advances(b, got))
    BY <1>9, UseAdvances, OpenStaged, ReplaceAdvances
  <2>3. QED BY <2>1, <2>2, SoberMoves, SoberStep
<1>10. ASSUME NEW b \in Browsers,
              NothingSent(b) \/ Mark(b) \/ Leave(b) \/ Fetch(b) \/ Look(b) \/ Fails(b) \/ Answer(b)
       PROVE  OneByOne'
  <2>1. UNCHANGED <<attempts, passed, raced>>
    BY <1>10 DEF NothingSent, Mark, Leave, Fetch, Look, Fails, Answer
  <2>2. Moves(b) \/ Staged(b, "unlink")
    BY <1>10, NothingSentMoves, MarkMoves, OtherMoves, LookMoves
  <2>3. QED BY <2>1, <2>2, SoberMoves, SoberStep
<1>11. ASSUME NEW b \in Browsers, Pending(b)
       PROVE  OneByOne'
  BY <1>11, PendingMoves, SoberStep DEF Pending, Alone, Sober
<1>12. CASE UNCHANGED vars
  BY <1>12 DEF vars, OneByOne, Sequenced
<1>13. QED BY <1>1, <1>2, <1>3, <1>4, <1>5, <1>6, <1>7, <1>8, <1>9, <1>10, <1>11, <1>12 DEF Next

\* However attempts, waits and restarts alternate, the limiter lets no more than the cap
\* pass in a window, as long as no two of them are checked at the same time.
THEOREM CappedOneByOne == Spec => []AttemptsCapped
<1>1. Init => Typed /\ OneByOne
  <2>1. ASSUME Init PROVE OneByOne
    BY <2>1, NumbersAssumption DEF Init, OneByOne, Sequenced, Idle
  <2>2. QED BY <2>1, InitTyped
<1>2. Typed /\ OneByOne /\ [Next]_vars => Typed' /\ OneByOne'
  BY TypedStep, StepSober
<1>3. OneByOne => AttemptsCapped
  BY DEF OneByOne, Sequenced, AttemptsCapped
<1>4. QED BY <1>1, <1>2, <1>3, PTL DEF Spec

-----------------------------------------------------------------------------
\* What holds of a file over which no two requests have met: ...
\* ... nobody writes it but one; ...
Lone(f) == \A b, c \in Browsers : Writing(b, f) /\ Writing(c, f) => b = c

\* ... what that one has written is what it meant to write; ...
Filed(f) == \A b \in Browsers : Writing(b, f) =>
    /\ req[b].at = "opened" => file[f].at[b] = "tmp"
    /\ req[b].at = "full" => file[f].tmp = req[b].text

\* ... it means to write the next number, or zero when no page has a count to show for,
\* or another text because the one on file will not do; ...
Had(f) == {c \in Browsers : f \in req[c].had}
Meant(f) == \A b \in Browsers : Writing(b, f) =>
    /\ Op(b) \in Counting => req[b].text = Count(f) + 1
    /\ Op(b) \in Zeroing => req[b].text = 0 /\ Had(f) = {}
    /\ Op(b) \notin Counting \cup Zeroing \cup {"redraw"} => ~Usable(f)

\* ... what is handed out, or about to be, is on file, and no pair code about to expire; ...
Held(f) == \A b \in Browsers :
    /\ jar[b][f] \in {Absent, file[f].live} /\ req[b].gift[f] \in {Absent, file[f].live}
    /\ f = "code" /\ stale => jar[b][f] = Absent /\ req[b].gift[f] = Absent

\* ... and pages shown, and about to be, are counted.
Counted(f) == seen[f] + Cardinality(Had(f)) <= Count(f)

Lawful(f) == f \notin raced =>
    /\ Lone(f) /\ Filed(f) /\ Meant(f)
    /\ f \in Drawn => Held(f)
    /\ f \in Counters => Counted(f)
AllLawful == \A f \in Names : Lawful(f)

\* A step that leaves file f alone, whatever else it does.
QuietWriter(c, f) ==
    Writing(c, f)' => /\ Writing(c, f) /\ req'[c].at = req[c].at /\ req'[c].text = req[c].text
                      /\ Op(c)' = Op(c) /\ file'[f].at[c] = file[f].at[c]
QuietHolder(c, f) ==
    /\ req'[c].gift[f] \in {Absent, req[c].gift[f]}
    /\ jar'[c][f] \in {Absent, jar[c][f], req[c].gift[f]} \/ (f = "cli" /\ jar'[c][f] = file[f].live)
Quiet(f) ==
    /\ file'[f].live = file[f].live /\ file'[f].tmp = file[f].tmp
    /\ f = "code" => stale' = stale
    /\ f \notin raced' => f \notin raced
    /\ \A c \in Browsers : QuietWriter(c, f) /\ (f \in req'[c].had => f \in req[c].had)
    /\ f \in Drawn => \A c \in Browsers : QuietHolder(c, f)
    /\ f \in Counters => seen'[f] = seen[f]

LEMMA HadFinite ==
    ASSUME NEW f
    PROVE  IsFiniteSet(Had(f)) /\ Cardinality(Had(f)) \in Nat
<1>1. Had(f) \subseteq Browsers BY DEF Had
<1>2. IsFiniteSet(Had(f)) BY <1>1, BrowsersAssumption, FS_Subset
<1>3. QED BY <1>2, FS_CardinalityType

LEMMA HadFewer ==
    ASSUME NEW f, \A c \in Browsers : f \in req'[c].had => f \in req[c].had
    PROVE  /\ Had(f)' \subseteq Had(f) /\ Cardinality(Had(f)') \in Nat
           /\ Cardinality(Had(f)') <= Cardinality(Had(f))
<1>1. Had(f)' \subseteq Had(f) BY DEF Had
<1>2. QED BY <1>1, HadFinite, FS_Subset, FS_CardinalityType

LEMMA QuietLawful ==
    ASSUME Typed, NEW f \in Names, Lawful(f), Quiet(f)
    PROVE  Lawful(f)'
<1> SUFFICES ASSUME f \notin raced'
             PROVE  /\ Lone(f)' /\ Filed(f)' /\ Meant(f)'
                    /\ f \in Drawn => Held(f)'
                    /\ f \in Counters => Counted(f)'
  BY DEF Lawful
<1>1. /\ Lone(f) /\ Filed(f) /\ Meant(f)
      /\ f \in Drawn => Held(f)
      /\ f \in Counters => Counted(f)
  BY DEF Lawful, Quiet
<1>2. file'[f].live = file[f].live /\ file'[f].tmp = file[f].tmp /\ (f = "code" => stale' = stale)
  BY DEF Quiet
<1>3. \A c \in Browsers : QuietWriter(c, f) /\ (f \in req'[c].had => f \in req[c].had)
  BY DEF Quiet
<1>4. Lone(f)'
  BY <1>1, <1>3 DEF Lone, QuietWriter
<1>5. Filed(f)'
  BY <1>1, <1>2, <1>3 DEF Filed, QuietWriter
<1>6. Count(f)' = Count(f) /\ Usable(f)' = Usable(f)
  BY <1>2 DEF Count, Usable
<1>7. Had(f)' \subseteq Had(f)
  BY <1>3, HadFewer
<1>8. Meant(f)'
  BY <1>1, <1>3, <1>6, <1>7 DEF Meant, QuietWriter
<1>9. ASSUME f \in Drawn PROVE Held(f)'
  BY <1>1, <1>2, <1>9 DEF Held, Quiet, QuietHolder
<1>10. ASSUME f \in Counters PROVE Counted(f)'
  <2>1. seen'[f] = seen[f] /\ seen[f] \in Nat BY <1>10 DEF Quiet, Typed
  <2>2. Count(f) \in Nat BY DEF Count
  <2>3. QED BY <1>1, <1>3, <1>6, <1>10, <2>1, <2>2, HadFewer, HadFinite DEF Counted
<1>11. QED BY <1>4, <1>5, <1>8, <1>9, <1>10

\* The request of b is done with file f, if it had to do with it; and the rest of the
\* system leaves f alone.
Settled(b, f) ==
    /\ Alone(b) /\ ~Writing(b, f)' /\ (f \in req'[b].had => f \in req[b].had)
    /\ f \in Drawn => req'[b].gift[f] \in {Absent, req[b].gift[f]}
SameFile(b, f) ==
    /\ file'[f].live = file[f].live /\ file'[f].tmp = file[f].tmp
    /\ \A c \in Browsers \ {b} : file'[f].at[c] = file[f].at[c]
SameElse(f) ==
    /\ f = "code" => stale' = stale
    /\ f \notin raced' => f \notin raced
    /\ f \in Counters => seen'[f] = seen[f]
    /\ f \in Drawn => \A c \in Browsers :
         jar'[c][f] \in {Absent, jar[c][f], req[c].gift[f]} \/ (f = "cli" /\ jar'[c][f] = file[f].live)

LEMMA SettledQuiet ==
    ASSUME NEW b \in Browsers, NEW f \in Names, Settled(b, f), SameFile(b, f), SameElse(f)
    PROVE  Quiet(f)
<1>1. \A c \in Browsers \ {b} : req'[c] = req[c]
  BY DEF Settled, Alone
<1>2. \A c \in Browsers \ {b} : Op(c)' = Op(c)
  BY <1>1 DEF Op
<1>3. \A c \in Browsers \ {b} : Writing(c, f)' => Writing(c, f)
  BY <1>1, <1>2 DEF Writing, About
<1>4. \A c \in Browsers : QuietWriter(c, f)
  BY <1>1, <1>2, <1>3 DEF QuietWriter, Settled, SameFile
<1>5. \A c \in Browsers : f \in req'[c].had => f \in req[c].had
  BY <1>1 DEF Settled
<1>6. f \in Drawn => \A c \in Browsers : QuietHolder(c, f)
  BY <1>1 DEF Settled, SameElse, QuietHolder
<1>7. QED BY <1>4, <1>5, <1>6 DEF Quiet, SameFile, SameElse

LEMMA IdleHas == Idle.had = {} /\ \A f \in Drawn : Idle.gift[f] = Absent
BY DEF Idle, Nothing

LEMMA MovesSettled ==
    ASSUME NEW b \in Browsers, NEW f \in Names, Moves(b)
    PROVE  Settled(b, f)
BY IdleHas DEF Moves, Kept, Settled, Writing

LEMMA StagedSettled ==
    ASSUME NEW b \in Browsers, NEW f \in Names, NEW at, Staged(b, at), at \notin WritingStages \/ f # About(b)
    PROVE  Settled(b, f)
BY DEF Staged, Kept, Settled, Writing, WritingStages

LEMMA AdvancesSettled ==
    ASSUME Typed, NEW b \in Browsers, NEW f \in Names, NEW got, Advances(b, got), f # About(b)
    PROVE  Settled(b, f)
<1>1. Alone(b) /\ ~Writing(b, f)'
  BY DEF Advances, Became, Writing
<1>2. CASE req'[b] = Idle
  BY <1>1, <1>2, IdleHas DEF Settled
<1>3. CASE req'[b] # Idle
  <2>1. /\ req'[b].had = req[b].had \cup (IF Op(b) \in Counting THEN {About(b)} ELSE {})
        /\ \/ req'[b].gift = req[b].gift
           \/ req'[b].gift = [req[b].gift EXCEPT ![About(b)] = got]
    BY <1>3 DEF Advances, Became
  <2>2. f \in Drawn => req'[b].gift[f] = req[b].gift[f]
    BY <2>1, InRequest DEF Holdings
  <2>3. QED BY <1>1, <2>1, <2>2 DEF Settled
<1>4. QED BY <1>2, <1>3

LEMMA SameAll ==
    ASSUME NEW b \in Browsers, NEW f \in Names, UNCHANGED <<file, stale, jar, seen>>, f \notin raced' => f \notin raced
    PROVE  SameFile(b, f) /\ SameElse(f)
BY DEF SameFile, SameElse

\* Most operations leave every file alone.
LEMMA IdleOperations ==
    ASSUME Typed, NEW f \in Names, NEW b \in Browsers,
           \/ \E p \in Pages : Begin(b, p)
           \/ NothingSent(b) \/ Pending(b) \/ Attempt(b) \/ Refuse(b) \/ Admit(b) \/ Mark(b) \/ Look(b)
    PROVE  Quiet(f)
<1>1. UNCHANGED <<file, stale, jar, seen>> /\ (f \notin raced' => f \notin raced)
  BY DEF Begin, NothingSent, Pending, Attempt, Refuse, Admit, Mark, Look, Race
<1>2. Settled(b, f)
  <2>1. ASSUME NEW p \in Pages, Begin(b, p) PROVE Settled(b, f)
    BY <2>1, BeginAlone DEF Settled, Nothing, Writing
  <2>2. CASE NothingSent(b) \/ Refuse(b) \/ Admit(b) \/ Mark(b)
    BY <2>2, NothingSentMoves, LimitMoves, MarkMoves, MovesSettled
  <2>3. CASE Pending(b)
    BY <2>3, PendingMoves DEF Settled, Kept, Writing
  <2>4. CASE Attempt(b)
    <3>1. Staged(b, "limit") BY <2>4, AttemptStaged
    <3>2. QED BY <3>1, StagedSettled DEF WritingStages
  <2>5. CASE Look(b)
    <3>1. Moves(b) \/ Staged(b, "unlink") BY <2>5, LookMoves
    <3>2. QED BY <3>1, MovesSettled, StagedSettled DEF WritingStages
  <2>6. QED BY <2>1, <2>2, <2>3, <2>4, <2>5
<1>3. QED BY <1>1, <1>2, SameAll, SettledQuiet

LEMMA HandOperations ==
    ASSUME Typed, NEW f \in Names, NEW b \in Browsers,
           Leave(b) \/ Fetch(b) \/ Fails(b) \/ (Answer(b) /\ f \notin req[b].had)
    PROVE  Quiet(f)
<1>1. Settled(b, f)
  BY OtherMoves, MovesSettled
<1>2. jar \in [Browsers -> Holdings] /\ file[f] \in File(Browsers, Texts)
  BY DEF Typed
<1>3. CASE Leave(b)
  <2>1. \A c \in Browsers : f \in Drawn => jar'[c][f] \in {Absent, jar[c][f]}
    BY <1>2, <1>3 DEF Leave, Holdings
  <2>2. SameFile(b, f) /\ SameElse(f)
    BY <1>3, <2>1 DEF Leave, SameFile, SameElse
  <2>3. QED BY <1>1, <2>2, SettledQuiet
<1>4. CASE Fetch(b)
  <2>1. \A c \in Browsers : f \in Drawn => jar'[c][f] \in {Absent, jar[c][f]} \/ (f = "cli" /\ jar'[c][f] = file[f].live)
    BY <1>2, <1>4 DEF Fetch, Holdings
  <2>2. SameFile(b, f) /\ SameElse(f)
    BY <1>4, <2>1 DEF Fetch, SameFile, SameElse
  <2>3. QED BY <1>1, <2>2, SettledQuiet
<1>5. CASE Fails(b)
  <2>1. file'[f] = Closed(file[f], {b}) /\ UNCHANGED <<stale, jar, seen, raced>>
    BY <1>5 DEF Fails
  <2>2. SameFile(b, f) /\ SameElse(f)
    BY <1>2, <2>1 DEF Closed, File, SameFile, SameElse
  <2>3. QED BY <1>1, <2>2, SettledQuiet
<1>6. CASE Answer(b) /\ f \notin req[b].had
  <2>1. \A c \in Browsers : f \in Drawn => jar'[c][f] \in {jar[c][f], req[c].gift[f]}
    BY <1>2, <1>6 DEF Answer, Holdings
  <2>2. f \in Counters => seen'[f] = seen[f]
    BY <1>6 DEF Answer
  <2>3. SameFile(b, f) /\ SameElse(f)
    BY <1>6, <2>1, <2>2 DEF Answer, SameFile, SameElse
  <2>4. QED BY <1>1, <2>3, SettledQuiet
<1>7. QED BY <1>3, <1>4, <1>5, <1>6

LEMMA OtherFiles ==
    ASSUME Typed, NEW f \in Names, NEW b \in Browsers, f # About(b),
           Use(b) \/ Need(b) \/ Open(b) \/ Fill(b) \/ Replace(b)
    PROVE  Quiet(f)
<1>0. file \in [Names -> File(Browsers, Texts)] /\ seen \in [Counters -> Nat]
  BY DEF Typed
<1>1. CASE Use(b)
  <2>1. Settled(b, f) BY <1>1, UseAdvances, AdvancesSettled, MovesSettled
  <2>2. QED BY <1>1, <2>1, SameAll, SettledQuiet DEF Use
<1>2. CASE Need(b)
  <2>1. Settled(b, f) BY <1>2, NeedStaged, StagedSettled
  <2>2. QED BY <1>2, <2>1, SameAll, SettledQuiet DEF Need, Race
<1>3. CASE Open(b) \/ Fill(b)
  <2>1. Settled(b, f) BY <1>3, OpenStaged, StagedSettled
  <2>2. file'[f] = file[f]
    BY <1>0, <1>3 DEF Open, Fill
  <2>3. UNCHANGED <<stale, jar, seen, raced>>
    BY <1>3 DEF Open, Fill
  <2>4. QED BY <2>1, <2>2, <2>3, SettledQuiet DEF SameFile, SameElse
<1>4. CASE Replace(b)
  <2>1. Settled(b, f) BY <1>4, ReplaceAdvances, AdvancesSettled
  <2>2. file'[f] = file[f] /\ (f = "code" => stale' = stale) /\ raced' = raced
    BY <1>0, <1>4 DEF Replace, Typed
  <2>3. f \in Counters => seen'[f] = seen[f]
    BY <1>0, <1>4 DEF Replace
  <2>4. \A c \in Browsers : f \in Drawn => jar'[c][f] \in {Absent, jar[c][f]}
    BY <1>4 DEF Replace, Withdrawn, Typed, Holdings
  <2>5. QED BY <2>1, <2>2, <2>3, <2>4, SettledQuiet DEF SameFile, SameElse
<1>5. QED BY <1>1, <1>2, <1>3, <1>4

\* So do restarts and the passing of time.
LEMMA RestQuiet ==
    ASSUME Typed, NEW f \in Names, Restart \/ Tick \/ (CodeExpires /\ f # "code") \/ UNCHANGED vars
    PROVE  Quiet(f)
<1>0. file[f] \in File(Browsers, Texts) /\ jar \in [Browsers -> Holdings]
  BY DEF Typed
<1>1. CASE Restart
  <2>1. \A c \in Browsers : IF req[c].page # "rotate" THEN req'[c] = Idle ELSE req'[c] = req[c]
    BY <1>1, RestartClears
  <2>2. file'[f] = Closed(file[f], Served) /\ UNCHANGED <<stale, jar, seen>> /\ raced' = raced \ {"attempts"}
    BY <1>1 DEF Restart
  <2>3. /\ file'[f].live = file[f].live /\ file'[f].tmp = file[f].tmp
        /\ \A c \in Browsers \ Served : file'[f].at[c] = file[f].at[c]
    BY <1>0, <2>2 DEF Closed, File
  <2>4. ASSUME NEW c \in Browsers
        PROVE  QuietWriter(c, f) /\ (f \in req'[c].had => f \in req[c].had) /\ (f \in Drawn => QuietHolder(c, f))
    <3>1. CASE c \in Served
      <4>1. req'[c] = Idle /\ jar'[c] = jar[c] BY <2>1, <2>2, <3>1 DEF Served
      <4>2. ~Writing(c, f)' BY <4>1 DEF Writing, Idle
      <4>3. QED BY <4>1, <4>2, IdleHas DEF QuietWriter, QuietHolder
    <3>2. CASE c \notin Served
      <4>1. req'[c] = req[c] /\ jar'[c] = jar[c] /\ file'[f].at[c] = file[f].at[c]
        BY <2>1, <2>2, <2>3, <3>2 DEF Served
      <4>2. QED BY <4>1 DEF QuietWriter, QuietHolder, Writing, About, Op
    <3>3. QED BY <3>1, <3>2
  <2>5. f # "attempts" BY DEF Names, Drawn, Counters
  <2>6. QED BY <2>2, <2>3, <2>4, <2>5 DEF Quiet
<1>2. ASSUME \A c \in Browsers : Unchanged(c), UNCHANGED <<file, seen, raced>>, f = "code" => stale' = stale,
             f \in Drawn => \A c \in Browsers : QuietHolder(c, f)
      PROVE  Quiet(f)
  <2>1. \A c \in Browsers : Op(c)' = Op(c)
    BY <1>2 DEF Op, Unchanged
  <2>2. \A c \in Browsers : QuietWriter(c, f)
    BY <1>2, <2>1 DEF QuietWriter, Writing, About, Unchanged
  <2>3. QED BY <1>2, <2>2 DEF Quiet, Unchanged
<1>3. CASE Tick
  BY <1>2, <1>3, TickAges DEF Tick, QuietHolder
<1>4. CASE CodeExpires /\ f # "code"
  <2>1. \A c \in Browsers : f \in Drawn => jar'[c][f] = jar[c][f]
    BY <1>0, <1>4 DEF CodeExpires, Withdrawn, Holdings
  <2>2. (\A c \in Browsers : Stripped(c)) /\ UNCHANGED <<file, seen, raced>>
    BY <1>4, ExpiryStrips DEF CodeExpires
  <2>3. \A c \in Browsers : f \in Drawn => QuietHolder(c, f)
    BY <1>4, <2>1, <2>2 DEF QuietHolder, Stripped
  <2>4. QED BY <1>2, <1>4, <2>2, <2>3 DEF Stripped
<1>5. CASE UNCHANGED vars
  BY <1>2, <1>5 DEF vars, Unchanged, QuietHolder
<1>6. QED BY <1>1, <1>3, <1>4, <1>5

\* The operations on the file at hand.
LEMMA OthersStay ==
    ASSUME NEW b \in Browsers, NEW f \in Names, Alone(b)
    PROVE  \A c \in Browsers \ {b} : /\ req'[c] = req[c] /\ Op(c)' = Op(c)
                                     /\ Writing(c, f)' <=> Writing(c, f)
<1>1. \A c \in Browsers \ {b} : req'[c] = req[c]
  BY DEF Alone
<1>2. \A c \in Browsers \ {b} : Op(c)' = Op(c)
  BY <1>1 DEF Op
<1>3. QED BY <1>1, <1>2 DEF Writing, About

\* When the file stays the same, and its writers.
LEMMA SameTexts ==
    ASSUME Typed, NEW f \in Names, file'[f].live = file[f].live, UNCHANGED <<stale, jar, seen>>,
           \A c \in Browsers : req'[c].gift = req[c].gift /\ req'[c].had = req[c].had
    PROVE  /\ f \in Drawn /\ Held(f) => Held(f)'
           /\ f \in Counters /\ Counted(f) => Counted(f)'
           /\ Count(f)' = Count(f) /\ Usable(f)' = Usable(f) /\ Had(f)' = Had(f)
<1>1. Count(f)' = Count(f) /\ Usable(f)' = Usable(f)
  BY DEF Count, Usable
<1>2. Had(f)' = Had(f)
  BY DEF Had
<1>3. QED BY <1>1, <1>2 DEF Held, Counted

LEMMA UseLawful ==
    ASSUME Typed, NEW b \in Browsers, Use(b), NEW f \in Names, f = About(b), Lawful(f)
    PROVE  Lawful(f)'
<1>1. UNCHANGED <<file, stale, jar, seen, raced>> /\ Op(b) \notin Counting /\ Usable(f)
  BY UseAdvances DEF Use
<1>2. CASE Moves(b)
  BY <1>1, <1>2, MovesSettled, SameAll, SettledQuiet, QuietLawful
<1>3. CASE Advances(b, file[f].live)
  <2> SUFFICES ASSUME f \notin raced'
               PROVE  /\ Lone(f)' /\ Filed(f)' /\ Meant(f)'
                      /\ f \in Drawn => Held(f)'
                      /\ f \in Counters => Counted(f)'
    BY DEF Lawful
  <2>1. /\ Lone(f) /\ Filed(f) /\ Meant(f)
        /\ f \in Drawn => Held(f)
        /\ f \in Counters => Counted(f)
    BY <1>1 DEF Lawful
  <2>2. Alone(b) /\ ~Writing(b, f)'
    BY <1>3 DEF Advances, Became, Writing
  <2>3. \A c \in Browsers : Writing(c, f)' => Writing(c, f) /\ req'[c] = req[c] /\ Op(c)' = Op(c)
    BY <2>2, OthersStay
  <2>4. /\ req'[b].had \subseteq req[b].had
        /\ f \in Drawn => req'[b].gift[f] \in {Absent, req[b].gift[f], file[f].live}
    <3>1. CASE req'[b] = Idle BY <3>1, IdleHas
    <3>2. CASE req'[b] # Idle
      <4>1. /\ req'[b].had = req[b].had
            /\ \/ req'[b].gift = req[b].gift
               \/ req'[b].gift = [req[b].gift EXCEPT ![f] = file[f].live]
        BY <1>1, <1>3, <3>2 DEF Advances, Became
      <4>2. QED BY <4>1, InRequest DEF Holdings
    <3>3. QED BY <3>1, <3>2
  <2>5. \A c \in Browsers : f \in req'[c].had => f \in req[c].had
    BY <2>2, <2>4, OthersStay
  <2>6. Count(f)' = Count(f) /\ Usable(f)' = Usable(f) /\ Had(f)' \subseteq Had(f)
        /\ Cardinality(Had(f)') \in Nat /\ Cardinality(Had(f)') <= Cardinality(Had(f))
    BY <1>1, <2>5, HadFewer DEF Count, Usable
  <2>7. Lone(f)' /\ Filed(f)' /\ Meant(f)'
    BY <1>1, <2>1, <2>3, <2>6 DEF Lone, Filed, Meant
  <2>8. ASSUME f \in Drawn PROVE Held(f)'
    <3>1. \A c \in Browsers : req'[c].gift[f] \in {Absent, req[c].gift[f], file[f].live}
      BY <2>2, <2>4, <2>8, OthersStay
    <3>2. QED BY <1>1, <2>1, <2>8, <3>1 DEF Held, Usable
  <2>9. ASSUME f \in Counters PROVE Counted(f)'
    <3>1. seen[f] \in Nat /\ Count(f) \in Nat BY <2>9 DEF Typed, Count
    <3>2. QED BY <1>1, <2>1, <2>6, <2>9, <3>1, HadFinite DEF Counted
  <2>10. QED BY <2>7, <2>8, <2>9
<1>4. QED BY <1>2, <1>3, UseAdvances

LEMMA NeedLawful ==
    ASSUME Typed, NEW b \in Browsers, Need(b), NEW f \in Names, f = About(b), Lawful(f)
    PROVE  Lawful(f)'
<1> SUFFICES ASSUME f \notin raced'
             PROVE  /\ Lone(f)' /\ Filed(f)' /\ Meant(f)'
                    /\ f \in Drawn => Held(f)'
                    /\ f \in Counters => Counted(f)'
  BY DEF Lawful
<1>1. /\ Staged(b, "open") /\ Op(b) \in DOMAIN Uses /\ req'[b].text \in NewTexts(b)
      /\ UNCHANGED <<file, stale, jar, seen>>
  BY NeedStaged DEF Need
<1>2. f \notin raced /\ {c \in Browsers \ {b} : IF Op(b) \in Zeroing THEN InHand(c, f) ELSE Writing(c, f)} = {}
  BY DEF Need, Race
<1>3. \A c \in Browsers \ {b} : ~Writing(c, f) /\ (Op(b) \in Zeroing => f \notin req[c].had)
  BY <1>2 DEF InHand
<1>4. \A c \in Browsers : Writing(c, f)' => c = b
  BY <1>1, <1>3, OthersStay DEF Staged
<1>5. (f \in Drawn => Held(f)) /\ (f \in Counters => Counted(f))
  BY <1>2 DEF Lawful
<1>6. \A c \in Browsers : req'[c].gift = req[c].gift /\ req'[c].had = req[c].had
  BY <1>1, OthersStay DEF Staged, Kept
<1>7. Lone(f)' /\ Filed(f)'
  BY <1>1, <1>4 DEF Lone, Filed, Staged
<1>8. Meant(f)'
  <2>1. ASSUME Op(b) \in Zeroing PROVE Had(f)' = {}
    <3>1. Orderly(req[b].rest) /\ req[b].rest # <<>> /\ Head(req[b].rest) = Op(b) /\ InOrder(req[b], entered)
      BY <2>1, AtHand DEF Zeroing
    <3>2. req[b].had = {}
      BY <2>1, <3>1 DEF Orderly, InOrder, Fits
    <3>3. QED BY <1>3, <1>6, <2>1, <3>2 DEF Had
  <2>2. Op(b)' = Op(b) BY <1>1 DEF Staged
  <2>3. Count(f)' = Count(f) /\ Usable(f)' = Usable(f)
    BY <1>1, <1>6, SameTexts
  <2>4. /\ Op(b) \in Counting => req'[b].text = Count(f) + 1
        /\ Op(b) \in Zeroing => req'[b].text = 0
        /\ Op(b) \notin Counting \cup Zeroing \cup {"redraw"} => ~Usable(f)
    BY <1>1, NewTextsFit
  <2>5. QED BY <1>4, <2>1, <2>2, <2>3, <2>4 DEF Meant
<1>9. QED BY <1>1, <1>5, <1>6, <1>7, <1>8, SameTexts

LEMMA WriteLawful ==
    ASSUME Typed, NEW b \in Browsers, Open(b) \/ Fill(b), NEW f \in Names, f = About(b), Lawful(f)
    PROVE  Lawful(f)'
<1> DEFINE at == IF req[b].at = "open" THEN "opened" ELSE "full"
<1> SUFFICES ASSUME f \notin raced'
             PROVE  /\ Lone(f)' /\ Filed(f)' /\ Meant(f)'
                    /\ f \in Drawn => Held(f)'
                    /\ f \in Counters => Counted(f)'
  BY DEF Lawful
<1>1. UNCHANGED <<stale, jar, seen, raced>> /\ req[b].at \in {"open", "opened"} /\ Writing(b, f)
  BY DEF Open, Fill, Writing
<1>2. Staged(b, at) /\ req'[b].text = req[b].text /\ req[b].text \in Texts
  BY OpenStaged
<1>3. /\ Lone(f) /\ Filed(f) /\ Meant(f)
      /\ f \in Drawn => Held(f)
      /\ f \in Counters => Counted(f)
  BY <1>1 DEF Lawful
<1>4. file[f] \in File(Browsers, Texts) /\ file \in [Names -> File(Browsers, Texts)]
  BY DEF Typed
<1>5. /\ file'[f].live = file[f].live
      /\ req'[b].at = "opened" => file'[f].at[b] = "tmp"
      /\ req'[b].at = "full" => file'[f].tmp = req[b].text
  <2>1. CASE Open(b)
    <3>1. file'[f] = Opened(file[f], b) BY <1>4, <2>1 DEF Open
    <3>2. req'[b].at = "opened" BY <1>2, <2>1 DEF Open, Staged
    <3>3. QED BY <1>4, <3>1, <3>2 DEF Opened, File
  <2>2. CASE Fill(b)
    <3>1. file[f].at[b] = "tmp" BY <1>1, <1>3, <2>2 DEF Fill, Filed
    <3>2. PICK g \in Filled(file[f], b, req[b].text) : file'[f] = g BY <1>4, <2>2 DEF Fill
    <3>3. g.live = file[f].live /\ g.tmp = req[b].text
      BY <3>1, <3>2, LengthAssumption DEF Filled, Over
    <3>4. req'[b].at = "full" BY <1>2, <2>2 DEF Fill, Staged
    <3>5. QED BY <3>2, <3>3, <3>4
  <2>3. QED BY <2>1, <2>2
<1>6. \A c \in Browsers : Writing(c, f)' => c = b
  BY <1>1, <1>2, <1>3, OthersStay DEF Staged, Lone
<1>7. \A c \in Browsers : req'[c].gift = req[c].gift /\ req'[c].had = req[c].had
  BY <1>2, OthersStay DEF Staged, Kept
<1>8. Lone(f)' /\ Filed(f)'
  BY <1>2, <1>5, <1>6 DEF Lone, Filed
<1>9. Op(b)' = Op(b) /\ Count(f)' = Count(f) /\ Usable(f)' = Usable(f) /\ Had(f)' = Had(f)
  BY <1>1, <1>2, <1>5, <1>7, SameTexts DEF Staged
<1>10. Meant(f)'
  BY <1>1, <1>2, <1>3, <1>6, <1>9 DEF Meant
<1>11. QED BY <1>1, <1>3, <1>5, <1>7, <1>8, <1>10, SameTexts

\* A text that takes the place of one that would not do makes nothing wrong that was
\* handed out.
LEMMA ReplacedHeld ==
    ASSUME Typed, Typed', NEW b \in Browsers, Replace(b), NEW f \in Drawn, f = About(b),
           Held(f), Meant(f), Writing(b, f), file'[f].live = req[b].text
    PROVE  Held(f)'
<1>1. Advances(b, req[b].text) /\ Op(b) \in DOMAIN Uses
  BY ReplaceAdvances
<1>2. Op(b) \notin Counting \cup Zeroing
  BY <1>1 DEF About, Uses, Counting, Zeroing, Drawn
<1>3. jar \in [Browsers -> Holdings] /\ Absent \notin Marks
  BY MarksAssumption DEF Typed, Unreadable
<1>4. CASE Op(b) = "redraw"
  <2>1. f = "cli" BY <1>4 DEF About, Uses
  <2>2. \A c \in Browsers : jar'[c][f] = Absent
    BY <1>3, <1>4, <2>1 DEF Replace, Withdrawn, Holdings
  <2>3. \A c \in Browsers : req'[c].gift[f] = Absent
    <3>1. TAKE c \in Browsers
    <3>2. req'[c] \in Good(entered') BY DEF Typed
    <3>3. QED BY <2>1, <3>2 DEF Good, InOrder, Fits
  <2>4. QED BY <2>2, <2>3 DEF Held
<1>5. CASE Op(b) # "redraw"
  <2>1. ~Usable(f) BY <1>2, <1>5 DEF Meant
  <2>2. \A c \in Browsers : jar[c][f] = Absent /\ req[c].gift[f] = Absent
    <3>1. TAKE c \in Browsers
    <3>2. jar[c][f] \in {Absent} \cup Marks /\ req[c].gift[f] \in {Absent} \cup Marks
      BY <1>3, InRequest DEF Holdings
    <3>3. QED BY <2>1, <3>2 DEF Held, Usable
  <2>3. jar' = jar /\ (f = "code" => ~stale')
    BY <1>5 DEF Replace
  <2>4. req'[b].gift[f] \in {Absent, req[b].text}
    <3>1. CASE req'[b] = Idle BY <3>1, IdleHas
    <3>2. CASE req'[b] # Idle
      <4>1. \/ req'[b].gift = req[b].gift
            \/ req'[b].gift = [req[b].gift EXCEPT ![f] = req[b].text]
        BY <1>1, <3>2 DEF Advances, Became
      <4>2. QED BY <2>2, <4>1, InRequest DEF Holdings
    <3>3. QED BY <3>1, <3>2
  <2>5. QED BY <1>1, <2>2, <2>3, <2>4 DEF Held, Advances, Alone
<1>6. QED BY <1>4, <1>5

\* A page that has counted itself is one more; a counter that is zeroed starts again.
LEMMA ReplacedCounted ==
    ASSUME Typed, NEW b \in Browsers, Replace(b), NEW f \in Counters, f = About(b),
           Counted(f), Meant(f), Writing(b, f), file'[f].live = req[b].text
    PROVE  Counted(f)'
<1>1. Advances(b, req[b].text) /\ Op(b) \in DOMAIN Uses /\ req[b].text \in TextsFor(Op(b))
  BY ReplaceAdvances
<1>2. Op(b) \in Counting \cup Zeroing
  BY <1>1 DEF About, Uses, Counting, Zeroing, Counters
<1>3. req[b].text \in Nat
  BY <1>1, <1>2, NumbersAssumption DEF TextsFor
<1>4. Count(f)' = req[b].text
  BY <1>3 DEF Count
<1>5. seen \in [Counters -> Nat] /\ seen[f] \in Nat /\ Count(f) \in Nat
  BY DEF Typed, Count
<1>6. \A c \in Browsers \ {b} : req'[c] = req[c]
  BY <1>1 DEF Advances, Alone
<1>7. CASE Op(b) \in Counting
  <2>1. req[b].text = Count(f) + 1 /\ seen' = seen
    BY <1>7 DEF Meant, Replace, Counting, Zeroing
  <2>2. Had(f)' \subseteq Had(f) \cup {b}
    BY <1>6 DEF Had
  <2>3. IsFiniteSet(Had(f) \cup {b}) /\ Cardinality(Had(f) \cup {b}) \in Nat
        /\ Cardinality(Had(f) \cup {b}) <= Cardinality(Had(f)) + 1
    <3> DEFINE S == Had(f)
    <3>1. IsFiniteSet(S) /\ Cardinality(S) \in Nat BY HadFinite
    <3> HIDE DEF S
    <3>2. IsFiniteSet(S \cup {b}) BY <3>1, FS_AddElement
    <3>3. Cardinality(S \cup {b}) \in {Cardinality(S), Cardinality(S) + 1} BY <3>1, FS_AddElement
    <3>4. QED BY <3>1, <3>2, <3>3 DEF S
  <2>4. Cardinality(Had(f)') <= Cardinality(Had(f) \cup {b}) /\ Cardinality(Had(f)') \in Nat
    BY <2>2, <2>3, FS_Subset, FS_CardinalityType
  <2>5. QED BY <1>4, <1>5, <2>1, <2>3, <2>4, HadFinite DEF Counted
<1>8. CASE Op(b) \in Zeroing
  <2>1. req[b].text = 0 /\ Had(f) = {} /\ seen'[f] = 0
    BY <1>5, <1>8 DEF Meant, Replace
  <2>2. f \notin req'[b].had
    <3>1. CASE req'[b] = Idle BY <3>1, IdleHas
    <3>2. CASE req'[b] # Idle
      <4>1. req'[b].had = req[b].had
        BY <1>1, <1>8, <3>2 DEF Advances, Became, Counting, Zeroing
      <4>2. QED BY <2>1, <4>1 DEF Had
    <3>3. QED BY <3>1, <3>2
  <2>3. Had(f)' = {}
    BY <1>6, <2>1, <2>2 DEF Had
  <2>4. QED BY <1>4, <2>1, <2>3, FS_EmptySet DEF Counted
<1>9. QED BY <1>2, <1>7, <1>8

LEMMA ReplaceLawful ==
    ASSUME Typed, Typed', NEW b \in Browsers, Replace(b), NEW f \in Names, f = About(b), Lawful(f)
    PROVE  Lawful(f)'
<1> SUFFICES ASSUME f \notin raced'
             PROVE  /\ Lone(f)' /\ Filed(f)' /\ Meant(f)'
                    /\ f \in Drawn => Held(f)'
                    /\ f \in Counters => Counted(f)'
  BY DEF Lawful
<1>1. raced' = raced /\ req[b].at = "full" /\ Writing(b, f)
  BY DEF Replace, Writing
<1>2. /\ Lone(f) /\ Filed(f) /\ Meant(f)
      /\ f \in Drawn => Held(f)
      /\ f \in Counters => Counted(f)
  BY <1>1 DEF Lawful
<1>3. file'[f].live = req[b].text
  <2>1. file'[f] = Replaced(file[f]) /\ file[f] \in File(Browsers, Texts) BY DEF Typed, Replace
  <2>2. file[f].tmp = req[b].text BY <1>1, <1>2 DEF Filed
  <2>3. QED BY <2>1, <2>2 DEF Replaced
<1>4. Alone(b) /\ ~Writing(b, f)'
  BY ReplaceAdvances DEF Advances, Became, Writing
<1>5. \A c \in Browsers : ~Writing(c, f)'
  BY <1>1, <1>2, <1>4, OthersStay DEF Lone
<1>6. Lone(f)' /\ Filed(f)' /\ Meant(f)'
  BY <1>5 DEF Lone, Filed, Meant
<1>7. QED BY <1>1, <1>2, <1>3, <1>6, ReplacedHeld, ReplacedCounted

\* The pair code on offer is withdrawn, or expires.
LEMMA CodeLawful ==
    ASSUME Typed, Lawful("code"), CodeExpires \/ \E b \in Browsers : Unlink(b)
    PROVE  Lawful("code")'
<1> DEFINE f == "code"
<1>0. f \in Names /\ f \in Drawn /\ f \notin Counters
  BY DEF Names, Drawn, Counters
<1> SUFFICES ASSUME f \notin raced'
             PROVE  Lone(f)' /\ Filed(f)' /\ Meant(f)' /\ Held(f)'
  BY <1>0 DEF Lawful
<1>1. jar' = Withdrawn(f) /\ f \notin raced
  BY DEF CodeExpires, Unlink, Race
<1>2. \A c \in Browsers : jar'[c][f] = Absent
  BY <1>0, <1>1 DEF Withdrawn, Typed, Holdings
<1>3. Lone(f) /\ Filed(f) /\ Meant(f) /\ Held(f)
  BY <1>0, <1>1 DEF Lawful
<1>4. CASE CodeExpires
  <2>1. \A c \in Browsers : Stripped(c) BY <1>4, ExpiryStrips
  <2>2. \A c \in Browsers : Op(c)' = Op(c) BY <2>1 DEF Op, Stripped, Unchanged
  <2>3. \A c \in Browsers : Writing(c, f)' <=> Writing(c, f)
    BY <2>1, <2>2 DEF Writing, About, Stripped, Unchanged
  <2>4. file' = file /\ stale' BY <1>4 DEF CodeExpires
  <2>5. Lone(f)' /\ Filed(f)'
    BY <1>3, <2>1, <2>3, <2>4 DEF Lone, Filed, Stripped, Unchanged
  <2>6. Meant(f)'
    <3>1. Count(f)' = Count(f) /\ ~Usable(f)' BY <2>4 DEF Count, Usable
    <3>2. Had(f)' = Had(f) BY <2>1 DEF Had, Stripped, Unchanged
    <3>3. QED BY <1>3, <2>1, <2>2, <2>3, <3>1, <3>2 DEF Meant, Stripped, Unchanged
  <2>7. Held(f)' BY <1>2, <2>1 DEF Held, Stripped
  <2>8. QED BY <2>5, <2>6, <2>7
<1>5. ASSUME NEW b \in Browsers, Unlink(b)
      PROVE  Lone(f)' /\ Filed(f)' /\ Meant(f)' /\ Held(f)'
  <2>1. /\ \A c \in Browsers \ {b} : Stripped(c)
        /\ req'[b].gift = req[b].gift /\ req'[b].at = "next" /\ req[b].gift[f] = Absent
    BY <1>5, UnlinkStrips DEF Kept
  <2>2. \A c \in Browsers \ {b} : ~Writing(c, f)
    BY <1>5 DEF Unlink, Race
  <2>3. \A c \in Browsers \ {b} : Op(c)' = Op(c) BY <2>1 DEF Op, Stripped, Unchanged
  <2>4. \A c \in Browsers : ~Writing(c, f)'
    BY <2>1, <2>2, <2>3 DEF Writing, About, Stripped, Unchanged
  <2>5. Lone(f)' /\ Filed(f)' /\ Meant(f)'
    BY <2>4 DEF Lone, Filed, Meant
  <2>6. \A c \in Browsers : req'[c].gift[f] = Absent
    BY <2>1 DEF Stripped
  <2>7. Held(f)' BY <1>2, <2>6 DEF Held
  <2>8. QED BY <2>5, <2>7
<1>6. QED BY <1>4, <1>5

\* A page is shown: what it has counted is there to be seen.
LEMMA AnswerLawful ==
    ASSUME Typed, NEW b \in Browsers, Answer(b), NEW f \in Names, f \in req[b].had, Lawful(f)
    PROVE  Lawful(f)'
<1>0. f \in Counters /\ f \notin Drawn
  BY InRequest DEF Counters, Drawn
<1> SUFFICES ASSUME f \notin raced'
             PROVE  Lone(f)' /\ Filed(f)' /\ Meant(f)' /\ Counted(f)'
  BY <1>0 DEF Lawful
<1>1. UNCHANGED <<file, stale, raced>> /\ seen'[f] = seen[f] + 1 /\ req'[b] = Idle
  BY <1>0 DEF Answer, Becomes, Typed
<1>2. Lone(f) /\ Filed(f) /\ Meant(f) /\ Counted(f)
  BY <1>0, <1>1 DEF Lawful
<1>3. Alone(b) /\ ~Writing(b, f)'
  BY OtherMoves DEF Moves, Writing
<1>4. \A c \in Browsers : Writing(c, f)' => Writing(c, f) /\ req'[c] = req[c] /\ Op(c)' = Op(c)
  BY <1>3, OthersStay
<1>5. Had(f)' = Had(f) \ {b} /\ b \in Had(f)
  BY <1>1, <1>3, IdleHas DEF Had, Alone
<1>6. Cardinality(Had(f)') = Cardinality(Had(f)) - 1
  BY <1>5, HadFinite, FS_RemoveElement
<1>7. Count(f)' = Count(f) /\ Usable(f)' = Usable(f)
  BY <1>1 DEF Count, Usable
<1>8. Lone(f)' /\ Filed(f)' /\ Meant(f)'
  BY <1>1, <1>2, <1>4, <1>5, <1>7 DEF Lone, Filed, Meant
<1>9. Counted(f)'
  <2>1. seen[f] \in Nat /\ Count(f) \in Nat BY <1>0 DEF Typed, Count
  <2>2. QED BY <1>1, <1>2, <1>6, <1>7, <2>1, HadFinite DEF Counted
<1>10. QED BY <1>8, <1>9

LEMMA StepLawful ==
    ASSUME Typed, Typed', AllLawful, [Next]_vars
    PROVE  AllLawful'
<1> SUFFICES ASSUME NEW f \in Names PROVE Lawful(f)'
  BY DEF AllLawful
<1>0. Lawful(f)
  BY DEF AllLawful
<1>1. CASE Restart \/ Tick \/ UNCHANGED vars
  BY <1>0, <1>1, RestQuiet, QuietLawful
<1>2. CASE CodeExpires
  <2>1. CASE f = "code" BY <1>0, <1>2, <2>1, CodeLawful
  <2>2. CASE f # "code" BY <1>0, <1>2, <2>2, RestQuiet, QuietLawful
  <2>3. QED BY <2>1, <2>2
<1>3. ASSUME NEW b \in Browsers, NEW p \in Pages, Begin(b, p)
      PROVE  Lawful(f)'
  BY <1>0, <1>3, IdleOperations, QuietLawful
<1>4. ASSUME NEW b \in Browsers,
             NothingSent(b) \/ Pending(b) \/ Attempt(b) \/ Refuse(b) \/ Admit(b) \/ Mark(b) \/ Look(b)
      PROVE  Lawful(f)'
  BY <1>0, <1>4, IdleOperations, QuietLawful
<1>5. ASSUME NEW b \in Browsers, Leave(b) \/ Fetch(b) \/ Fails(b) \/ Answer(b)
      PROVE  Lawful(f)'
  <2>1. CASE Leave(b) \/ Fetch(b) \/ Fails(b) BY <1>0, <2>1, HandOperations, QuietLawful
  <2>2. CASE Answer(b) /\ f \notin req[b].had BY <1>0, <2>2, HandOperations, QuietLawful
  <2>3. CASE Answer(b) /\ f \in req[b].had BY <1>0, <2>3, AnswerLawful
  <2>4. QED BY <1>5, <2>1, <2>2, <2>3
<1>6. ASSUME NEW b \in Browsers, Use(b) \/ Need(b) \/ Open(b) \/ Fill(b) \/ Replace(b)
      PROVE  Lawful(f)'
  <2>1. CASE f # About(b) BY <1>0, <1>6, <2>1, OtherFiles, QuietLawful
  <2>2. CASE f = About(b) BY <1>0, <1>6, <2>2, UseLawful, NeedLawful, WriteLawful, ReplaceLawful
  <2>3. QED BY <2>1, <2>2
<1>7. ASSUME NEW b \in Browsers, Unlink(b)
      PROVE  Lawful(f)'
  <2>1. CASE f = "code" BY <1>0, <1>7, <2>1, CodeLawful
  <2>2. CASE f # "code"
    <3>1. /\ \A c \in Browsers \ {b} : Stripped(c)
          /\ Kept(b) /\ req'[b].at = "next"
      BY <1>7, UnlinkStrips
    <3>2. \A c \in Browsers \ {b} : Op(c)' = Op(c) BY <3>1 DEF Op, Stripped, Unchanged
    <3>3. file'[f] = file[f] /\ seen' = seen /\ jar' = Withdrawn("code") /\ (f \notin raced' => f \notin raced)
      BY <1>7, <2>2 DEF Unlink, Race, Typed
    <3>4. \A c \in Browsers : QuietWriter(c, f)
      BY <3>1, <3>2, <3>3 DEF QuietWriter, Writing, About, Stripped, Unchanged
    <3>5. \A c \in Browsers : f \in req'[c].had => f \in req[c].had
      BY <3>1 DEF Stripped, Unchanged, Kept
    <3>6. \A c \in Browsers : f \in Drawn => jar'[c][f] = jar[c][f] /\ req'[c].gift[f] = req[c].gift[f]
      BY <2>2, <3>1, <3>3 DEF Withdrawn, Typed, Holdings, Stripped, Kept
    <3>7. Quiet(f) BY <2>2, <3>3, <3>4, <3>5, <3>6 DEF Quiet, QuietHolder
    <3>8. QED BY <1>0, <3>7, QuietLawful
  <2>3. QED BY <2>1, <2>2
<1>8. QED BY <1>1, <1>2, <1>3, <1>4, <1>5, <1>6, <1>7 DEF Next

LEMMA InitLawful == Init => AllLawful
<1> SUFFICES ASSUME Init, NEW f \in Names PROVE Lone(f) /\ Filed(f) /\ Meant(f)
                                              /\ (f \in Drawn => Held(f)) /\ (f \in Counters => Counted(f))
  BY DEF AllLawful, Lawful
<1>1. \A b \in Browsers : req[b] = Idle /\ ~Writing(b, f)
  BY DEF Init, Idle, Writing
<1>2. Lone(f) /\ Filed(f) /\ Meant(f)
  BY <1>1 DEF Lone, Filed, Meant
<1>3. ASSUME f \in Drawn PROVE Held(f)
  <2>1. ~stale /\ \A b \in Browsers : jar[b][f] = IF f \in Signed THEN FirstMark ELSE Absent
    BY <1>3 DEF Init
  <2>2. f \in Signed => f \in mix.keys \cup {"cli"}
    BY DEF Signed
  <2>3. f \in Signed => file[f].live = FirstMark
    BY <2>2 DEF Init, NoFile
  <2>4. QED BY <1>1, <1>3, <2>1, <2>3, IdleHas DEF Held
<1>4. ASSUME f \in Counters PROVE Counted(f)
  <2>1. Had(f) = {} BY <1>1, IdleHas DEF Had
  <2>2. seen[f] = 0 /\ Count(f) \in Nat BY <1>4 DEF Init, Count
  <2>3. QED BY <2>1, <2>2, FS_EmptySet DEF Counted
<1>5. QED BY <1>2, <1>3, <1>4

LEMMA LawfulStep == Typed /\ AllLawful /\ [Next]_vars => Typed' /\ AllLawful'
BY TypedStep, StepLawful

\* Whatever the wizard has handed out holds until it says otherwise, whoever else asks,
\* writes or fails: unless two requests have met over the file.
THEOREM HandedOut == Spec => []HandedOutHolds
<1>1. Init => Typed /\ AllLawful BY InitTyped, InitLawful
<1>2. Typed /\ AllLawful /\ [Next]_vars => Typed' /\ AllLawful' BY LawfulStep
<1>3. AllLawful => HandedOutHolds
  BY DEF AllLawful, Lawful, Held, HandedOutHolds, Names
<1>4. QED BY <1>1, <1>2, <1>3, PTL DEF Spec

\* No secret is shown uncounted, whoever else asks, zeroes or fails: unless two requests
\* have met over the counter.
THEOREM Counts == Spec => []RevealsCounted
<1>1. Init => Typed /\ AllLawful BY InitTyped, InitLawful
<1>2. Typed /\ AllLawful /\ [Next]_vars => Typed' /\ AllLawful' BY LawfulStep
<1>3. Typed /\ AllLawful => RevealsCounted
  <2> SUFFICES ASSUME Typed, AllLawful, NEW f \in Counters \ raced PROVE seen[f] <= Count(f)
    BY DEF RevealsCounted
  <2>2. Counted(f) BY DEF AllLawful, Lawful, Names
  <2>3. seen[f] \in Nat /\ Count(f) \in Nat BY DEF Typed, Count
  <2>4. QED BY <2>2, <2>3, HadFinite DEF Counted
<1>4. QED BY <1>1, <1>2, <1>3, PTL DEF Spec
=============================================================================
