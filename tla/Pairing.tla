------------------------------ MODULE Pairing ------------------------------
(***************************************************************************)
(* Pairing with another box: the wizard's /pair/accept and /pair/remove,   *)
(* the file-only `admin_cli pair` commands, /shared/pairings.json, and the *)
(* Synapse container, which reads the file only when it boots.             *)
(*                                                                         *)
(* The wizard's handlers are async: one runs from its start to its first   *)
(* await without another handler in between (loop), and the only awaits    *)
(* are the docker restart and the wait for health.  An admin_cli command   *)
(* is a process of its own: it reads the file and replaces it with nothing *)
(* to keep others out.                                                     *)
(***************************************************************************)
EXTENDS Naturals, TmpRename

CONSTANTS Handlers,  \* accept and remove requests in progress in the wizard
          Cli,       \* admin_cli pair accept/remove processes
          Onions,    \* onion hostnames, this box's included
          Own,       \* this box's onion hostname
          Codes,     \* pair codes the operator may be given: [onion, nonce, expires]
          MaxTime,   \* bound on the clock
          None

Nonces == {c.nonce : c \in Codes}
Actors == Handlers \cup Cli
Entry == [onion : Onions \ {Own}, nonce : Nonces]
Task == [op : {"accept", "remove"}, onion : Onions, nonce : Nonces \cup {None}]

ASSUME ActorsAssumption == None \notin Actors /\ Handlers \cap Cli = {}
ASSUME TimeAssumption == MaxTime \in Nat
ASSUME CodesAssumption == Codes \subseteq [onion : Onions, nonce : Nonces, expires : Nat]
ASSUME NoneAssumption == None \notin Task
\* No list of peers is one of the states of a file that holds none.
ASSUME FileAssumption ==
    /\ \A entries \in SUBSET Entry : entries \notin Unreadable
    /\ Absent # Empty /\ Absent # Garbage /\ Empty # Garbage

VARIABLES
    now,       \* wall clock
    file,      \* pairings.json and its .tmp; the order of its entries means nothing
    pc,        \* where each actor is
    task,      \* what each actor was asked to do
    read,      \* the entries each actor has loaded
    loop,      \* handler running between two awaits
    synapse,   \* the container: "booting", "loading" its config, "healthy"
    rendered,  \* the peers in the federation whitelist Synapse last rendered
    notice,    \* has anyone got less than a success since then?
    consumed,  \* history: nonces that were ever saved
    met        \* history: actors at work whose work overlaps that of a CLI process

vars == <<now, file, pc, task, read, loop, synapse, rendered, notice, consumed, met>>

\* What load_pairings and render_config.py make of the file's contents.
Parsed(contents) == IF contents \in Unreadable THEN {} ELSE contents
Pairings == Parsed(file.live)
OnionsOf(entries) == {e.onion : e \in entries}
Drift == rendered # OnionsOf(Pairings)

\* Between the read of the file and its replacement.
AtWork(a) == pc[a] \in {"loaded", "opened", "filled"}
Meets(a) == {b \in Actors \ {a} : AtWork(b) /\ {a, b} \cap Cli # {}}

-----------------------------------------------------------------------------
Init ==
    /\ now = 0
    /\ file = NoFile(Actors)
    /\ pc = [a \in Actors |-> "idle"]
    /\ task = [a \in Actors |-> None]
    /\ read = [a \in Actors |-> {}]
    /\ loop = None
    /\ synapse = "healthy"
    /\ rendered = {}
    /\ notice = FALSE
    /\ consumed = {}
    /\ met = {}

Tick ==
    /\ now < MaxTime
    /\ now' = now + 1
    /\ UNCHANGED <<file, pc, task, read, loop, synapse, rendered, notice, consumed, met>>

\* Mutant: handlers as threads, that do not keep each other out.
EnterUnserialised(a) ==
    /\ pc[a] = "idle"
    /\ loop' = loop
    /\ pc' = [pc EXCEPT ![a] = "loaded"]
    /\ read' = [read EXCEPT ![a] = Pairings]
    /\ met' = IF Meets(a) = {} THEN met ELSE met \cup Meets(a) \cup {a}
    /\ UNCHANGED <<now, file, synapse, rendered, notice, consumed>>

\* A handler starts only when no other holds the event loop; a CLI process
\* starts whenever it is run.
Enter(a) ==
    /\ pc[a] = "idle"
    /\ (a \in Handlers) => (loop = None)
    /\ loop' = IF a \in Handlers THEN a ELSE loop
    /\ pc' = [pc EXCEPT ![a] = "loaded"]
    /\ read' = [read EXCEPT ![a] = Pairings]
    /\ met' = IF Meets(a) = {} THEN met ELSE met \cup Meets(a) \cup {a}
    /\ UNCHANGED <<now, file, synapse, rendered, notice, consumed>>

\* decode_code refuses an expired code, the handler one of this very box.
StartAccept(a, c) ==
    /\ Enter(a)
    /\ c.expires >= now
    /\ c.onion # Own
    /\ task' = [task EXCEPT ![a] = [op |-> "accept", onion |-> c.onion, nonce |-> c.nonce]]

StartRemove(a, o) ==
    /\ Enter(a)
    /\ task' = [task EXCEPT ![a] = [op |-> "remove", onion |-> o, nonce |-> None]]

\* The entries an actor writes back, and whether it writes at all: accept
\* refuses a nonce that is on file and replaces the entry of the same onion;
\* remove refuses an onion that is not on file.
EveryEntry(a) == read[a]    \* mutant: does not replace the entry of the same onion
Others(a) == {e \in read[a] : e.onion # task[a].onion}
Refused(a) ==
    IF task[a].op = "accept"
      THEN \E e \in read[a] : e.nonce = task[a].nonce
      ELSE task[a].onion \notin OnionsOf(read[a])
NewEntries(a) ==
    IF task[a].op = "accept"
      THEN Others(a) \cup {[onion |-> task[a].onion, nonce |-> task[a].nonce]}
      ELSE Others(a)

Yield(a) == loop' = IF a \in Handlers THEN None ELSE loop

\* The end of a request or a process, and whether the operator is left with
\* anything but a success.
End(a, told) ==
    /\ pc' = [pc EXCEPT ![a] = "idle"]
    /\ task' = [task EXCEPT ![a] = None]
    /\ read' = [read EXCEPT ![a] = {}]
    /\ notice' = told
    /\ met' = met \ {a}

Refuse(a) ==
    /\ pc[a] = "loaded" /\ Refused(a)
    /\ End(a, notice)
    /\ Yield(a)
    /\ UNCHANGED <<now, file, synapse, rendered, consumed>>

OpenTmp(a) ==
    /\ pc[a] = "loaded" /\ ~Refused(a)
    /\ file' = Opened(file, a)
    /\ pc' = [pc EXCEPT ![a] = "opened"]
    /\ UNCHANGED <<now, task, read, loop, synapse, rendered, notice, consumed, met>>

FillTmp(a) ==
    /\ pc[a] = "opened"
    /\ file' \in Filled(file, a, NewEntries(a))
    /\ pc' = [pc EXCEPT ![a] = "filled"]
    /\ UNCHANGED <<now, task, read, loop, synapse, rendered, notice, consumed, met>>

\* The rename.  A handler goes on to the docker restart; a CLI process is done,
\* and its user knows no restart is made.
Replace(a) ==
    /\ pc[a] = "filled" /\ file.tmp # Absent
    /\ file' = Replaced(file)
    /\ consumed' = IF task[a].op = "accept" THEN consumed \cup {task[a].nonce} ELSE consumed
    /\ Yield(a)
    /\ IF a \in Handlers
         THEN /\ pc' = [pc EXCEPT ![a] = "restart"]
              /\ met' = met \ {a}
              /\ UNCHANGED <<task, read, notice>>
         ELSE End(a, TRUE)
    /\ UNCHANGED <<now, synapse, rendered>>

\* Mutant: a rename that fails is reported as a success.
SaveFailsSilently(a) ==
    /\ pc[a] = "filled" /\ file.tmp = Absent
    /\ End(a, notice)
    /\ Yield(a)
    /\ UNCHANGED <<now, file, synapse, rendered, consumed>>

\* The disk is full, or another writer took the temporary file away: a 500, or
\* a traceback of the CLI process.
SaveFails(a) ==
    /\ pc[a] \in {"loaded", "opened"} \/ (pc[a] = "filled" /\ file.tmp = Absent)
    /\ ~Refused(a)
    /\ file' = Closed(file, {a})
    /\ End(a, TRUE)
    /\ Yield(a)
    /\ UNCHANGED <<now, synapse, rendered, consumed>>

-----------------------------------------------------------------------------
\* _apply_federation_change: docker has restarted the container.
DockerRestart(h) ==
    /\ pc[h] = "restart"
    /\ pc' = [pc EXCEPT ![h] = "wait"]
    /\ synapse' = "booting"
    /\ UNCHANGED <<now, file, task, read, loop, rendered, notice, consumed, met>>

\* Mutant: the docker socket is missing, and the handler skips the restart.
RestartSkipped(h) ==
    /\ pc[h] = "restart"
    /\ End(h, notice)
    /\ synapse' \in {synapse, "booting"}
    /\ UNCHANGED <<now, file, loop, rendered, consumed>>

\* The docker socket is missing, docker refuses, or its answer is lost after it
\* acted: a 500 that says the change is saved.
RestartFails(h) ==
    /\ pc[h] = "restart"
    /\ End(h, TRUE)
    /\ synapse' \in {synapse, "booting"}
    /\ UNCHANGED <<now, file, loop, rendered, consumed>>

\* Mutant: takes "running" for "restarted".
SuccessWhenRunning(h) ==
    /\ pc[h] = "wait" /\ loop = None
    /\ End(h, notice)
    /\ UNCHANGED <<now, file, loop, synapse, rendered, consumed>>

\* wait_healthy saw the container healthy: the redirect that means success.
\* It polls between awaits, so no other handler may hold the loop.  (The code
\* this box offers is dropped here too: see Dashboard.)
Success(h) ==
    /\ pc[h] = "wait" /\ loop = None
    /\ synapse = "healthy"
    /\ End(h, notice)
    /\ UNCHANGED <<now, file, loop, synapse, rendered, consumed>>

WaitForever(h) == pc[h] = "lost" /\ UNCHANGED vars    \* mutant: no deadline

\* wait_healthy saw it unhealthy, or ran out of its 120 seconds because Synapse
\* or docker did not answer: a 500.
WaitFails(h) ==
    /\ pc[h] = "wait" /\ loop = None
    /\ End(h, TRUE)
    /\ UNCHANGED <<now, file, loop, synapse, rendered, consumed>>

\* Synapse's entrypoint: render homeserver.yaml from pairings.json, on every boot.
Render ==
    /\ synapse = "booting"
    /\ synapse' = "loading"
    /\ rendered' = OnionsOf(Pairings)
    /\ notice' = FALSE
    /\ UNCHANGED <<now, file, pc, task, read, loop, consumed, met>>

BecomeHealthy ==
    /\ synapse = "loading"
    /\ synapse' = "healthy"
    /\ UNCHANGED <<now, file, pc, task, read, loop, rendered, notice, consumed, met>>

\* Synapse dies and docker brings it back, or the operator restarts it.
SynapseRestart ==
    /\ synapse' = "booting"
    /\ UNCHANGED <<now, file, pc, task, read, loop, rendered, notice, consumed, met>>

\* The wizard dies: its requests end without an answer.
WizardCrash ==
    /\ \E h \in Handlers : pc[h] # "idle"
    /\ pc' = [a \in Actors |-> IF a \in Handlers THEN "idle" ELSE pc[a]]
    /\ task' = [a \in Actors |-> IF a \in Handlers THEN None ELSE task[a]]
    /\ read' = [a \in Actors |-> IF a \in Handlers THEN {} ELSE read[a]]
    /\ file' = Closed(file, Handlers)
    /\ loop' = None
    /\ notice' = TRUE
    /\ met' = met \ Handlers
    /\ UNCHANGED <<now, synapse, rendered, consumed>>

ActorStep(a) == Refuse(a) \/ OpenTmp(a) \/ FillTmp(a) \/ Replace(a) \/ SaveFails(a)

Next ==
    \/ Tick \/ Render \/ BecomeHealthy \/ SynapseRestart \/ WizardCrash
    \/ \E a \in Actors :
         \/ \E c \in Codes : StartAccept(a, c)
         \/ \E o \in Onions : StartRemove(a, o)
         \/ ActorStep(a)
    \/ \E h \in Handlers :
         \/ DockerRestart(h) \/ RestartFails(h) \/ Success(h) \/ WaitFails(h)

Spec == Init /\ [][Next]_vars

\* The code runs to its end: every handler that is not waiting for docker or
\* Synapse goes on, the docker call returns or times out within 60 seconds, the
\* wait for health within 120 (asyncio runs what is ready in turn, so a loop
\* that is free again and again serves it: strong fairness); Synapse's
\* entrypoint renders its configuration; an operator who was told that something
\* failed restarts Synapse, as the messages say.
Fairness ==
    /\ \A a \in Actors : WF_vars(ActorStep(a))
    /\ \A h \in Handlers :
         /\ WF_vars(DockerRestart(h) \/ RestartFails(h))
         /\ SF_vars(Success(h) \/ WaitFails(h))
    /\ WF_vars(Render)
    /\ WF_vars(notice /\ SynapseRestart)

FairSpec == Spec /\ Fairness

-----------------------------------------------------------------------------
TypeOK ==
    /\ now \in 0..MaxTime
    /\ file \in File(Actors, SUBSET Entry)
    /\ pc \in [Actors -> {"idle", "loaded", "opened", "filled", "restart", "wait"}]
    /\ task \in [Actors -> Task \cup {None}]
    /\ read \in [Actors -> SUBSET Entry]
    /\ loop \in Handlers \cup {None}
    /\ synapse \in {"booting", "loading", "healthy"}
    /\ rendered \in SUBSET Onions
    /\ notice \in BOOLEAN
    /\ consumed \in SUBSET Nonces
    /\ met \in SUBSET Actors

\* pairings.json never lists a peer twice nor a pair code twice, whatever
\* handlers and CLI processes interleave between their read and their write, and
\* however they mix up their temporary file.
Unambiguous(entries) ==
    \A d, e \in entries : d.onion = e.onion \/ d.nonce = e.nonce => d = e
UniqueEntries == Unambiguous(Pairings)

\* The whitelist Synapse runs with differs from pairings.json only while someone
\* who wrote it is not done, or after the operator got less than a success: no
\* failure leaves the two apart in silence.
Unfinished(a) == pc[a] \in {"filled", "restart"}
NoSilentDrift ==
    synapse # "booting" /\ Drift => notice \/ \E a \in Actors : Unfinished(a)

\* When accept or remove reports success, federation with the peer really is open
\* or closed, unless the file has since come to say otherwise or another change
\* has yet to be applied.
InFile(h) == (task[h].op = "accept") <=> (task[h].onion \in OnionsOf(Pairings))
InForce(h) == (task[h].op = "accept") <=> (task[h].onion \in rendered)
SuccessMeansApplied ==
    [][\A h \in Handlers :
         (pc[h] \in {"restart", "wait"} /\ pc'[h] = "idle" /\ ~notice' /\ InFile(h))
           => (InForce(h) \/ \E a \in Actors : Unfinished(a)')]_vars

\* A peer leaves the file only because someone removes or re-pairs that peer, or
\* because the writer's work overlapped that of a CLI process: no request undoes
\* another, and nothing a crash left behind does, nor does a CLI process that had
\* the file to itself.
Writes(a) == pc[a] \in {"opened", "filled"} /\ pc'[a] # pc[a]
NoLostPeer ==
    [][\A e \in Pairings \ Parsed(file'.live) :
         \E a \in Actors : Writes(a) /\ (task[a].onion = e.onion \/ a \in met)]_vars

\* "Refuse to re-add the same nonce - single-use, prevents replay"
\* (pairing.py:156): a code that was consumed is never consumed again.
CodeConsumedOnce ==
    [][\A a \in Actors :
         (pc[a] = "filled" /\ pc'[a] = "restart" /\ task[a].op = "accept")
           => (task[a].nonce \notin consumed)]_vars

\* No request hangs: whatever docker and Synapse do, it is answered.
HandlerEnds == \A h \in Handlers : (pc[h] # "idle") ~> (pc[h] = "idle")

\* Once pairings.json is left alone, Synapse comes to federate with exactly the
\* peers in it and stays so, whatever failed before.
Converges == (<>[][file'.live = file.live]_vars) => <>[]~Drift
=============================================================================
