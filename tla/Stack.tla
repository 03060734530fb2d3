------------------------------- MODULE Stack -------------------------------
(***************************************************************************)
(* The stack on its host: containers that start, die and are restarted in  *)
(* any order, what the volumes they share must agree on, and the commands  *)
(* of scripts/pureprivacy, one at a time.  Onions, passwords and           *)
(* certificates are numbers: what matters is which are the same.           *)
(*                                                                         *)
(* Only `up` knows of the voice profile.  The other commands leave its     *)
(* containers as they are (scripts/pureprivacy:316-320).                   *)
(***************************************************************************)
EXTENDS Naturals

CONSTANTS Ids,      \* onions, passwords and certificates that can be drawn
          Scenes,   \* what a behaviour may be about: the commands the operator gives besides
                    \* `up` and how many in all (a bound), whether voice is ever on, whether
                    \* containers die by themselves, whether a restore meets errors that it
                    \* ignores, and the tarball there is from the start
          Absent

Names == {"down", "stop", "start", "restart", "backup", "restore", "reset"}
Volumes == {"tor", "synapse", "postgres", "shared"}
Default == {"tor", "postgres", "synapse"}
Voice == {"proxy", "jwt"}
Containers == Default \cup Voice

Id == Ids \cup {Absent}
Disk == [tor : [key : Id],                  \* the hidden service's key
         synapse : [name : Id],             \* *.signing.key
         postgres : [pw : Id, owner : Id],  \* the password it was made with, the owner's account
         shared : [pw : Id, host : Id, owner : Id, ca : Id]]
              \* postgres_password, onion_hostname, .setup-complete (an owner is named by
              \* the box), synapse-fed-proxy-ca.crt
Empty == [tor |-> [key |-> Absent], synapse |-> [name |-> Absent],
          postgres |-> [pw |-> Absent, owner |-> Absent],
          shared |-> [pw |-> Absent, host |-> Absent, owner |-> Absent, ca |-> Absent]]
\* Volumes of one box: Synapse is named after Tor's onion, the database opens with the
\* password on file, and the owner on file has an account, on this box.
OneBox(d) ==
    /\ d.synapse.name \in {Absent, d.tor.key} /\ d.shared.host \in {Absent, d.tor.key}
    /\ d.postgres.pw \in {Absent, d.shared.pw}
    /\ d.shared.owner \in {Absent, d.synapse.name} /\ d.postgres.owner = d.shared.owner

\* mixed: taken of volumes that were not of one box, or while the stack ran.
Tarball == [disk : Disk, made : BOOLEAN, mixed : BOOLEAN]

ASSUME StackAssumption ==
    /\ Ids \subseteq Nat /\ Absent \notin Nat
    /\ Scenes \subseteq [commands : SUBSET Names, most : Nat, voice : BOOLEAN,
                         crashes : BOOLEAN, slips : BOOLEAN, tarball : Tarball]
    /\ \A s \in Scenes : ~s.tarball.mixed => OneBox(s.tarball.disk)

VARIABLES
    scene,    \* what this behaviour is about
    given,    \* how many commands other than `up` were given
    disk,     \* the volumes
    box,      \* each container: "none", "off", "boot" (in its entrypoint), "cert" (the proxy has
              \* one and has not published it) or "up"
    cert,     \* in the proxy's layer: its certificate, the onion in it, is it about to expire?
    jwt,      \* in the token service's layer: the onion it routes, the certificate it trusts
    profile,  \* .pureprivacy-profile: is voice on?
    cmd,      \* the command that runs: how far it is, the volumes it has still to handle; a
              \* backup's: was the stack running, and what it has written; a restore's:
              \* history, did it go on over an error that it ignores
    tarball,  \* the last tarball that was finished
    mixed     \* history: a restore or a reset began to change volumes, and no later one has
              \* changed them all

layers == <<cert, jwt>>
host == <<scene, given, profile, cmd, tarball, mixed>>
vars == <<disk, box, layers, host>>

NoCert == [id |-> Absent, onion |-> Absent, old |-> FALSE]
NoTrust == [route |-> Absent, ca |-> Absent]
Idle == [at |-> "idle", left |-> {}, was |-> FALSE, draft |-> Empty, spoilt |-> FALSE]

Init ==
    /\ scene \in Scenes /\ given = 0
    /\ disk = Empty /\ box = [c \in Containers |-> "none"]
    /\ cert = NoCert /\ jwt = NoTrust /\ profile = FALSE
    /\ cmd = Idle /\ tarball = scene.tarball /\ mixed = FALSE

Running(c) == box[c] \in {"boot", "cert", "up"}

\* A number that stands nowhere for an onion, a password or a certificate.  That Ids has
\* one is a bound: TLC would report a CHOOSE without a witness.
Disks == {disk, cmd.draft, tarball.disk}
Unused(taken) == CHOOSE i \in Ids : i \notin taken
FreshOnion ==
    Unused(UNION {{d.tor.key, d.synapse.name, d.postgres.owner, d.shared.host, d.shared.owner} : d \in Disks}
           \cup {cert.onion, jwt.route})
FreshPassword == Unused(UNION {{d.postgres.pw, d.shared.pw} : d \in Disks})
FreshCert == Unused({d.shared.ca : d \in Disks} \cup {cert.id, jwt.ca})

-----------------------------------------------------------------------------
\* The entrypoints.  Tor makes a key unless it has one, and publishes its name.
TorKey ==
    /\ box["tor"] = "boot" /\ disk.tor.key = Absent /\ FreshOnion \in Ids
    /\ disk' = [disk EXCEPT !.tor.key = FreshOnion]
    /\ UNCHANGED <<box, layers, host>>

TorPublishes ==
    /\ box["tor"] = "boot" /\ disk.tor.key # Absent
    /\ disk' = [disk EXCEPT !.shared.host = disk.tor.key]
    /\ box' = [box EXCEPT !["tor"] = "up"]
    /\ UNCHANGED <<layers, host>>

\* Postgres makes its database with the password on file, or has one.
PostgresStarts ==
    /\ box["postgres"] = "boot" /\ disk.shared.pw # Absent
    /\ disk' = [disk EXCEPT !.postgres.pw = IF @ = Absent THEN disk.shared.pw ELSE @]
    /\ box' = [box EXCEPT !["postgres"] = "up"]
    /\ UNCHANGED <<layers, host>>

\* Synapse takes the name it has a signing key for, or else the one published.
ServerName == IF disk.synapse.name = Absent THEN disk.shared.host ELSE disk.synapse.name
SynapseNames ==
    /\ box["synapse"] = "boot" /\ disk.shared.pw # Absent
    /\ disk.synapse.name = Absent /\ ServerName # Absent
    /\ disk' = [disk EXCEPT !.synapse.name = ServerName]
    /\ UNCHANGED <<box, layers, host>>

SynapseServes ==
    /\ box["synapse"] = "boot" /\ disk.synapse.name # Absent
    /\ box["postgres"] = "up" /\ disk.shared.pw = disk.postgres.pw
    /\ box' = [box EXCEPT !["synapse"] = "up"]
    /\ UNCHANGED <<disk, layers, host>>

\* The proxy mints a certificate unless it has one of this onion that is not about to
\* expire ...
NeedMint == cert.id = Absent \/ cert.onion # disk.shared.host \/ cert.old
ProxyChecks ==
    /\ box["proxy"] = "boot" /\ disk.shared.host # Absent /\ FreshCert \in Ids
    /\ cert' = IF NeedMint THEN [id |-> FreshCert, onion |-> disk.shared.host, old |-> FALSE] ELSE cert
    /\ box' = [box EXCEPT !["proxy"] = "cert"]
    /\ UNCHANGED <<disk, jwt, host>>

\* ... publishes the one it has, and serves.
ProxyPublishes ==
    /\ box["proxy"] = "cert"
    /\ disk' = [disk EXCEPT !.shared.ca = cert.id]
    /\ box' = [box EXCEPT !["proxy"] = "up"]
    /\ UNCHANGED <<layers, host>>

\* The token service routes the onion to the proxy and trusts what is published, or
\* after a minute without either starts all the same.
JwtStarts ==
    /\ box["jwt"] = "boot"
    /\ jwt' = [route |-> disk.shared.host,
               ca |-> IF Absent \in {disk.shared.host, disk.shared.ca} THEN jwt.ca ELSE disk.shared.ca]
    /\ box' = [box EXCEPT !["jwt"] = "up"]
    /\ UNCHANGED <<disk, cert, host>>

Starts == \/ TorKey \/ TorPublishes \/ PostgresStarts \/ SynapseNames \/ SynapseServes
          \/ ProxyChecks \/ ProxyPublishes \/ JwtStarts

\* Setup (see Setup) gives the box its owner, in the database and on file.
SetUp ==
    /\ box["synapse"] = "up" /\ box["postgres"] = "up" /\ disk.shared.owner = Absent
    /\ disk' = [disk EXCEPT !.shared.owner = disk.synapse.name, !.postgres.owner = disk.synapse.name]
    /\ UNCHANGED <<box, layers, host>>

\* A container dies and docker restarts it, as it does them all, in no order, when the
\* host comes back; a year passes for the proxy's certificate.
Crashes(c) ==
    /\ scene.crashes /\ box[c] \in {"cert", "up"}
    /\ box' = [box EXCEPT ![c] = "boot"]
    /\ UNCHANGED <<disk, layers, host>>

Ages ==
    /\ cert.id # Absent /\ ~cert.old
    /\ cert' = [cert EXCEPT !.old = TRUE]
    /\ UNCHANGED <<disk, box, jwt, host>>

-----------------------------------------------------------------------------
\* What compose waits for.  Tor is healthy while a name is published, be it its own.
Healthy(c) ==
    CASE c = "tor" -> Running(c) /\ disk.shared.host # Absent
      [] c = "proxy" -> box[c] = "up" /\ box["synapse"] = "up"
      [] OTHER -> box[c] = "up"
NeedsSynapseAtMost(c) ==    \* mutant: nobody waits for the proxy
    IF c = "synapse" THEN {"postgres"} ELSE IF c \in Voice THEN {"synapse"} ELSE {}
Needs(c) ==
    CASE c = "synapse" -> {"postgres"}
      [] c = "proxy" -> {"tor", "synapse"}
      [] c = "jwt" -> {"synapse", "proxy"}
      [] OTHER -> {}

\* What `stop` makes of the containers, and `down` or `rm` of those it is left with.
StillRunning(cs) == box    \* mutant: the stack is not stopped
Stopped(cs) == [c \in Containers |-> IF c \in cs /\ Running(c) THEN "off" ELSE box[c]]
Without(cs, from) == [c \in Containers |-> IF c \in cs THEN "none" ELSE from[c]]

\* compose gets as far as stopping off and removing gone: a service comes after those
\* that depend on it, and it may fail, or be cut off, after any.
GetsTo(off, gone) ==
    gone \subseteq off /\ \A c \in off : {d \in Default : c \in Needs(d)} \subseteq gone

\* The operator gives a command other than `up`.
Given(name) ==
    /\ cmd.at = "idle" /\ name \in scene.commands /\ given < scene.most
    /\ given' = given + 1

\* cmd_up: remembers the profile, drops the voice services if it is off, or as many as
\* it can, has Synapse recreated if it changed, ...
Up(voice, dropped) ==
    /\ cmd.at = "idle" /\ voice \in {FALSE, scene.voice}
    /\ dropped \subseteq (IF voice THEN {} ELSE Voice)
    /\ profile' = voice
    /\ cmd' = [cmd EXCEPT !.at = "init"]
    /\ box' = Without(dropped \cup (IF voice = profile THEN {} ELSE {"synapse"}), box)
    /\ cert' = IF "proxy" \in dropped THEN NoCert ELSE cert
    /\ jwt' = IF "jwt" \in dropped THEN NoTrust ELSE jwt
    /\ UNCHANGED <<scene, given, disk, tarball, mixed>>

\* ... runs init, which generates a secret that is missing, as `start` does if there is
\* anything to start, ...
PasswordEmpty(pw) == IF pw = Absent THEN 0 ELSE pw    \* mutant: what a dying openssl leaves
PasswordAnew(pw) == FreshPassword    \* mutant: a secret per run
Password(pw) == IF pw = Absent THEN FreshPassword ELSE pw
InitRuns ==
    /\ \/ cmd.at = "init"
       \/ cmd.at = "reinit" /\ \E c \in Default : box[c] # "none"
    /\ FreshPassword \in Ids
    /\ disk' = [disk EXCEPT !.shared.pw = Password(@)]
    /\ cmd' = [cmd EXCEPT !.at = IF @ = "init" THEN "up" ELSE "start"]
    /\ UNCHANGED <<scene, given, box, layers, profile, tarball, mixed>>

\* ... starts each service once those it depends on are healthy, as `start` does with
\* the containers there are, and ends when all are healthy.
Services == IF cmd.at = "up" /\ profile THEN Containers ELSE Default
Compose(c) ==
    /\ \/ cmd.at = "up" /\ box[c] \in {"none", "off"}
       \/ cmd.at = "start" /\ box[c] = "off"
    /\ c \in Services /\ \A d \in Needs(c) : Healthy(d)
    /\ box' = [box EXCEPT ![c] = "boot"]
    /\ UNCHANGED <<disk, layers, host>>

AllHealthy ==
    /\ cmd.at \in {"up", "start"} /\ \A c \in Services : Healthy(c)
    /\ cmd' = Idle
    /\ UNCHANGED <<scene, given, disk, box, layers, profile, tarball, mixed>>

\* compose has nothing to start: a service has no container.
StartRefused ==
    /\ cmd.at \in {"reinit", "start"} /\ \E c \in Default : box[c] = "none"
    /\ cmd' = Idle
    /\ UNCHANGED <<scene, given, disk, box, layers, profile, tarball, mixed>>

\* A command can fail where it stands: docker, the disk, a wait that takes too long, an
\* unusable tarball, the operator's ^C.
Fails ==
    /\ cmd.at # "idle"
    /\ cmd' = Idle
    /\ UNCHANGED <<scene, given, disk, box, layers, profile, tarball, mixed>>

Down ==
    /\ Given("down")
    /\ \E off, gone \in SUBSET Default : GetsTo(off, gone) /\ box' = Without(gone, Stopped(off))
    /\ UNCHANGED <<scene, disk, layers, profile, cmd, tarball, mixed>>

Stop ==
    /\ Given("stop")
    /\ \E off \in SUBSET Default : GetsTo(off, off) /\ box' = Stopped(off)
    /\ UNCHANGED <<scene, disk, layers, profile, cmd, tarball, mixed>>

Start ==
    /\ Given("start")
    /\ cmd' = [cmd EXCEPT !.at = "reinit"]
    /\ UNCHANGED <<scene, disk, box, layers, profile, tarball, mixed>>

Restart ==
    /\ Given("restart")
    /\ box' = [c \in Containers |-> IF c \in Default /\ box[c] # "none" THEN "boot" ELSE box[c]]
    /\ cmd' = [cmd EXCEPT !.at = "reinit"]
    /\ UNCHANGED <<scene, disk, layers, profile, tarball, mixed>>

-----------------------------------------------------------------------------
\* cmd_backup: stops the stack if Postgres runs, and gives up if it cannot; copies the
\* volumes one by one, and starts what it stopped.
Backup ==
    /\ Given("backup")
    /\ \E off \in IF Running("postgres") THEN SUBSET Default ELSE {{}} :
         /\ GetsTo(off, off) /\ box' = Stopped(off)
         /\ cmd' = IF off = Default \/ ~Running("postgres")
                     THEN [cmd EXCEPT !.at = "tar", !.left = Volumes, !.was = Running("postgres")]
                     ELSE cmd
    /\ UNCHANGED <<scene, disk, layers, profile, tarball, mixed>>

Tars(v) ==
    /\ cmd.at = "tar" /\ v \in cmd.left
    /\ cmd' = [cmd EXCEPT !.draft[v] = disk[v], !.left = @ \ {v}]
    /\ UNCHANGED <<scene, given, disk, box, layers, profile, tarball, mixed>>

\* A box without Postgres passes for one that is stopped; mixed notes if it was not.
BackupEnds ==
    /\ cmd.at = "tar" /\ cmd.left = {}
    /\ tarball' = [disk |-> cmd.draft, made |-> TRUE,
                   mixed |-> mixed \/ (~cmd.was /\ \E c \in Default : Running(c))]
    /\ cmd' = IF cmd.was THEN [Idle EXCEPT !.at = "reinit"] ELSE Idle
    /\ UNCHANGED <<scene, given, disk, box, layers, profile, mixed>>

\* cmd_restore: down, however far it gets; then the volumes are emptied, then filled
\* from the tarball.
Restore ==
    /\ Given("restore") /\ tarball.made
    /\ \E off, gone \in SUBSET Default : GetsTo(off, gone) /\ box' = Without(gone, Stopped(off))
    /\ cmd' = [cmd EXCEPT !.at = "wipe", !.left = Volumes, !.spoilt = \E c \in Default : Running(c)']
    /\ cmd'.spoilt => scene.slips
    /\ UNCHANGED <<scene, disk, layers, profile, tarball, mixed>>

\* One volume after the other, in the order of _volumes.  What cannot be deleted is
\* kept, without a word.
Rank == [shared |-> 1, tor |-> 2, postgres |-> 3, synapse |-> 4]
There(v) == {f \in DOMAIN disk[v] : disk[v][f] # Absent}
Kept(v, kept) == disk    \* mutant: unpacks over what is there
Wiped(v, kept) == [disk EXCEPT ![v] = [f \in DOMAIN @ |-> IF f \in kept THEN @[f] ELSE Absent]]
Wipes(v) ==
    /\ cmd.at = "wipe" /\ v \in cmd.left /\ \A w \in cmd.left : Rank[v] <= Rank[w]
    /\ \E kept \in SUBSET There(v) :
         /\ disk' = Wiped(v, kept)
         /\ cmd' = [cmd EXCEPT !.left = @ \ {v}, !.spoilt = @ \/ kept # {}]
         /\ cmd'.spoilt => scene.slips
    /\ mixed' = TRUE
    /\ UNCHANGED <<scene, given, box, layers, profile, tarball>>

WipeEnds ==
    /\ cmd.at = "wipe" /\ cmd.left = {}
    /\ cmd' = [cmd EXCEPT !.at = "untar", !.left = Volumes]
    /\ UNCHANGED <<scene, given, disk, box, layers, profile, tarball, mixed>>

\* A file of the tarball replaces the one that is there; another one stays.
Over(new, old) == [f \in DOMAIN old |-> IF new[f] = Absent THEN old[f] ELSE new[f]]
Untars(v) ==
    /\ cmd.at = "untar" /\ v \in cmd.left
    /\ disk' = [disk EXCEPT ![v] = Over(tarball.disk[v], @)]
    /\ cmd' = [cmd EXCEPT !.left = @ \ {v}]
    /\ UNCHANGED <<scene, given, box, layers, profile, tarball, mixed>>

RestoreEnds ==
    /\ cmd.at = "untar" /\ cmd.left = {}
    /\ cmd' = Idle /\ mixed' = (tarball.mixed \/ cmd.spoilt)
    /\ UNCHANGED <<scene, given, disk, box, layers, profile, tarball>>

\* cmd_reset: down -v, which removes the containers, gives up if it cannot remove all, ...
Reset ==
    /\ Given("reset")
    /\ \E off, gone \in SUBSET Default :
         /\ GetsTo(off, gone) /\ box' = Without(gone, Stopped(off))
         /\ cmd' = IF gone = Default THEN [cmd EXCEPT !.at = "rm", !.left = Volumes] ELSE cmd
    /\ UNCHANGED <<scene, disk, layers, profile, tarball, mixed>>

\* ... and then the volumes, in no order.  Docker keeps one that a container still has.
Held(v) == v = "shared" /\ \E c \in Voice : box[c] # "none"
Removes(v) ==
    /\ cmd.at = "rm" /\ v \in cmd.left
    /\ disk' = IF Held(v) THEN disk ELSE [disk EXCEPT ![v] = Empty[v]]
    /\ cmd' = [cmd EXCEPT !.left = @ \ {v}]
    /\ mixed' = (cmd'.left # {} \/ disk'.shared # Empty.shared)
    /\ UNCHANGED <<scene, given, box, layers, profile, tarball>>

\* The profile is forgotten.
ResetEnds ==
    /\ cmd.at = "rm" /\ cmd.left = {}
    /\ profile' = FALSE /\ cmd' = Idle
    /\ UNCHANGED <<scene, given, disk, box, layers, tarball, mixed>>

-----------------------------------------------------------------------------
Goes == \/ InitRuns \/ AllHealthy \/ StartRefused
        \/ BackupEnds \/ WipeEnds \/ RestoreEnds \/ ResetEnds
        \/ \E v \in Volumes : Tars(v) \/ Wipes(v) \/ Untars(v) \/ Removes(v)
Composes == \E c \in Containers : Compose(c)
Commands == Down \/ Stop \/ Start \/ Restart \/ Backup \/ Restore \/ Reset
UpAsMeant(voice) == Up(voice, IF voice THEN {} ELSE Voice)
UpHalfDone == \E dropped \in SUBSET Voice \ {Voice} : Up(FALSE, dropped)
Trouble == Fails \/ Ages \/ UpHalfDone \/ \E c \in Containers : Crashes(c)
Next == \/ Starts \/ SetUp \/ Goes \/ Composes \/ Commands \/ Trouble
        \/ \E voice \in BOOLEAN : UpAsMeant(voice)

Spec == Init /\ [][Next]_vars

\* Entrypoints and commands go on, and the operator brings the box up again and again,
\* now with voice and now without if the scene has it.
FairSpec ==
    /\ Spec
    /\ WF_vars(TorKey) /\ WF_vars(TorPublishes) /\ WF_vars(PostgresStarts)
    /\ WF_vars(SynapseNames) /\ WF_vars(SynapseServes)
    /\ WF_vars(ProxyChecks) /\ WF_vars(ProxyPublishes) /\ WF_vars(JwtStarts)
    /\ WF_vars(Goes) /\ WF_vars(Composes) /\ \A voice \in BOOLEAN : SF_vars(UpAsMeant(voice))

-----------------------------------------------------------------------------
TypeOK ==
    /\ scene \in Scenes /\ given \in Nat
    /\ disk \in Disk /\ tarball \in Tarball
    /\ box \in [Containers -> {"none", "off", "boot", "cert", "up"}]
    /\ cert \in [id : Id, onion : Id, old : BOOLEAN] /\ jwt \in [route : Id, ca : Id]
    /\ cmd \in [at : {"idle", "init", "up", "reinit", "start", "tar", "wipe", "untar", "rm"},
                left : SUBSET Volumes, was : BOOLEAN, draft : Disk, spoilt : BOOLEAN]
    /\ profile \in BOOLEAN /\ mixed \in BOOLEAN

\* Whatever commands, failures, crashes and host restarts came in whatever order, the
\* volumes are of one box (docs/architecture.md:115-120).  Excepted, because they can end
\* in a mix of two: a restore or a reset that was cut short among the volumes, a restore
\* that went on over an error it ignores, and a reset past a volume that voice services
\* held, until another restore or reset goes through (mixed).
VolumesAreOneBox == ~mixed => OneBox(disk)

\* A backup is of one box and one moment, even if the box is coming up for the first
\* time, unless it ran and its Postgres did not, or its volumes
\* were no longer of one box (mixed).
TarballIsOneBox == ~tarball.mixed => OneBox(tarball.disk)

\* "The onion identity, admin user, room state ... all come back exactly as they were"
\* (docs/installation.md:180-182), and nothing that is younger than the backup survives;
\* the certificate apart, which a proxy that still runs may publish meanwhile.  Excepted,
\* because it does not hold: a restore that ignored that containers still ran, or that
\* files could not be deleted, and says it is done all the same (spoilt).
Same(v, d, e) == [d EXCEPT !.shared.ca = Absent][v] = [e EXCEPT !.shared.ca = Absent][v]
RestoredExactly == [][RestoreEnds /\ ~cmd.spoilt => \A v \in Volumes : Same(v, disk, tarball.disk)]_vars

\* Once trouble stops and the operator only brings the stack up, with and without voice,
\* the box serves and the token service trusts the proxy it is routed to: half a first
\* boot, stale names and certificates and commands that failed heal, but for volumes that
\* a restore or a reset left of two boxes (mixed).
Trusted ==
    /\ box["jwt"] = "up" /\ box["proxy"] = "up" /\ cert.onion = disk.tor.key
    /\ jwt = [route |-> disk.tor.key, ca |-> cert.id]
Served == box["tor"] = "up" /\ box["synapse"] = "up" /\ (scene.voice => Trusted)
ComesUp == (<>[][Goes \/ ~(Trouble \/ Commands)]_vars) => []<>(mixed \/ Served)
-----------------------------------------------------------------------------
(***************************************************************************)
(* The inductive invariant behind the theorems.                            *)
(***************************************************************************)
Halted == \A c \in Default : ~Running(c)

\* What a restore has emptied and filled so far, if no error was ignored.
RestoreInv ==
    /\ cmd.at \in {"wipe", "untar"} /\ ~cmd.spoilt => Halted
    /\ (cmd.at = "wipe" /\ cmd.left # Volumes) \/ cmd.at = "untar" => mixed
    /\ cmd.at = "wipe" /\ ~cmd.spoilt => \A v \in Volumes \ cmd.left : Same(v, disk, Empty)
    /\ cmd.at = "untar" /\ ~cmd.spoilt =>
         \A v \in Volumes : Same(v, disk, IF v \in cmd.left THEN Empty ELSE tarball.disk)

\* What a reset has removed so far, the containers gone.
ResetInv ==
    cmd.at = "rm" =>
      /\ Halted
      /\ cmd.left # Volumes => mixed \/ cmd.left = {}
      /\ \A v \in Volumes \ (cmd.left \cup {"shared"}) : Same(v, disk, Empty)

\* What a backup has copied so far is still what the volumes hold, unless it runs beside
\* a stack that it took for stopped.
BackupInv ==
    cmd.at = "tar" =>
      /\ cmd.was => Halted
      /\ Halted => \A v \in Volumes \ cmd.left : Same(v, cmd.draft, disk)

\* Every step keeps the volumes, the tarball and what a backup, a restore or a reset has
\* done so far in accord.
StackInv == TypeOK /\ VolumesAreOneBox /\ TarballIsOneBox /\ RestoreInv /\ ResetInv /\ BackupInv
=============================================================================
