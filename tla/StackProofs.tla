---------------------------- MODULE StackProofs ----------------------------
(***************************************************************************)
(* Proofs about Stack: whatever numbers, scenes and bounds.                *)
(***************************************************************************)
EXTENDS Stack, TLAPS

LEMMA FreshDisk ==
    ASSUME NEW d \in Disk, NEW i \in Id
    PROVE  /\ [d EXCEPT !.tor.key = i] \in Disk
           /\ [d EXCEPT !.shared.host = i] \in Disk
           /\ [d EXCEPT !.shared.ca = i] \in Disk
           /\ [d EXCEPT !.shared.pw = i] \in Disk
           /\ [d EXCEPT !.postgres.pw = i] \in Disk
           /\ [d EXCEPT !.synapse.name = i] \in Disk
           /\ [d EXCEPT !.shared.owner = i, !.postgres.owner = i] \in Disk
BY DEF Disk

LEMMA EmptyDisk == Empty \in Disk /\ OneBox(Empty)
BY DEF Empty, Disk, Id, OneBox

LEMMA SameFields ==
    ASSUME NEW d \in Disk, NEW e \in Disk
    PROVE  /\ Same("tor", d, e) <=> d.tor = e.tor
           /\ Same("synapse", d, e) <=> d.synapse = e.synapse
           /\ Same("postgres", d, e) <=> d.postgres = e.postgres
           /\ Same("shared", d, e) <=>
                /\ d.shared.pw = e.shared.pw /\ d.shared.host = e.shared.host
                /\ d.shared.owner = e.shared.owner
BY DEF Disk, Same
-----------------------------------------------------------------------------
(***************************************************************************)
(* Types.                                                                  *)
(***************************************************************************)
Command == [at : {"idle", "init", "up", "reinit", "start", "tar", "wipe", "untar", "rm"},
            left : SUBSET Volumes, was : BOOLEAN, draft : Disk, spoilt : BOOLEAN]

LEMMA InitType == Init => TypeOK
<1> SUFFICES ASSUME Init PROVE TypeOK
  OBVIOUS
<1>1. scene \in Scenes /\ scene.tarball \in Tarball
  BY StackAssumption DEF Init
<1>2. NoCert \in [id : Id, onion : Id, old : BOOLEAN] /\ NoTrust \in [route : Id, ca : Id]
  BY DEF NoCert, NoTrust, Id
<1> QED
  BY <1>1, <1>2, EmptyDisk DEF Init, TypeOK, Idle

\* The entrypoints, setup, and what befalls the containers.
LEMMA StartsType ==
    ASSUME TypeOK, Starts
    PROVE  TypeOK'
<1> USE DEF TypeOK, Containers, Default, Voice
<1>1. Absent \in Id /\ Ids \subseteq Id
  BY DEF Id
<1>2. /\ disk.tor.key \in Id /\ disk.synapse.name \in Id /\ disk.shared.host \in Id
      /\ disk.shared.pw \in Id /\ disk.postgres.pw \in Id /\ disk.shared.ca \in Id
  BY DEF Disk
<1>3. CASE TorKey
  BY <1>1, <1>3, FreshDisk DEF TorKey, layers, host
<1>4. CASE TorPublishes
  BY <1>2, <1>4, FreshDisk DEF TorPublishes, layers, host
<1>5. CASE PostgresStarts
  <2> DEFINE pw == IF disk.postgres.pw = Absent THEN disk.shared.pw ELSE disk.postgres.pw
  <2>1. pw \in Id
    BY <1>2
  <2>2. disk' = [disk EXCEPT !.postgres.pw = pw]
    BY <1>5 DEF PostgresStarts
  <2>3. disk' \in Disk
    <3> HIDE DEF pw
    <3> QED
      BY <2>1, <2>2, FreshDisk
  <2> QED
    BY <1>5, <2>3 DEF PostgresStarts, layers, host
<1>6. CASE SynapseNames
  BY <1>2, <1>6, FreshDisk DEF SynapseNames, ServerName, layers, host
<1>7. CASE SynapseServes
  BY <1>7 DEF SynapseServes, layers, host
<1>8. CASE ProxyChecks
  BY <1>1, <1>2, <1>8 DEF ProxyChecks, host
<1>9. CASE ProxyPublishes
  BY <1>9, FreshDisk DEF ProxyPublishes, layers, host
<1>10. CASE JwtStarts
  BY <1>2, <1>10 DEF JwtStarts, host
<1> QED
  BY <1>3, <1>4, <1>5, <1>6, <1>7, <1>8, <1>9, <1>10 DEF Starts

LEMMA UpType ==
    ASSUME TypeOK, NEW voice, NEW dropped, Up(voice, dropped)
    PROVE  TypeOK'
<1>1. NoCert \in [id : Id, onion : Id, old : BOOLEAN] /\ NoTrust \in [route : Id, ca : Id]
  BY DEF NoCert, NoTrust, Id
<1>2. scene.voice \in BOOLEAN
  BY StackAssumption DEF TypeOK
<1>3. cmd' \in Command
  BY DEF TypeOK, Up, Command
<1>4. box' \in [Containers -> {"none", "off", "boot", "cert", "up"}]
  BY DEF TypeOK, Up, Without
<1>5. profile' \in BOOLEAN
  BY <1>2 DEF Up
<1> QED
  BY <1>1, <1>3, <1>4, <1>5 DEF TypeOK, Up, Command

LEMMA TroubleType ==
    ASSUME TypeOK, SetUp \/ Trouble \/ Composes
    PROVE  TypeOK'
<1> USE DEF TypeOK, Containers, Default, Voice
<1>1. CASE SetUp
  <2>1. disk.synapse.name \in Id
    BY DEF Disk
  <2> QED
    BY <1>1, <2>1, FreshDisk DEF SetUp, layers, host
<1>2. CASE Fails
  BY <1>2, EmptyDisk DEF Fails, layers, Idle
<1>3. CASE Ages
  BY <1>3 DEF Ages, host
<1>4. ASSUME NEW c \in Containers, Crashes(c) PROVE TypeOK'
  BY <1>4 DEF Crashes, layers, host
<1>5. ASSUME NEW c \in Containers, Compose(c) PROVE TypeOK'
  BY <1>5 DEF Compose, layers, host
<1>6. CASE UpHalfDone
  BY <1>6, UpType DEF UpHalfDone
<1> QED
  BY <1>1, <1>2, <1>3, <1>4, <1>5, <1>6 DEF Trouble, Composes

\* Containers stopped and removed.
LEMMA TakenDown ==
    ASSUME TypeOK, NEW off \in SUBSET Default, NEW gone \in SUBSET Default
    PROVE  /\ Stopped(off) \in [Containers -> {"none", "off", "boot", "cert", "up"}]
           /\ Without(gone, Stopped(off)) \in [Containers -> {"none", "off", "boot", "cert", "up"}]
BY DEF TypeOK, Stopped, Without

LEMMA CommandsType ==
    ASSUME TypeOK, Commands
    PROVE  TypeOK'
<1> USE DEF TypeOK, Given, layers
<1>1. CASE Down
  BY <1>1, TakenDown DEF Down
<1>2. CASE Stop
  BY <1>2, TakenDown DEF Stop
<1>3. CASE Start
  BY <1>3 DEF Start
<1>4. CASE Restart
  BY <1>4 DEF Restart
<1>5. CASE Backup
  <2> DEFINE was == Running("postgres")
             c == [cmd EXCEPT !.at = "tar", !.left = Volumes, !.was = was]
  <2>1. was \in BOOLEAN
    BY DEF Running
  <2>2. c \in Command
    <3> HIDE DEF was
    <3> QED
      BY <2>1 DEF Command
  <2>3. cmd' \in {c, cmd}
    BY <1>5 DEF Backup
  <2>4. box' \in [Containers -> {"none", "off", "boot", "cert", "up"}]
    BY <1>5, TakenDown DEF Backup
  <2> HIDE DEF c
  <2> QED
    BY <1>5, <2>2, <2>3, <2>4 DEF Backup, Command
<1>6. CASE Restore
  <2> DEFINE run == \E c \in Default : Running(c)'
  <2>1. cmd' = [cmd EXCEPT !.at = "wipe", !.left = Volumes, !.spoilt = run]
    BY <1>6 DEF Restore
  <2>2. run \in BOOLEAN
    OBVIOUS
  <2>3. cmd' \in Command
    <3> HIDE DEF run
    <3> QED
      BY <2>1, <2>2 DEF Command
  <2>4. box' \in [Containers -> {"none", "off", "boot", "cert", "up"}]
    BY <1>6, TakenDown DEF Restore
  <2> HIDE DEF run
  <2>5. /\ given' = given + 1
        /\ UNCHANGED <<scene, disk, layers, profile, tarball, mixed>>
    BY <1>6 DEF Restore, Given
  <2> QED
    BY <2>3, <2>4, <2>5 DEF Command
<1>7. CASE Reset
  <2>1. cmd' \in {[cmd EXCEPT !.at = "rm", !.left = Volumes], cmd}
    BY <1>7 DEF Reset
  <2>2. cmd' \in Command
    BY <2>1 DEF Command
  <2>3. box' \in [Containers -> {"none", "off", "boot", "cert", "up"}]
    BY <1>7, TakenDown DEF Reset
  <2> QED
    BY <1>7, <2>2, <2>3 DEF Reset, Command
<1> QED
  BY <1>1, <1>2, <1>3, <1>4, <1>5, <1>6, <1>7 DEF Commands

\* A volume is replaced by another one of its kind.
LEMMA VolumeReplaced ==
    ASSUME NEW d \in Disk, NEW e \in Disk, NEW v \in Volumes
    PROVE  [d EXCEPT ![v] = e[v]] \in Disk
BY DEF Disk, Volumes

\* What unpacking a volume leaves: a volume of its kind; the tarball's, if there was none.
LEMMA Unpacked ==
    ASSUME NEW d \in Disk, NEW e \in Disk, NEW v \in Volumes
    PROVE  /\ [d EXCEPT ![v] = Over(e[v], @)] \in Disk
           /\ Same(v, d, Empty) => Same(v, [d EXCEPT ![v] = Over(e[v], @)], e)
<1> DEFINE f == [d EXCEPT ![v] = Over(e[v], @)]
<1>1. CASE v = "tor"
  <2>1. Over(e.tor, d.tor) = [key |-> IF e.tor.key = Absent THEN d.tor.key ELSE e.tor.key]
    BY DEF Over, Disk
  <2> QED
    BY <1>1, <2>1 DEF Disk, Same, Empty
<1>2. CASE v = "synapse"
  <2>1. Over(e.synapse, d.synapse)
          = [name |-> IF e.synapse.name = Absent THEN d.synapse.name ELSE e.synapse.name]
    BY DEF Over, Disk
  <2> QED
    BY <1>2, <2>1 DEF Disk, Same, Empty
<1>3. CASE v = "postgres"
  <2>1. Over(e.postgres, d.postgres)
          = [pw |-> IF e.postgres.pw = Absent THEN d.postgres.pw ELSE e.postgres.pw,
             owner |-> IF e.postgres.owner = Absent THEN d.postgres.owner ELSE e.postgres.owner]
    BY DEF Over, Disk
  <2> QED
    BY <1>3, <2>1 DEF Disk, Same, Empty
<1>4. CASE v = "shared"
  <2>1. Over(e.shared, d.shared)
          = [pw |-> IF e.shared.pw = Absent THEN d.shared.pw ELSE e.shared.pw,
             host |-> IF e.shared.host = Absent THEN d.shared.host ELSE e.shared.host,
             owner |-> IF e.shared.owner = Absent THEN d.shared.owner ELSE e.shared.owner,
             ca |-> IF e.shared.ca = Absent THEN d.shared.ca ELSE e.shared.ca]
    BY DEF Over, Disk
  <2> QED
    BY <1>4, <2>1 DEF Disk, Same, Empty
<1> QED
  BY <1>1, <1>2, <1>3, <1>4 DEF Volumes

\* What emptying a volume leaves: a volume of its kind.
LEMMA WipedTyped ==
    ASSUME disk \in Disk, NEW v \in Volumes, NEW kept
    PROVE  Wiped(v, kept) \in Disk
<1> DEFINE of(x) == [f \in DOMAIN x |-> IF f \in kept THEN x[f] ELSE Absent]
<1>1. CASE v = "tor"
  <2>1. of(disk.tor) = [key |-> IF "key" \in kept THEN disk.tor.key ELSE Absent]
    BY DEF Disk
  <2> QED
    BY <1>1, <2>1 DEF Wiped, Disk, Id
<1>2. CASE v = "synapse"
  <2>1. of(disk.synapse) = [name |-> IF "name" \in kept THEN disk.synapse.name ELSE Absent]
    BY DEF Disk
  <2> QED
    BY <1>2, <2>1 DEF Wiped, Disk, Id
<1>3. CASE v = "postgres"
  <2>1. of(disk.postgres) = [pw |-> IF "pw" \in kept THEN disk.postgres.pw ELSE Absent,
                             owner |-> IF "owner" \in kept THEN disk.postgres.owner ELSE Absent]
    BY DEF Disk
  <2> QED
    BY <1>3, <2>1 DEF Wiped, Disk, Id
<1>4. CASE v = "shared"
  <2>1. of(disk.shared) = [pw |-> IF "pw" \in kept THEN disk.shared.pw ELSE Absent,
                           host |-> IF "host" \in kept THEN disk.shared.host ELSE Absent,
                           owner |-> IF "owner" \in kept THEN disk.shared.owner ELSE Absent,
                           ca |-> IF "ca" \in kept THEN disk.shared.ca ELSE Absent]
    BY DEF Disk
  <2> QED
    BY <1>4, <2>1 DEF Wiped, Disk, Id
<1> QED
  BY <1>1, <1>2, <1>3, <1>4 DEF Volumes

\* ... and, if all of it could be deleted, an empty one.
LEMMA WipedClean ==
    ASSUME disk \in Disk, NEW v \in Volumes
    PROVE  Wiped(v, {})[v] = Empty[v]
BY DEF Wiped, Disk, Volumes, Empty

LEMMA GoesType ==
    ASSUME TypeOK, Goes
    PROVE  TypeOK'
<1> USE DEF TypeOK, layers
<1>1. CASE InitRuns
  <2>1. Password(disk.shared.pw) \in Id
    BY <1>1 DEF InitRuns, Password, Disk, Id
  <2>2. disk' \in Disk
    BY <1>1, <2>1, FreshDisk DEF InitRuns
  <2>3. cmd' \in Command
    BY <1>1 DEF InitRuns, Command
  <2> QED
    BY <1>1, <2>2, <2>3 DEF InitRuns, Command
<1>2. CASE AllHealthy \/ StartRefused
  <2>1. cmd' = Idle /\ UNCHANGED <<scene, given, disk, box, layers, profile, tarball, mixed>>
    BY <1>2 DEF AllHealthy, StartRefused
  <2> QED
    BY <2>1, EmptyDisk DEF Idle
<1>3. CASE BackupEnds
  BY <1>3, EmptyDisk DEF BackupEnds, Idle, Tarball
<1>4. CASE WipeEnds
  BY <1>4 DEF WipeEnds
<1>5. CASE RestoreEnds
  <2>1. (tarball.mixed \/ cmd.spoilt) \in BOOLEAN
    BY DEF Tarball
  <2> QED
    BY <1>5, <2>1, EmptyDisk DEF RestoreEnds, Idle
<1>6. ASSUME NEW v \in Volumes, Tars(v) PROVE TypeOK'
  <2> DEFINE draft == [cmd.draft EXCEPT ![v] = disk[v]]
  <2>1. draft \in Disk
    BY VolumeReplaced
  <2>2. cmd' = [cmd EXCEPT !.draft = draft, !.left = cmd.left \ {v}]
    BY <1>6 DEF Tars
  <2> QED
    BY <1>6, <2>1, <2>2 DEF Tars
<1>7. ASSUME NEW v \in Volumes, Wipes(v) PROVE TypeOK'
  <2>1. PICK kept : /\ disk' = Wiped(v, kept)
                    /\ cmd' = [cmd EXCEPT !.left = @ \ {v}, !.spoilt = @ \/ kept # {}]
    BY <1>7 DEF Wipes
  <2>2. disk' \in Disk
    BY <2>1, WipedTyped
  <2>3. (cmd.spoilt \/ kept # {}) \in BOOLEAN
    OBVIOUS
  <2>4. cmd' \in Command
    BY <2>1, <2>3 DEF Command
  <2> QED
    BY <1>7, <2>2, <2>4 DEF Wipes, Command
<1>8. ASSUME NEW v \in Volumes, Untars(v) PROVE TypeOK'
  <2>1. tarball.disk \in Disk
    BY DEF Tarball
  <2>2. disk' \in Disk
    BY <1>8, <2>1, Unpacked DEF Untars
  <2> QED
    BY <1>8, <2>2 DEF Untars
<1>9. ASSUME NEW v \in Volumes, Removes(v) PROVE TypeOK'
  <2>1. disk' \in Disk
    BY <1>9, VolumeReplaced, EmptyDisk DEF Removes
  <2>2. mixed' \in BOOLEAN
    BY <1>9 DEF Removes
  <2> QED
    BY <1>9, <2>1, <2>2 DEF Removes
<1>10. CASE ResetEnds
  BY <1>10, EmptyDisk DEF ResetEnds, Idle
<1> QED
  BY <1>1, <1>2, <1>3, <1>4, <1>5, <1>6, <1>7, <1>8, <1>9, <1>10 DEF Goes

LEMMA NextType == TypeOK /\ [Next]_vars => TypeOK'
<1> SUFFICES ASSUME TypeOK, [Next]_vars PROVE TypeOK'
  OBVIOUS
<1>1. CASE UNCHANGED vars
  BY <1>1 DEF TypeOK, vars, layers, host
<1> QED
  BY <1>1, StartsType, TroubleType, UpType, CommandsType, GoesType DEF Next, UpAsMeant

\* The volumes, containers and commands stay in their domains.
THEOREM TypeCorrect == Spec => []TypeOK
<1> QED
  BY InitType, NextType, PTL DEF Spec
-----------------------------------------------------------------------------
(***************************************************************************)
(* Volumes that are the same.                                              *)
(***************************************************************************)
LEMMA SameVolume ==
    ASSUME NEW d \in Disk, NEW e \in Disk, NEW v \in Volumes, d[v] = e[v]
    PROVE  Same(v, d, e)
BY SameFields DEF Volumes, Disk

LEMMA SameIsOneBox ==
    ASSUME NEW d \in Disk, NEW e \in Disk, \A v \in Volumes : Same(v, d, e), OneBox(e)
    PROVE  OneBox(d)
BY SameFields DEF Volumes, OneBox, Disk

LEMMA Elsewhere ==
    ASSUME NEW d \in Disk, NEW v \in Volumes, NEW w \in Volumes, w # v, NEW x
    PROVE  [d EXCEPT ![v] = x][w] = d[w]
BY DEF Disk, Volumes

LEMMA Chained ==
    ASSUME NEW v, NEW d, NEW e, NEW f, Same(v, d, e), Same(v, e, f)
    PROVE  Same(v, d, f)
BY DEF Same

-----------------------------------------------------------------------------
(***************************************************************************)
(* The entrypoints keep the volumes of one box, and touch nothing but the  *)
(* certificate once the stack is halted.                                   *)
(***************************************************************************)
LEMMA StartsBox ==
    ASSUME TypeOK, Starts \/ SetUp, OneBox(disk)
    PROVE  OneBox(disk')
<1> USE DEF OneBox
<1>1. disk \in Disk
  BY DEF TypeOK
<1>2. CASE TorKey
  <2>1. disk' = [disk EXCEPT !.tor.key = FreshOnion] /\ disk.tor.key = Absent
    BY <1>2 DEF TorKey
  <2>2. disk.synapse.name = Absent /\ disk.shared.host = Absent
    BY <2>1
  <2> QED
    BY <1>1, <2>1, <2>2 DEF Disk
<1>3. CASE TorPublishes
  BY <1>1, <1>3 DEF TorPublishes, Disk
<1>4. CASE PostgresStarts
  BY <1>1, <1>4 DEF PostgresStarts, Disk
<1>5. CASE SynapseNames
  BY <1>1, <1>5 DEF SynapseNames, ServerName, Disk
<1>6. CASE SynapseServes \/ ProxyChecks \/ JwtStarts
  <2>1. disk' = disk
    BY <1>6 DEF SynapseServes, ProxyChecks, JwtStarts
  <2> QED
    BY <2>1
<1>7. CASE ProxyPublishes
  BY <1>1, <1>7 DEF ProxyPublishes, Disk
<1>8. CASE SetUp
  BY <1>1, <1>8 DEF SetUp, Disk
<1> QED
  BY <1>2, <1>3, <1>4, <1>5, <1>6, <1>7, <1>8 DEF Starts

\* They start or stop no container and end no command.
LEMMA StartsKeep ==
    ASSUME TypeOK, Starts \/ SetUp
    PROVE  /\ UNCHANGED <<cmd, tarball, mixed>>
           /\ \A c \in Default : (Running(c)' <=> Running(c)) /\ (box[c] = "none" => box'[c] = "none")
BY DEF TypeOK, Starts, TorKey, TorPublishes, PostgresStarts, SynapseNames, SynapseServes,
       ProxyChecks, ProxyPublishes, JwtStarts, SetUp, layers, host, Running,
       Containers, Default, Voice

LEMMA StartsQuiet ==
    ASSUME TypeOK, Starts \/ SetUp, Halted, NEW v \in Volumes
    PROVE  Same(v, disk', disk)
<1>1. disk \in Disk /\ disk' \in Disk
  BY StartsType, TroubleType DEF TypeOK
<1>2. \A c \in Default : box[c] \notin {"boot", "up"}
  BY DEF Halted, Running
<1>3. CASE ProxyPublishes
  <2>1. disk' = [disk EXCEPT !.shared.ca = cert.id]
    BY <1>3 DEF ProxyPublishes
  <2> QED
    BY <1>1, <2>1, SameFields DEF Volumes, Disk
<1>4. CASE ProxyChecks \/ JwtStarts
  <2>1. disk' = disk
    BY <1>4 DEF ProxyChecks, JwtStarts
  <2> QED
    BY <1>1, <2>1, SameVolume
<1> QED
  BY <1>2, <1>3, <1>4 DEF Starts, TorKey, TorPublishes, PostgresStarts, SynapseNames,
     SynapseServes, SetUp, Default
-----------------------------------------------------------------------------
(***************************************************************************)
(* The invariant.                                                          *)
(***************************************************************************)
Rest == VolumesAreOneBox /\ TarballIsOneBox /\ RestoreInv /\ ResetInv /\ BackupInv

LEMMA InitRest == Init => Rest
<1> SUFFICES ASSUME Init PROVE Rest
  OBVIOUS
<1>1. scene \in Scenes /\ tarball = scene.tarball /\ disk = Empty /\ cmd.at = "idle"
  BY DEF Init, Idle
<1> QED
  BY <1>1, StackAssumption, EmptyDisk
     DEF Rest, VolumesAreOneBox, TarballIsOneBox, RestoreInv, ResetInv, BackupInv

\* A step that leaves the volumes, what a command did, and who runs alone.
LEMMA KeepsRest ==
    ASSUME Rest, UNCHANGED <<disk, cmd, tarball, mixed>>,
           \A c \in Default : (Running(c)' <=> Running(c)) /\ (box[c] = "none" => box'[c] = "none")
    PROVE  Rest'
BY DEF Rest, VolumesAreOneBox, TarballIsOneBox, RestoreInv, ResetInv, BackupInv, Halted

\* A step that has no restore or backup under way when it is done.
LEMMA IdleRest ==
    ASSUME cmd'.at \notin {"tar", "wipe", "untar", "rm"},
           ~mixed' => OneBox(disk'), ~tarball'.mixed => OneBox(tarball'.disk)
    PROVE  Rest'
BY DEF Rest, VolumesAreOneBox, TarballIsOneBox, RestoreInv, ResetInv, BackupInv

LEMMA StartsRest ==
    ASSUME TypeOK, Rest, Starts \/ SetUp
    PROVE  Rest'
<1>1. TypeOK'
  BY StartsType, TroubleType
<1>2. /\ disk \in Disk /\ disk' \in Disk /\ tarball.disk \in Disk /\ cmd.draft \in Disk
      /\ Empty \in Disk
  BY <1>1, EmptyDisk DEF TypeOK, Tarball
<1>3. /\ cmd' = cmd /\ tarball' = tarball /\ mixed' = mixed
      /\ \A c \in Default : (Running(c)' <=> Running(c)) /\ (box[c] = "none" => box'[c] = "none")
  BY StartsKeep
<1>4. Halted' <=> Halted
  BY <1>3 DEF Halted
<1>5. VolumesAreOneBox' /\ TarballIsOneBox'
  BY <1>3, StartsBox DEF Rest, VolumesAreOneBox, TarballIsOneBox
<1>6. ASSUME Halted, NEW v \in Volumes, NEW e, Same(v, disk, e)
      PROVE  Same(v, disk', e)
  BY <1>6, StartsQuiet, Chained
<1>7. RestoreInv'
  BY <1>3, <1>4, <1>6 DEF Rest, RestoreInv
<1>r. ResetInv'
  BY <1>3, <1>4, <1>6 DEF Rest, ResetInv
<1>8. BackupInv'
  <2>1. ASSUME Halted, NEW v \in Volumes, Same(v, cmd.draft, disk)
        PROVE  Same(v, cmd.draft, disk')
    BY <2>1, StartsQuiet DEF Same
  <2> QED
    BY <1>3, <1>4, <2>1 DEF Rest, BackupInv
<1> QED
  BY <1>5, <1>7, <1>r, <1>8 DEF Rest

LEMMA UpRest ==
    ASSUME TypeOK, Rest, NEW voice, NEW dropped, Up(voice, dropped)
    PROVE  Rest'
<1>1. cmd'.at = "init" /\ UNCHANGED <<disk, tarball, mixed>>
  BY DEF Up, TypeOK
<1> QED
  BY <1>1, IdleRest DEF Rest, VolumesAreOneBox, TarballIsOneBox

LEMMA TroubleRest ==
    ASSUME TypeOK, Rest, Trouble \/ Composes
    PROVE  Rest'
<1>1. CASE Fails
  <2>1. cmd'.at = "idle" /\ UNCHANGED <<disk, tarball, mixed>>
    BY <1>1 DEF Fails, Idle
  <2> QED
    BY <2>1, IdleRest DEF Rest, VolumesAreOneBox, TarballIsOneBox
<1>2. CASE Ages
  BY <1>2, KeepsRest DEF Ages, host, Running
<1>3. ASSUME NEW c \in Containers, Crashes(c) PROVE Rest'
  BY <1>3, KeepsRest DEF Crashes, host, Running, TypeOK, Containers
<1>4. ASSUME NEW c \in Containers, Compose(c) PROVE Rest'
  <2>1. cmd'.at \notin {"tar", "wipe", "untar", "rm"} /\ UNCHANGED <<disk, tarball, mixed>>
    BY <1>4 DEF Compose, host
  <2> QED
    BY <2>1, IdleRest DEF Rest, VolumesAreOneBox, TarballIsOneBox
<1>5. CASE UpHalfDone
  BY <1>5, UpRest DEF UpHalfDone
<1> QED
  BY <1>1, <1>2, <1>3, <1>4, <1>5 DEF Trouble, Composes

LEMMA CommandsRest ==
    ASSUME TypeOK, Rest, Commands
    PROVE  Rest'
<1>1. CASE Down \/ Stop \/ Start \/ Restart
  <2>1. cmd'.at \in {"idle", "reinit"} /\ UNCHANGED <<disk, tarball, mixed>>
    BY <1>1 DEF Down, Stop, Start, Restart, Given, TypeOK
  <2> QED
    BY <2>1, IdleRest DEF Rest, VolumesAreOneBox, TarballIsOneBox
<1>2. CASE Backup
  <2>1. UNCHANGED <<disk, tarball, mixed>>
    BY <1>2 DEF Backup
  <2>2. CASE cmd' = cmd
    <3>1. cmd'.at = "idle"
      BY <1>2, <2>2 DEF Backup, Given
    <3> QED
      BY <2>1, <3>1, IdleRest DEF Rest, VolumesAreOneBox, TarballIsOneBox
  <2>3. CASE cmd' # cmd
    <3>1. PICK off \in SUBSET Default :
            /\ box' = Stopped(off) /\ (off = Default \/ ~Running("postgres"))
            /\ cmd' = [cmd EXCEPT !.at = "tar", !.left = Volumes, !.was = Running("postgres")]
      BY <1>2, <2>3 DEF Backup
    <3>2. cmd'.at = "tar" /\ cmd'.left = Volumes /\ (cmd'.was <=> Running("postgres"))
      BY <3>1 DEF TypeOK, Running
    <3>3. Running("postgres") => Halted'
      BY <3>1 DEF Stopped, Halted, Running, Containers, Default
    <3> QED
      BY <2>1, <3>2, <3>3
         DEF Rest, VolumesAreOneBox, TarballIsOneBox, RestoreInv, ResetInv, BackupInv
  <2> QED
    BY <2>2, <2>3
<1>3. CASE Restore
  <2>1. /\ UNCHANGED <<disk, tarball, mixed>>
        /\ cmd'.at = "wipe" /\ cmd'.left = Volumes /\ (~cmd'.spoilt => Halted')
    BY <1>3 DEF Restore, TypeOK, Halted
  <2> QED
    BY <2>1 DEF Rest, VolumesAreOneBox, TarballIsOneBox, RestoreInv, ResetInv, BackupInv
<1>4. CASE Reset
  <2>1. UNCHANGED <<disk, tarball, mixed>> /\ cmd.at = "idle"
    BY <1>4 DEF Reset, Given
  <2>2. PICK off \in SUBSET Default, gone \in SUBSET Default :
          /\ box' = Without(gone, Stopped(off))
          /\ cmd' = IF gone = Default THEN [cmd EXCEPT !.at = "rm", !.left = Volumes] ELSE cmd
    BY <1>4 DEF Reset
  <2>3. CASE gone = Default
    <3>1. cmd'.at = "rm" /\ cmd'.left = Volumes
      BY <2>2, <2>3 DEF TypeOK
    <3>2. Halted'
      BY <2>2, <2>3 DEF Halted, Running, Without, Containers
    <3> QED
      BY <2>1, <3>1, <3>2
         DEF Rest, VolumesAreOneBox, TarballIsOneBox, RestoreInv, ResetInv, BackupInv
  <2>4. CASE gone # Default
    BY <2>1, <2>2, <2>4, IdleRest DEF Rest, VolumesAreOneBox, TarballIsOneBox
  <2> QED
    BY <2>3, <2>4
<1> QED
  BY <1>1, <1>2, <1>3, <1>4 DEF Commands

LEMMA BackupRest ==
    ASSUME TypeOK, Rest, BackupEnds \/ \E v \in Volumes : Tars(v)
    PROVE  Rest'
<1>1. disk \in Disk /\ cmd.draft \in Disk
  BY DEF TypeOK
<1>2. CASE BackupEnds
  <2>1. cmd.at = "tar" /\ cmd.left = {}
    BY <1>2 DEF BackupEnds
  <2>2. UNCHANGED <<disk, mixed>> /\ cmd'.at \in {"idle", "reinit"}
    BY <1>2 DEF BackupEnds, Idle
  <2>3. tarball'.disk = cmd.draft
        /\ (~tarball'.mixed => ~mixed /\ (cmd.was \/ \A c \in Default : ~Running(c)))
    BY <1>2 DEF BackupEnds
  <2>4. ASSUME ~tarball'.mixed PROVE OneBox(cmd.draft)
    <3>1. Halted
      BY <2>1, <2>3, <2>4 DEF Rest, BackupInv, Halted
    <3>2. \A v \in Volumes : Same(v, cmd.draft, disk)
      BY <2>1, <3>1 DEF Rest, BackupInv
    <3> QED
      BY <1>1, <2>3, <2>4, <3>2, SameIsOneBox DEF Rest, VolumesAreOneBox
  <2> QED
    BY <2>2, <2>3, <2>4, IdleRest DEF Rest, VolumesAreOneBox
<1>3. ASSUME NEW v \in Volumes, Tars(v) PROVE Rest'
  <2>1. /\ UNCHANGED <<disk, box, tarball, mixed>> /\ cmd.at = "tar" /\ cmd'.at = "tar"
        /\ cmd'.was = cmd.was /\ cmd'.left = cmd.left \ {v}
        /\ cmd'.draft = [cmd.draft EXCEPT ![v] = disk[v]]
    BY <1>3 DEF Tars, TypeOK
  <2>2. cmd'.draft \in Disk /\ cmd'.draft[v] = disk[v]
    BY <1>1, <2>1, VolumeReplaced DEF Disk, Volumes
  <2>3. ASSUME Halted, NEW w \in Volumes \ cmd'.left PROVE Same(w, cmd'.draft, disk)
    <3>1. CASE w = v
      BY <1>1, <2>2, <3>1, SameVolume
    <3>2. CASE w # v
      <4>1. w \in Volumes \ cmd.left
        BY <2>1, <3>2
      <4>2. cmd'.draft[w] = cmd.draft[w]
        BY <1>1, <2>1, <3>2, Elsewhere
      <4>3. Same(w, cmd'.draft, cmd.draft)
        BY <1>1, <2>2, <4>2, SameVolume
      <4> QED
        BY <2>1, <2>3, <4>1, <4>3, Chained DEF Rest, BackupInv
    <3> QED
      BY <3>1, <3>2
  <2>4. Halted' <=> Halted
    BY <2>1 DEF Halted, Running
  <2> QED
    BY <2>1, <2>3, <2>4 DEF Rest, VolumesAreOneBox, TarballIsOneBox, RestoreInv, ResetInv, BackupInv
<1> QED
  BY <1>2, <1>3

LEMMA RestoreRest ==
    ASSUME TypeOK, Rest, WipeEnds \/ RestoreEnds \/ \E v \in Volumes : Wipes(v) \/ Untars(v)
    PROVE  Rest'
<1>1. disk \in Disk /\ tarball.disk \in Disk /\ Empty \in Disk /\ cmd.left \subseteq Volumes
  BY EmptyDisk DEF TypeOK, Tarball
<1>2. CASE WipeEnds
  <2>1. /\ UNCHANGED <<disk, box, tarball, mixed>> /\ cmd.at = "wipe" /\ cmd.left = {}
        /\ cmd'.at = "untar" /\ cmd'.left = Volumes
    BY <1>2 DEF WipeEnds, TypeOK
  <2>2. cmd'.spoilt = cmd.spoilt /\ (Halted' <=> Halted)
    BY <1>2, <2>1 DEF WipeEnds, TypeOK, Halted, Running
  <2>3. mixed
    BY <2>1 DEF Rest, RestoreInv, Volumes
  <2> QED
    BY <2>1, <2>2, <2>3 DEF Rest, VolumesAreOneBox, TarballIsOneBox, RestoreInv, ResetInv, BackupInv
<1>3. CASE RestoreEnds
  <2>1. /\ UNCHANGED <<disk, tarball>> /\ cmd'.at = "idle"
        /\ (~mixed' => ~tarball.mixed /\ ~cmd.spoilt)
        /\ cmd.at = "untar" /\ cmd.left = {}
    BY <1>3 DEF RestoreEnds, Idle
  <2>2. ~cmd.spoilt => \A v \in Volumes : Same(v, disk, tarball.disk)
    BY <2>1 DEF Rest, RestoreInv
  <2>3. ~mixed' => OneBox(disk)
    BY <1>1, <2>1, <2>2, SameIsOneBox DEF Rest, TarballIsOneBox
  <2> QED
    BY <2>1, <2>3, IdleRest DEF Rest, TarballIsOneBox
<1>4. ASSUME NEW v \in Volumes, Wipes(v) PROVE Rest'
  <2>1. PICK kept : /\ disk' = Wiped(v, kept)
                    /\ cmd' = [cmd EXCEPT !.left = @ \ {v}, !.spoilt = @ \/ kept # {}]
    BY <1>4 DEF Wipes
  <2>2. /\ UNCHANGED <<box, tarball>> /\ mixed' /\ cmd.at = "wipe" /\ cmd'.at = "wipe"
        /\ cmd'.left = cmd.left \ {v} /\ (~cmd'.spoilt => ~cmd.spoilt /\ kept = {})
    BY <1>4, <2>1 DEF Wipes, TypeOK
  <2>3. disk' \in Disk
    BY <1>1, <2>1, WipedTyped
  <2>4. ASSUME ~cmd'.spoilt, NEW w \in Volumes \ cmd'.left PROVE Same(w, disk', Empty)
    <3>1. CASE w = v
      <4>1. disk'[v] = Empty[v]
        BY <1>1, <2>1, <2>2, <2>4, WipedClean
      <4> QED
        BY <1>1, <2>3, <3>1, <4>1, SameVolume
    <3>2. CASE w # v
      <4>1. w \in Volumes \ cmd.left /\ disk'[w] = disk[w]
        BY <1>1, <2>1, <2>2, <3>2, Elsewhere DEF Wiped
      <4>2. Same(w, disk', disk)
        BY <1>1, <2>3, <4>1, SameVolume
      <4> QED
        BY <2>2, <2>4, <4>1, <4>2, Chained DEF Rest, RestoreInv
    <3> QED
      BY <3>1, <3>2
  <2>5. ~cmd'.spoilt => Halted'
    BY <2>2 DEF Rest, RestoreInv, Halted, Running
  <2> QED
    BY <2>2, <2>4, <2>5 DEF Rest, VolumesAreOneBox, TarballIsOneBox, RestoreInv, ResetInv, BackupInv
<1>5. ASSUME NEW v \in Volumes, Untars(v) PROVE Rest'
  <2>1. /\ UNCHANGED <<box, tarball, mixed>> /\ cmd.at = "untar" /\ cmd'.at = "untar"
        /\ v \in cmd.left /\ cmd'.left = cmd.left \ {v} /\ cmd'.spoilt = cmd.spoilt
        /\ disk' = [disk EXCEPT ![v] = Over(tarball.disk[v], @)]
    BY <1>5 DEF Untars, TypeOK
  <2>2. disk' \in Disk /\ (Same(v, disk, Empty) => Same(v, disk', tarball.disk))
    BY <1>1, <2>1, Unpacked
  <2>3. ASSUME ~cmd.spoilt, NEW w \in Volumes
        PROVE  Same(w, disk', IF w \in cmd'.left THEN Empty ELSE tarball.disk)
    <3>1. CASE w = v
      <4>1. Same(v, disk, Empty)
        BY <2>1, <2>3 DEF Rest, RestoreInv
      <4> QED
        BY <2>1, <2>2, <3>1, <4>1
    <3>2. CASE w # v
      <4>1. disk'[w] = disk[w]
        BY <1>1, <2>1, <3>2, Elsewhere
      <4>2. Same(w, disk', disk)
        BY <1>1, <2>2, <4>1, SameVolume
      <4>3. Same(w, disk, IF w \in cmd'.left THEN Empty ELSE tarball.disk)
        BY <2>1, <2>3, <3>2 DEF Rest, RestoreInv
      <4> QED
        BY <4>2, <4>3, Chained
    <3> QED
      BY <3>1, <3>2
  <2>4. Halted' <=> Halted
    BY <2>1 DEF Halted, Running
  <2> QED
    BY <2>1, <2>3, <2>4 DEF Rest, VolumesAreOneBox, TarballIsOneBox, RestoreInv, ResetInv, BackupInv
<1> QED
  BY <1>2, <1>3, <1>4, <1>5

\* A reset that has removed the last volume left an empty box, or the volume that voice
\* services held.
LEMMA ResetRest ==
    ASSUME TypeOK, Rest, ResetEnds \/ \E v \in Volumes : Removes(v)
    PROVE  Rest'
<1>1. disk \in Disk /\ Empty \in Disk /\ cmd.left \subseteq Volumes
  BY EmptyDisk DEF TypeOK
<1>2. CASE ResetEnds
  <2>1. UNCHANGED <<disk, tarball, mixed>> /\ cmd'.at = "idle"
    BY <1>2 DEF ResetEnds, Idle
  <2> QED
    BY <2>1, IdleRest DEF Rest, VolumesAreOneBox, TarballIsOneBox
<1>3. ASSUME NEW v \in Volumes, Removes(v) PROVE Rest'
  <2>1. /\ UNCHANGED <<box, tarball>> /\ cmd.at = "rm" /\ cmd'.at = "rm"
        /\ v \in cmd.left /\ cmd'.left = cmd.left \ {v}
        /\ disk' = IF Held(v) THEN disk ELSE [disk EXCEPT ![v] = Empty[v]]
        /\ (~mixed' => cmd'.left = {} /\ disk'.shared = Empty.shared)
    BY <1>3 DEF Removes, TypeOK
  <2>2. disk' \in Disk
    BY <1>1, <2>1, VolumeReplaced
  <2>3. ASSUME NEW w \in Volumes \ (cmd'.left \cup {"shared"}) PROVE Same(w, disk', Empty)
    <3>1. CASE w = v
      <4>1. disk'[v] = Empty[v]
        BY <1>1, <2>1, <2>3, <3>1 DEF Held, Disk, Volumes
      <4> QED
        BY <1>1, <2>2, <3>1, <4>1, SameVolume
    <3>2. CASE w # v
      <4>1. w \in Volumes \ (cmd.left \cup {"shared"}) /\ disk'[w] = disk[w]
        BY <1>1, <2>1, <3>2, Elsewhere
      <4>2. Same(w, disk', disk)
        BY <1>1, <2>2, <4>1, SameVolume
      <4> QED
        BY <2>1, <4>1, <4>2, Chained DEF Rest, ResetInv
    <3> QED
      BY <3>1, <3>2
  <2>4. ASSUME ~mixed' PROVE OneBox(disk')
    <3>1. \A w \in Volumes : Same(w, disk', Empty)
      BY <1>1, <2>1, <2>2, <2>3, <2>4, SameVolume
    <3> QED
      BY <1>1, <2>2, <3>1, SameIsOneBox, EmptyDisk
  <2>5. Halted'
    BY <2>1 DEF Rest, ResetInv, Halted, Running
  <2>6. mixed' \/ cmd'.left = {}
    BY <2>1
  <2> QED
    BY <2>1, <2>3, <2>4, <2>5, <2>6
       DEF Rest, VolumesAreOneBox, TarballIsOneBox, RestoreInv, ResetInv, BackupInv
<1> QED
  BY <1>2, <1>3

LEMMA GoesRest ==
    ASSUME TypeOK, Rest, Goes
    PROVE  Rest'
<1>1. CASE InitRuns
  <2>1. /\ UNCHANGED <<tarball, mixed>> /\ cmd'.at \in {"up", "start"}
        /\ disk' = [disk EXCEPT !.shared.pw = Password(disk.shared.pw)]
    BY <1>1 DEF InitRuns, TypeOK
  <2>2. OneBox(disk) => OneBox(disk')
    BY <2>1 DEF OneBox, Password, TypeOK, Disk
  <2> QED
    BY <2>1, <2>2, IdleRest DEF Rest, VolumesAreOneBox, TarballIsOneBox
<1>2. CASE AllHealthy \/ StartRefused
  <2>1. cmd'.at = "idle" /\ UNCHANGED <<disk, tarball, mixed>>
    BY <1>2 DEF AllHealthy, StartRefused, Idle
  <2> QED
    BY <2>1, IdleRest DEF Rest, VolumesAreOneBox, TarballIsOneBox
<1> QED
  BY <1>1, <1>2, BackupRest, RestoreRest, ResetRest DEF Goes

\* The volumes, the tarball and what a backup, a restore or a reset has done so far stay
\* in accord, whatever fails in between; what a restore did over an error that it ignored
\* is excepted.
THEOREM StackInvariant == Spec => []StackInv
<1>1. Init => TypeOK /\ Rest
  BY InitType, InitRest
<1>2. TypeOK /\ Rest /\ [Next]_vars => (TypeOK /\ Rest)'
  <2> SUFFICES ASSUME TypeOK, Rest, [Next]_vars PROVE Rest'
    BY NextType
  <2>1. CASE UNCHANGED vars
    BY <2>1, KeepsRest DEF vars, layers, host, Running
  <2> QED
    BY <2>1, StartsRest, TroubleRest, UpRest, CommandsRest, GoesRest DEF Next, UpAsMeant
<1>3. TypeOK /\ Rest <=> StackInv
  BY DEF Rest, StackInv
<1> QED
  BY <1>1, <1>2, <1>3, PTL DEF Spec

\* Synapse's name is Tor's onion, its database opens and its owner is this box's, wherever
\* commands fail, unless a restore or a reset was cut short among the volumes, left one
\* behind, or went on over an error, and none has gone through since.
THEOREM OneBoxAlways == Spec => []VolumesAreOneBox
<1>1. StackInv => VolumesAreOneBox
  BY DEF StackInv
<1> QED
  BY <1>1, StackInvariant, PTL

\* A backup is of one box, unless its volumes were not, for the reasons OneBoxAlways
\* excepts, or it was taken beside a stack whose Postgres did not run.
THEOREM OneBoxBackedUp == Spec => []TarballIsOneBox
<1>1. StackInv => TarballIsOneBox
  BY DEF StackInv
<1> QED
  BY <1>1, StackInvariant, PTL

\* A restore that ends brought back every volume as it was saved, and nothing else, unless
\* it ignored that containers ran or that files could not be deleted.
THEOREM BackAsItWas == Spec => RestoredExactly
<1>1. StackInv /\ [Next]_vars =>
        [RestoreEnds /\ ~cmd.spoilt => \A v \in Volumes : Same(v, disk, tarball.disk)]_vars
  BY DEF StackInv, RestoreInv, RestoreEnds
<1> QED
  BY <1>1, StackInvariant, PTL DEF Spec, RestoredExactly
=============================================================================
