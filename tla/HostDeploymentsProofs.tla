------------------------ MODULE HostDeploymentsProofs ------------------------
(* Proofs about HostDeployments.                                           *)
EXTENDS HostDeployments, TLAPS

-----------------------------------------------------------------------------
(* What holds of every state, whoever runs.                                *)

\* A run of a deployment: what is left to write is a part of what it
\* deploys, shorter once a tag was written, and empty when it starts them.
JobShape ==
    job # Idle =>
        /\ Members(job.todo) \subseteq Members(job.order)
        /\ Len(job.todo) <= Len(job.order)
        /\ job.pc \in {"read", "backup"} => job.todo = job.order
        /\ job.pc \in {"rewrite", "move"} => job.todo # <<>>
        /\ job.pc \in {"up", "restore", "retry"} => job.todo = <<>>

\* A run of the switch: the same of the keys.
SwitchShape ==
    \A o \in Operators : Switching(o) =>
        /\ switch[o].pc \in {"upsert", "move"} => switch[o].todo # <<>>
        /\ switch[o].pc = "replay" => switch[o].mode = "replay"
        /\ switch[o].pc = "stop" => switch[o].mode = "live"

\* A run of deploy-infra that installs has a part to install.
InfraShape == infra.pc = "install" => infra.todo # <<>>

\* The domain of switch, which TypeOK leaves open.
SwitchTable == switch = [o \in Operators |-> switch[o]]

\* The parts of TypeOK: runs, counters, flags.
JobOK ==
    job \in {Idle} \cup
        [pc : Stages, order : Orders, tag : Tags, todo : Seq(Services),
         backup : Env, temp : Env]
SwitchesOK ==
    \A o \in Operators :
        switch[o] \in {Off} \cup
            [pc : SwitchStages, mode : Modes, todo : Seq(ModeKeys),
             backup : Env, temp : Env]
InfraOK ==
    /\ infra \in {NoInfra} \cup
           [pc : InfraStages, release : Releases, todo : Seq(Parts),
            backup : [Parts -> Releases],
            oldImage : Releases \cup {NoImage},
            listed : SUBSET (Services \cup {"replay"})]
    /\ released \in SUBSET Releases
LockOK ==
    /\ lock = "service" <=> job # Idle
    /\ lock = "infra" <=> infra # NoInfra
CountersOK ==
    /\ launched \in 0..MaxDeploys /\ switched \in 0..MaxSwitches
    /\ installed \in 0..MaxInfra
FlagsOK ==
    /\ unfinished \in BOOLEAN /\ overlap \in BOOLEAN
    /\ aborted \in BOOLEAN /\ lost \in BOOLEAN /\ missed \in BOOLEAN

ShapeInv ==
    /\ HostTypeOK /\ JobOK /\ SwitchesOK /\ InfraOK /\ LockOK
    /\ JobShape /\ SwitchShape /\ SwitchTable /\ InfraShape

-----------------------------------------------------------------------------
(* The bundle and the replay image.                                        *)

OneRelease(files) == \E r \in released : \A p \in BackedUp : files[p] = r

\* While a run of deploy-infra is under way, the parts it has passed are of
\* its release, and its backups are of one release that was deployed.
BundleInv ==
    /\ infra = NoInfra /\ ~ aborted => OneRelease(disk)
    /\ infra # NoInfra =>
          /\ ~ aborted => OneRelease(infra.backup)
          /\ infra.pc = "install" =>
                \A p \in Parts \ Members(infra.todo) :
                   disk[p] = infra.release
          /\ infra.pc \in {"build", "reconcile"} =>
                \A p \in Parts : disk[p] = infra.release
          /\ infra.pc = "again" =>
                \A p \in BackedUp : disk[p] = infra.backup[p]

\* The release that replay came with, when no run has left it behind.
InStep == ~ aborted /\ ~ lost /\ ~ missed

\* An image of a release that was deployed, and of the bundle a run found.
Came(release) ==
    /\ ~ lost => release \in released
    /\ InStep => release = infra.backup["compose"]

ReplayKept(files) ==
    /\ ~ lost => image \in released
    /\ ~ lost /\ replay # "down" => replay = image
    /\ InStep /\ replay # "down" => replay = files["compose"]

\* Until the first switch of the mode: replay, when it is up, and its image
\* are of a release that was deployed, and of that of the bundle, or of the
\* run that is under way; what that run puts back is what it found.
ReplayInv ==
    /\ infra = NoInfra => ReplayKept(disk)
    /\ infra # NoInfra =>
          /\ ReplayListed => replay # "down"
          /\ ~ ReplayListed => infra.oldImage = NoImage
          /\ infra.pc \in {"install", "build"} \/ ~ ReplayListed =>
                ReplayKept(infra.backup)
          /\ infra.pc \in {"reconcile", "restore"} /\ ReplayListed
               /\ infra.oldImage # NoImage => Came(infra.oldImage)
          /\ infra.pc = "reconcile" /\ ReplayListed =>
                image = infra.release
          /\ infra.pc = "again" /\ ReplayListed => Came(image)

-----------------------------------------------------------------------------
(* The tags, while scripts do not overlap.                                 *)

Settled(S) ==
    \A s \in S \ suspect : container[s][s] = env[s] /\ s \in verified

NoSwitch == \A o \in Operators : ~ Switching(o)

\* What the run of a deployment leaves alone, has written, and can put back.
JobSettled ==
    job # Idle =>
        /\ Settled(Services \ Members(job.order))
        /\ job.pc \in {"read", "backup", "publish"} \/ job.todo = job.order
              => Settled(Services)
JobTemp ==
    job.pc = "move" => job.temp = [env EXCEPT ![Head(job.todo)] = job.tag]
JobMoved ==
    /\ job.pc \in {"rewrite", "move", "up"} =>
          \A s \in Members(job.order) \ Members(job.todo) : env[s] = job.tag
    /\ job.pc = "publish" => \A s \in Members(job.order) : env[s] = job.tag
JobBackup ==
    /\ job.pc \in {"rewrite", "move", "up", "restore", "retry"} =>
          \A k \in (Services \cup ModeKeys) \ Members(job.order) :
             job.backup[k] = env[k]
    /\ job.pc = "retry" => env = job.backup

JobTags == JobSettled /\ JobTemp /\ JobMoved /\ JobBackup

InfraTags ==
    /\ infra # NoInfra => Settled(Services \ infra.listed)
    /\ infra # NoInfra /\ infra.pc \in {"install", "build", "reconcile"} =>
          Settled(Services)

SwitchRunTags(o) ==
    /\ Settled(Services \ {"backend-ai"})
    /\ switch[o].pc \notin {"restore", "restart"} => Settled(Services)
    /\ \A s \in Services : switch[o].backup[s] = env[s]
    /\ switch[o].pc = "move" =>
          switch[o].temp =
              [env EXCEPT ![Head(switch[o].todo)] = switch[o].mode]
SwitchTags == \A o \in Operators : Switching(o) => SwitchRunTags(o)

TagsBody ==
    /\ lock = "free" /\ NoSwitch => Settled(Services)
    /\ JobTags /\ InfraTags /\ SwitchTags

TagsInv == ~ overlap => ~ Overlapping /\ TagsBody

-----------------------------------------------------------------------------
(* The mode, while scripts do not overlap.                                 *)

WiredKeys == Interpolated("backend-ai") \cap ModeKeys

ModeOfKeys(e, m) ==
    /\ \A k \in ModeKeys : e[k] = m
    /\ m = "replay" => replay # "down"

Wires(m) == \A k \in WiredKeys : container["backend-ai"][k] = m

SwitchMode(o) ==
    /\ switch[o].pc \in {"upsert", "move", "replay", "backend-ai", "stop"} =>
          \A k \in ModeKeys \ Members(switch[o].todo) :
             env[k] = switch[o].mode
    /\ switch[o].pc \in {"replay", "backend-ai", "stop"} =>
          switch[o].todo = <<>>
    /\ switch[o].pc = "backend-ai" /\ switch[o].mode = "replay" =>
          replay # "down"
    /\ switch[o].pc = "stop" => Wires(switch[o].mode)
    /\ switch[o].pc = "restart" /\ ~ unfinished => env = switch[o].backup
    /\ ~ unfinished => \E m \in Modes : ModeOfKeys(switch[o].backup, m)

ModeBody ==
    /\ NoSwitch /\ ~ unfinished =>
          \E m \in Modes : ModeOfKeys(env, m) /\ Wires(m)
    /\ \A o \in Operators : Switching(o) => SwitchMode(o)

ModeInv == ~ overlap => ModeBody

-----------------------------------------------------------------------------
(* Sequences.                                                              *)

\* What is left of a sequence: its head is a member, its tail is shorter and
\* has every other member.
LEMMA TailOf ==
    ASSUME NEW S, NEW q \in Seq(S), q # <<>>
    PROVE  /\ Head(q) \in Members(q) /\ Head(q) \in S
           /\ Tail(q) \in Seq(S) /\ Len(Tail(q)) = Len(q) - 1
           /\ Len(q) \in Nat /\ (Tail(q) = <<>> <=> Len(q) = 1)
           /\ Members(q) = {Head(q)} \cup Members(Tail(q))
<1> DEFINE n == Len(q)
<1>1. n \in Nat /\ n # 0
  OBVIOUS
<1>2. /\ Head(q) = q[1] /\ Tail(q) \in Seq(S) /\ Len(Tail(q)) = n - 1
      /\ \A i \in 1..(n - 1) : Tail(q)[i] = q[i + 1]
  OBVIOUS
<1>3. q[1] \in Members(q) /\ q[1] \in S
  BY <1>1 DEF Members
<1>4. ASSUME NEW x \in Members(q), x # q[1] PROVE x \in Members(Tail(q))
  <2>1. PICK i \in 1..n : x = q[i]
    BY DEF Members
  <2>2. i - 1 \in 1..(n - 1) /\ Tail(q)[i - 1] = q[(i - 1) + 1]
    BY <1>1, <1>2, <1>4, <2>1
  <2>3. Tail(q)[i - 1] = x
    BY <1>1, <2>1, <2>2
  <2> QED
    BY <1>2, <2>2, <2>3 DEF Members
<1>5. ASSUME NEW x \in Members(Tail(q)) PROVE x \in Members(q)
  <2>1. PICK i \in 1..(n - 1) : x = Tail(q)[i]
    BY <1>2 DEF Members
  <2>2. i + 1 \in 1..n /\ x = q[i + 1]
    BY <1>1, <1>2, <2>1
  <2> QED
    BY <2>2 DEF Members
<1>6. Tail(q) = <<>> <=> Len(q) = 1
  BY <1>1, <1>2
<1>7. Members(q) = {Head(q)} \cup Members(Tail(q))
  BY <1>2, <1>3, <1>4, <1>5
<1> QED
  BY <1>1, <1>2, <1>3, <1>6, <1>7

\* The members of a sequence over S are in S.
LEMMA MembersIn ==
    ASSUME NEW S, NEW q \in Seq(S) PROVE Members(q) \subseteq S
  BY DEF Members

\* The empty sequence has no members, and is the one of length 0.
LEMMA NoMembers ==
    /\ Members(<<>>) = {}
    /\ \A S : \A q \in Seq(S) : Len(q) = 0 <=> q = <<>>
  BY DEF Members

\* The orders of a bundle and of the mode are over the parts and the keys.
LEMMA OrdersOf ==
    /\ PartOrder \in Seq(Parts) /\ PartOrder # <<>>
    /\ Members(PartOrder) = Parts
    /\ Parts = {"compose", "deploy-service", "deploy-infra",
                "switch-serving-mode", "replay"}
    /\ BackedUp = {"compose", "deploy-service", "switch-serving-mode"}
    /\ BackedUp \subseteq Parts
    /\ ModeKeyOrder \in Seq(ModeKeys) /\ ModeKeyOrder # <<>>
    /\ Members(ModeKeyOrder) = ModeKeys
<1>1. Parts = {PartOrder[i] : i \in 1..5} /\ Len(PartOrder) = 5
  BY DEF Parts, Members, PartOrder
<1>2. 1..5 = {1, 2, 3, 4, 5} /\ 1..3 = {1, 2, 3}
  OBVIOUS
<1>3. Parts = {"compose", "deploy-service", "deploy-infra",
               "switch-serving-mode", "replay"}
  BY <1>1, <1>2 DEF PartOrder
<1>4. Members(ModeKeyOrder) = {ModeKeyOrder[i] : i \in 1..3}
  BY DEF Members, ModeKeyOrder
<1>5. Members(ModeKeyOrder) = ModeKeys
  BY <1>2, <1>4 DEF ModeKeyOrder, ModeKeys
<1>6. PartOrder \in Seq(Parts) /\ PartOrder # <<>>
  BY <1>3 DEF PartOrder
<1>7. ModeKeyOrder \in Seq(ModeKeys) /\ ModeKeyOrder # <<>>
  BY DEF ModeKeyOrder, ModeKeys
<1>8. BackedUp = {RestoreOrder[i] : i \in 1..3}
  BY DEF BackedUp, Members, RestoreOrder
<1>9. BackedUp = {"compose", "deploy-service", "switch-serving-mode"}
  BY <1>2, <1>8 DEF RestoreOrder
<1> QED
  BY <1>3, <1>5, <1>6, <1>7, <1>9 DEF Parts

\* The orders of the deployments are over services, and not empty.
LEMMA DeployOrders ==
    ASSUME NEW order \in Orders
    PROVE  order \in Seq(Services) /\ order # <<>>
  BY ServiceDeploymentAssumption

-----------------------------------------------------------------------------
(* Types and shapes.                                                       *)

ContainersOK ==
    /\ DOMAIN container = Services
    /\ \A s \in Services :
          container[s] \in [Interpolated(s) -> Tags \cup Modes]

\* A tag written for a service, or a mode for a key, leaves an .env file.
LEMMA EnvWrites ==
    ASSUME NEW e \in Env
    PROVE  /\ \A s \in Services, t \in Tags : [e EXCEPT ![s] = t] \in Env
           /\ \A k \in ModeKeys, m \in Modes : [e EXCEPT ![k] = m] \in Env
  BY HostAssumption DEF Env

\* What Compose reads for a service is in .env.
LEMMA ConfigOK ==
    ASSUME env \in Env, NEW s \in Services
    PROVE  Config(s) \in [Interpolated(s) -> Tags \cup Modes]
  BY DEF Env, Config, Interpolated, ModeKeys

\* The containers, after some of them were recreated.
LEMMA RecreatedOK ==
    ASSUME env \in Env, ContainersOK, NEW done, Recreate(done)
    PROVE  ContainersOK'
  BY ConfigOK DEF ContainersOK, Recreate

\* What a start of services changes, whether it succeeds or not.
LEMMA StartsOK ==
    ASSUME env \in Env, ContainersOK, verified \in SUBSET Services,
           NEW S \in SUBSET Services, UpSucceeds(S) \/ UpFails(S)
    PROVE  ContainersOK' /\ verified' \in SUBSET Services
<1>1. CASE UpSucceeds(S)
  BY <1>1, RecreatedOK DEF UpSucceeds
<1>2. CASE UpFails(S)
  BY <1>2, RecreatedOK DEF UpFails
<1> QED
  BY <1>1, <1>2

\* The state a host starts in.
LEMMA ShapeInit == Init => ShapeInv
<1> SUFFICES ASSUME Init PROVE ShapeInv
  OBVIOUS
<1> USE DEF Init, HostInit
<1>1. env \in Env
  BY HostAssumption DEF Env
<1>2. ContainersOK
  <2>1. container = [s \in Services |-> Config(s)]
    OBVIOUS
  <2> QED
    BY ONLY <1>1, <2>1, ConfigOK DEF ContainersOK
<1>3. HostTypeOK
  BY <1>1, <1>2 DEF HostTypeOK, ContainersOK
<1>4. /\ job = Idle /\ infra = NoInfra /\ released = {image}
      /\ image \in Releases /\ lock = "free"
      /\ switch = [o \in Operators |-> Off]
  BY <1>3 DEF DeploymentInit, SwitchInit, InfraInit, HostTypeOK
<1> QED
  BY ONLY <1>3, <1>4
  DEF ShapeInv, JobOK, SwitchesOK, InfraOK, LockOK, JobShape, SwitchShape,
      SwitchTable, InfraShape, NoInfra, Switching, Off

\* The steps of the service deployment.
LEMMA ServiceShape ==
    ASSUME ShapeInv, DeploymentNext, UNCHANGED <<switchVars, infraVars>>
    PROVE  ShapeInv'
<1> USE DEF ShapeInv
<1>h. /\ env \in Env /\ ContainersOK /\ verified \in SUBSET Services
      /\ suspect \in SUBSET Services /\ published \in Env
      /\ job # Idle => job \in
            [pc : Stages, order : Orders, tag : Tags, todo : Seq(Services),
             backup : Env, temp : Env]
  BY DEF HostTypeOK, ContainersOK, JobOK
<1>o. job # Idle => Members(job.order) \subseteq Services
  BY <1>h, DeployOrders, MembersIn
<1>s. SwitchesOK' /\ SwitchShape' /\ SwitchTable' /\ InfraOK' /\ InfraShape'
  BY DEF switchVars, infraVars, SwitchesOK, SwitchShape, SwitchTable,
         Switching, InfraOK, InfraShape
<1>1. ASSUME NEW order \in Orders, NEW tag \in Tags, TakeLock(order, tag)
      PROVE  ShapeInv'
  <2>1. order \in Seq(Services) /\ order # <<>>
    BY DeployOrders
  <2>2. HostTypeOK'
    BY <1>1 DEF TakeLock, KeepFiles, HostTypeOK
  <2>3. job' = [pc |-> "read", order |-> order, tag |-> tag,
                todo |-> order, backup |-> env, temp |-> env]
    BY <1>1 DEF TakeLock
  <2>4. JobOK'
    BY <1>h, <2>1, <2>3 DEF JobOK, Stages
  <2>5. JobShape'
    BY <2>1, <2>3 DEF JobShape
  <2>6. LockOK'
    BY <1>1, <2>3 DEF TakeLock, LockOK, Idle, NoInfra, infraVars
  <2> QED
    BY <1>s, <2>2, <2>4, <2>5, <2>6
<1>2. CASE ReadTags
  BY <1>2, <1>h, <1>s
  DEF ReadTags, At, Goto, hostVars, HostTypeOK, JobOK, JobShape, LockOK,
      Idle, Stages, infraVars
<1> DEFINE JobT == [pc : Stages, order : Orders, tag : Tags,
                    todo : Seq(Services), backup : Env, temp : Env]
<1>3. CASE BackUp
  <2>1. job \in JobT /\ job.pc = "backup"
    BY <1>3, <1>h DEF BackUp, At, Idle
  <2>2. job' \in JobT /\ job'.pc = "rewrite" /\ job'.todo = job.todo
        /\ job'.order = job.order /\ job' # Idle
    BY <1>3, <2>1 DEF BackUp, Stages, Idle, HostTypeOK
  <2>3. job.todo # <<>>
    BY <1>3, <2>1, DeployOrders DEF JobShape, At, Idle
  <2>4. JobOK' /\ JobShape'
    BY <2>1, <2>2, <2>3 DEF JobOK, JobShape, Idle
  <2>5. HostTypeOK' /\ LockOK'
    BY <1>3, <2>1, <2>2
    DEF BackUp, hostVars, HostTypeOK, LockOK, infraVars, Idle
  <2> QED
    BY <1>s, <2>4, <2>5
<1>4. CASE RewriteTag
  <2>1. job \in JobT /\ job.pc = "rewrite"
    BY <1>4, <1>h DEF RewriteTag, At, Idle
  <2>2. job.todo # <<>>
    BY <2>1 DEF JobShape, Idle
  <2>3. [env EXCEPT ![Head(job.todo)] = job.tag] \in Env
    BY <2>1, <2>2, <1>h, TailOf, EnvWrites
  <2>4. job' \in JobT /\ job'.pc = "move" /\ job'.todo = job.todo
        /\ job'.order = job.order /\ job' # Idle
    BY <1>4, <2>1, <2>3 DEF RewriteTag, Stages, Idle
  <2>5. JobOK' /\ JobShape'
    BY <2>1, <2>2, <2>4 DEF JobOK, JobShape, Idle
  <2>6. HostTypeOK' /\ LockOK'
    BY <1>4, <2>1, <2>4
    DEF RewriteTag, hostVars, HostTypeOK, LockOK, infraVars, Idle
  <2> QED
    BY <1>s, <2>5, <2>6
<1>5. CASE MoveTag
  <2>1. job \in JobT /\ job.pc = "move"
    BY <1>5, <1>h DEF MoveTag, At, Idle
  <2>2. job.todo # <<>> /\ Members(job.todo) \subseteq Members(job.order)
        /\ Len(job.todo) <= Len(job.order)
    BY <2>1 DEF JobShape, Idle
  <2>3. /\ Tail(job.todo) \in Seq(Services)
        /\ Len(Tail(job.todo)) = Len(job.todo) - 1
        /\ Members(Tail(job.todo)) \subseteq Members(job.order)
    BY <2>1, <2>2, TailOf
  <2>4. /\ job' \in JobT /\ job' # Idle
        /\ job'.todo = Tail(job.todo) /\ job'.order = job.order
        /\ job'.pc = IF Len(job.todo) = 1 THEN "up" ELSE "rewrite"
    BY <1>5, <2>1, <2>3 DEF MoveTag, Stages, Idle
  <2>5. Len(job.todo) \in Nat /\ Len(job.order) \in Nat
        /\ (Tail(job.todo) = <<>> <=> Len(job.todo) = 1)
    BY <2>1, <2>2, TailOf, DeployOrders
  <2>6. JobOK' /\ JobShape'
    BY <2>1, <2>2, <2>3, <2>4, <2>5 DEF JobOK, JobShape, Idle
  <2>7. HostTypeOK' /\ LockOK'
    BY <1>5, <2>1, <2>4
    DEF MoveTag, KeepFiles, HostTypeOK, LockOK, infraVars, Idle
  <2> QED
    BY <1>s, <2>6, <2>7
<1>6. CASE Start
  BY <1>6, <1>h, <1>s, <1>o, StartsOK
  DEF Start, At, Goto, HostTypeOK, ContainersOK, JobOK, JobShape, LockOK,
      Idle, Stages, infraVars, KeepFiles
<1>7. CASE RestoreTags
  BY <1>7, <1>h, <1>s
  DEF RestoreTags, At, Goto, HostTypeOK, JobOK, JobShape, LockOK,
      Idle, Stages, infraVars, KeepFiles
<1>8. CASE StartAgain
  BY <1>8, <1>h, <1>s, <1>o, StartsOK
  DEF StartAgain, At, Exit, HostTypeOK, ContainersOK, JobOK, JobShape,
      LockOK, Idle, Stages, infraVars, KeepFiles
<1>9. CASE Publish
  BY <1>9, <1>h, <1>s
  DEF Publish, At, Exit, HostTypeOK, JobOK, JobShape, LockOK,
      Idle, Stages, infraVars, KeepFiles
<1>10. CASE KillDeployment
  BY <1>10, <1>h, <1>s, <1>o
  DEF KillDeployment, Exit, HostTypeOK, JobOK, JobShape, LockOK,
      Idle, Stages, infraVars, KeepFiles
<1> QED
  BY <1>1, <1>2, <1>3, <1>4, <1>5, <1>6, <1>7, <1>8, <1>9, <1>10
  DEF DeploymentNext, DeploymentStep

\* Only the run of one operator changes, and stays well formed.
SwitchRun == [pc : SwitchStages, mode : Modes, todo : Seq(ModeKeys),
              backup : Env, temp : Env]
ShapeOfRun(run) ==
    /\ run \in {Off} \cup SwitchRun
    /\ run.pc \in {"upsert", "move"} => run.todo # <<>>
    /\ run.pc = "replay" => run.mode = "replay"
    /\ run.pc = "stop" => run.mode = "live"
OneRun(o) == /\ switch' = [switch EXCEPT ![o] = switch'[o]]
             /\ ShapeOfRun(switch'[o])

\* A step of one well formed run keeps the shape of them all.
LEMMA OneRunChanges ==
    ASSUME SwitchesOK, SwitchShape, SwitchTable, NEW o \in Operators,
           OneRun(o)
    PROVE  SwitchesOK' /\ SwitchShape' /\ SwitchTable'
<1>1. SwitchTable' /\ \A p \in Operators : p # o => switch'[p] = switch[p]
  BY DEF SwitchTable, OneRun
<1>2. SwitchesOK'
  BY <1>1 DEF SwitchesOK, ShapeOfRun, SwitchRun, OneRun
<1>3. SwitchShape'
  BY <1>1 DEF SwitchShape, ShapeOfRun, Switching, OneRun
<1> QED
  BY <1>1, <1>2, <1>3

\* A run that exists has the fields of a run.
LEMMA RunOf ==
    ASSUME SwitchesOK, SwitchTable, NEW o \in Operators
    PROVE  /\ DOMAIN switch = Operators
           /\ switch[o].pc # "off" => Switching(o)
           /\ Switching(o) => switch[o] \in SwitchRun
  BY DEF SwitchesOK, SwitchTable, Switching, Off, SwitchRun

\* The steps of the switch.
LEMMA SwitchStepShape ==
    ASSUME ShapeInv, NEW o \in Operators,
           \/ \E m \in Modes : BeginSwitch(o, m)
           \/ SwitchStep(o) \/ KillSwitch(o),
           UNCHANGED <<jobVars, infraVars>>
    PROVE  ShapeInv'
<1> USE DEF ShapeInv
<1>h. /\ env \in Env /\ ContainersOK /\ verified \in SUBSET Services
      /\ suspect \in SUBSET Services /\ published \in Env
      /\ image \in Releases /\ disk["replay"] \in Releases
      /\ {"backend-ai"} \in SUBSET Services
  BY HostAssumption, OrdersOf DEF HostTypeOK, ContainersOK
<1>j. JobOK' /\ JobShape' /\ InfraOK' /\ InfraShape'
  BY DEF jobVars, infraVars, JobOK, JobShape, InfraOK, InfraShape
<1>q. SUFFICES HostTypeOK' /\ LockOK' /\ OneRun(o)
  BY <1>j, OneRunChanges
<1>d. DOMAIN switch = Operators
  BY RunOf
<1>p. ASSUME NEW stage, stage # "off", AtStep(o, stage)
      PROVE  switch[o] \in SwitchRun /\ Switching(o) /\ switch[o].pc = stage
  BY <1>p, RunOf DEF AtStep
<1>v. ASSUME Leave(o) PROVE OneRun(o)
  BY <1>v, <1>d DEF Leave, OneRun, ShapeOfRun, Off
<1>w. ASSUME NEW stage, Proceed(o, stage), Switching(o),
             stage \in SwitchStages \ {"upsert", "move", "replay"},
             stage = "stop" => switch[o].mode = "live"
      PROVE  OneRun(o)
  <2>1. switch[o] \in SwitchRun
    BY <1>w, RunOf
  <2>2. switch'[o] = [switch[o] EXCEPT !.pc = stage]
    BY <1>w, <1>d DEF Proceed
  <2>3. switch' = [switch EXCEPT ![o] = switch'[o]]
    BY <1>w, <1>d DEF Proceed
  <2> QED
    BY <1>w, <2>1, <2>2, <2>3 DEF OneRun, ShapeOfRun, SwitchRun
<1>1. ASSUME NEW m \in Modes, BeginSwitch(o, m)
      PROVE  HostTypeOK' /\ LockOK' /\ OneRun(o)
  <2>1. HostTypeOK' /\ LockOK'
    BY <1>1 DEF BeginSwitch, hostVars, HostTypeOK, LockOK, jobVars, infraVars
  <2>2. /\ switch' = [switch EXCEPT ![o] = switch'[o]]
        /\ switch'[o] = [pc |-> "upsert", mode |-> m, todo |-> ModeKeyOrder,
                         backup |-> env, temp |-> env]
    BY <1>1, <1>d DEF BeginSwitch
  <2> QED
    BY <2>1, <2>2, <1>h, OrdersOf
    DEF OneRun, ShapeOfRun, SwitchRun, SwitchStages
<1>2. CASE Upsert(o)
  <2>1. HostTypeOK' /\ LockOK'
    BY <1>2 DEF Upsert, hostVars, HostTypeOK, LockOK, jobVars, infraVars
  <2>2. switch[o] \in SwitchRun /\ Switching(o) /\ switch[o].pc = "upsert"
    BY <1>2, <1>p DEF Upsert
  <2>3. switch[o].todo # <<>>
    BY <2>2 DEF SwitchShape
  <2>4. [env EXCEPT ![Head(switch[o].todo)] = switch[o].mode] \in Env
    BY <1>h, <2>2, <2>3, TailOf, EnvWrites DEF SwitchRun
  <2>5. /\ switch' = [switch EXCEPT ![o] = switch'[o]]
        /\ switch'[o] = [switch[o] EXCEPT !.pc = "move", !.temp =
               [env EXCEPT ![Head(switch[o].todo)] = switch[o].mode]]
    BY <1>2, <1>d DEF Upsert
  <2> QED
    BY <2>1, <2>2, <2>3, <2>4, <2>5
    DEF OneRun, ShapeOfRun, SwitchRun, SwitchStages
<1>3. CASE MoveKey(o)
  <2>1. switch[o] \in SwitchRun /\ Switching(o) /\ switch[o].pc = "move"
    BY <1>3, <1>p DEF MoveKey
  <2>2. switch[o].todo # <<>>
    BY <2>1 DEF SwitchShape
  <2>3. HostTypeOK' /\ LockOK'
    BY <1>3, <2>1
    DEF MoveKey, HostTypeOK, LockOK, SwitchRun, jobVars, infraVars
  <2>4. /\ switch' = [switch EXCEPT ![o] = switch'[o]]
        /\ switch'[o] = [switch[o] EXCEPT !.todo = Tail(switch[o].todo),
               !.pc = IF Len(switch[o].todo) > 1 THEN "upsert"
                      ELSE FirstStart(switch[o].mode)]
    BY <1>3, <1>d DEF MoveKey
  <2>6. switch[o].todo \in Seq(ModeKeys)
    BY <2>1 DEF SwitchRun
  <2>7. /\ Tail(switch[o].todo) \in Seq(ModeKeys)
        /\ Len(switch[o].todo) \in Nat
        /\ Tail(switch[o].todo) = <<>> <=> Len(switch[o].todo) = 1
    BY <2>2, <2>6, TailOf
  <2>5. ASSUME Len(switch[o].todo) > 1
        PROVE  Tail(switch[o].todo) # <<>>
    <3> DEFINE n == Len(switch[o].todo)
    <3>1. n \in Nat /\ n > 1
      BY <2>5, <2>7
    <3> HIDE DEF n
    <3>2. n # 1
      BY <3>1
    <3> USE DEF n
    <3> QED
      BY <2>7, <3>2
  <2> QED
    BY <2>1, <2>3, <2>4, <2>5, <2>7
    DEF OneRun, ShapeOfRun, SwitchRun, SwitchStages, FirstStart, Modes
<1>4. CASE FailUpsert(o)
  BY <1>4, <1>p, <1>w
  DEF FailUpsert, SwitchStages, hostVars, HostTypeOK, LockOK, jobVars,
      infraVars
<1>5. CASE BringUpReplay(o)
  <2>1. Switching(o) /\ OneRun(o)
    BY <1>5, <1>p, <1>w DEF BringUpReplay, SwitchStages
  <2>2. HostTypeOK' /\ LockOK'
    BY <1>5, <1>h
    DEF BringUpReplay, KeepHost, HostTypeOK, LockOK, jobVars, infraVars
  <2> QED
    BY <2>1, <2>2
<1>6. CASE BringUpBackendAi(o)
  <2>1. Switching(o) /\ OneRun(o)
    BY <1>6, <1>p, <1>w, <1>v DEF BringUpBackendAi, SwitchStages, Done
  <2>2. HostTypeOK' /\ LockOK'
    BY <1>6, <1>h, StartsOK
    DEF BringUpBackendAi, HostTypeOK, ContainersOK, LockOK, jobVars,
        infraVars
  <2> QED
    BY <2>1, <2>2
<1>7. CASE StopReplayContainer(o)
  BY <1>7, <1>v
  DEF StopReplayContainer, StopReplay, Done, KeepHost, HostTypeOK, LockOK,
      jobVars, infraVars
<1>8. CASE RestoreEnv(o)
  <2>1. Switching(o) /\ OneRun(o) /\ switch[o].backup \in Env
    BY <1>8, <1>p, <1>w DEF RestoreEnv, SwitchStages, SwitchRun
  <2> QED
    BY <1>8, <2>1
    DEF RestoreEnv, HostTypeOK, LockOK, jobVars, infraVars
<1>11. CASE RestoreEnvFails(o)
  <2>1. Switching(o) /\ OneRun(o)
    BY <1>11, <1>p, <1>w DEF RestoreEnvFails, SwitchStages, SwitchRun
  <2> QED
    BY <1>11, <2>1
    DEF RestoreEnvFails, hostVars, HostTypeOK, LockOK, jobVars, infraVars
<1>9. CASE RestartSucceeds(o)
  <2>1. ContainersOK' /\ verified' \in SUBSET Services
    BY <1>9, <1>h, RecreatedOK DEF RestartSucceeds
  <2> QED
    BY <1>9, <1>h, <1>v, <2>1
    DEF RestartSucceeds, LeaveUnchecked, HostTypeOK, ContainersOK, LockOK,
        jobVars, infraVars
<1>10. CASE RestartFails(o) \/ KillSwitch(o)
  BY <1>10, <1>h, <1>v
  DEF RestartFails, KillSwitch, LeaveUnchecked, HostTypeOK, LockOK, jobVars,
      infraVars
<1> QED
  BY <1>1, <1>2, <1>3, <1>4, <1>5, <1>6, <1>7, <1>8, <1>9, <1>10, <1>11
  DEF SwitchStep

\* What the build of the replay image does, when there is one.
LEMMA BuildOf ==
    ASSUME BuildReplay
    PROVE  /\ infra.pc = "build" /\ infra # NoInfra
           /\ UNCHANGED <<env, container, verified, suspect, published, lock,
                          disk, replay, installed, released, aborted, lost,
                          missed>>
           /\ \/ ~ ReplayListed /\ InfraGoto("reconcile") /\ UNCHANGED image
              \/ /\ ReplayListed
                 /\ \E old \in Inspected, stage \in {"reconcile", "restore"} :
                      /\ infra' = [infra EXCEPT !.pc = stage, !.oldImage = old]
                      /\ image' = IF stage = "reconcile" THEN disk["replay"]
                                  ELSE image
<1>1. infra.pc = "build"
  BY Zenon DEF BuildReplay, InfraAt
<1>2. infra # NoInfra
  BY <1>1 DEF NoInfra
<1> QED
  BY <1>1, <1>2, Zenon DEF BuildReplay

\* The steps of deploy-infra.
LEMMA InfraStepShape ==
    ASSUME ShapeInv, InfraNext, UNCHANGED <<jobVars, switchVars>>
    PROVE  ShapeInv'
<1> USE DEF ShapeInv
<1> DEFINE InfraRun ==
        [pc : InfraStages, release : Releases, todo : Seq(Parts),
         backup : [Parts -> Releases],
         oldImage : Releases \cup {NoImage},
         listed : SUBSET (Services \cup {"replay"})]
<1>h. /\ env \in Env /\ ContainersOK /\ verified \in SUBSET Services
      /\ suspect \in SUBSET Services /\ published \in Env
      /\ disk \in [Parts -> Releases] /\ image \in Releases
      /\ replay \in Releases \cup {"down"}
      /\ infra # NoInfra => infra \in InfraRun
  BY DEF HostTypeOK, ContainersOK, InfraOK
<1>s. JobOK' /\ JobShape' /\ SwitchesOK' /\ SwitchShape' /\ SwitchTable'
  BY DEF switchVars, jobVars, SwitchesOK, SwitchShape, SwitchTable,
         Switching, JobOK, JobShape
<1>q. SUFFICES HostTypeOK' /\ InfraOK' /\ InfraShape' /\ LockOK'
  BY <1>s
<1>b. ASSUME BringUpListed \/ BringUpListedFails
      PROVE  /\ ContainersOK' /\ verified' \in SUBSET Services
             /\ replay' \in Releases \cup {"down"}
  <2>1. Listed \in SUBSET Services
    BY DEF Listed
  <2>2. ContainersOK' /\ verified' \in SUBSET Services
    BY <1>b, <1>h, <2>1, StartsOK DEF BringUpListed, BringUpListedFails
  <2>3. replay' \in Releases \cup {"down"}
    BY <1>b, <1>h DEF BringUpListed, BringUpListedFails, StartReplay
  <2> QED
    BY <2>2, <2>3
<1>e. ASSUME infra # NoInfra, LeaveHalfway, UNCHANGED <<released>>
      PROVE  /\ InfraOK' /\ InfraShape' /\ LockOK'
             /\ lock' = "free" /\ suspect' \in SUBSET Services
  BY <1>e, <1>h
  DEF LeaveHalfway, InfraExit, Listed, InfraOK, InfraShape, LockOK, jobVars,
      NoInfra
<1>1. ASSUME NEW r \in Releases, BeginInfra(r)
      PROVE  HostTypeOK' /\ InfraOK' /\ InfraShape' /\ LockOK'
  <2>1. PICK running \in Running :
           infra' = [pc |-> "install", release |-> r, todo |-> PartOrder,
                     backup |-> disk, oldImage |-> NoImage,
                     listed |-> running]
    BY <1>1 DEF BeginInfra
  <2>2. running \in SUBSET (Services \cup {"replay"})
    BY DEF Running
  <2>3. infra' \in InfraRun
    BY <1>h, <2>1, <2>2, OrdersOf DEF InfraStages
  <2>4. InfraOK' /\ InfraShape' /\ infra' # NoInfra
    BY <1>1, <2>1, <2>3, OrdersOf DEF InfraOK, InfraShape, BeginInfra, NoInfra
  <2> QED
    BY <1>1, <2>4 DEF BeginInfra, HostTypeOK, LockOK, jobVars
<1>2. CASE InstallPart
  <2>1. infra \in InfraRun /\ infra.pc = "install"
    BY <1>2, <1>h DEF InstallPart, InfraAt, NoInfra
  <2>2. disk' \in [Parts -> Releases]
    BY <1>2, <1>h, <2>1 DEF InstallPart
  <2>3. /\ Tail(infra.todo) \in Seq(Parts)
        /\ Tail(infra.todo) = <<>> <=> Len(infra.todo) = 1
    BY <2>1, TailOf DEF InfraShape
  <2>4. infra' = [infra EXCEPT !.todo = Tail(infra.todo),
           !.pc = IF Len(infra.todo) = 1 THEN "build" ELSE "install"]
    BY <1>2 DEF InstallPart
  <2>5. infra' \in InfraRun /\ infra' # NoInfra /\ InfraShape'
    BY <2>1, <2>3, <2>4 DEF InfraStages, NoInfra, InfraShape
  <2>6. HostTypeOK'
    BY <1>2, <2>2 DEF InstallPart, HostTypeOK
  <2>7. InfraOK' /\ LockOK'
    BY <1>2, <2>1, <2>5 DEF InstallPart, InfraOK, LockOK, jobVars, NoInfra
  <2> QED
    BY <2>5, <2>6, <2>7
<1>3. CASE InstallFails
  <2>1. infra' = NoInfra /\ lock' = "free" /\ infra # NoInfra
    BY <1>3 DEF InstallFails, InfraExit, InfraAt, NoInfra
  <2>2. HostTypeOK'
    BY <1>3, <1>h, <2>1 DEF InstallFails, HostTypeOK
  <2>3. InfraOK' /\ InfraShape' /\ LockOK'
    BY <1>3, <2>1
    DEF InstallFails, InfraOK, InfraShape, LockOK, jobVars, NoInfra
  <2> QED
    BY <2>2, <2>3
<1>8. CASE KillInfra
  <2>1. CASE InfraExit /\ UNCHANGED <<suspect>>
    <3>1. infra' = NoInfra /\ lock' = "free" /\ infra # NoInfra
      BY <1>8, <2>1 DEF KillInfra, InfraExit
    <3>2. HostTypeOK'
      BY <1>8, <1>h, <2>1, <3>1 DEF KillInfra, HostTypeOK
    <3> QED
      BY <1>8, <3>1, <3>2
      DEF KillInfra, InfraOK, InfraShape, LockOK, jobVars, NoInfra
  <2>2. CASE LeaveHalfway
    BY <1>8, <1>e, <2>2 DEF KillInfra, HostTypeOK
  <2> QED
    BY <1>8, <2>1, <2>2 DEF KillInfra
<1>4. CASE BuildReplay
  <2>1. infra \in InfraRun /\ infra.pc = "build"
    BY <1>4, <1>h, BuildOf
  <2>2. Inspected \subseteq Releases \cup {NoImage}
    BY <1>h DEF Inspected
  <2>3. CASE InfraGoto("reconcile") /\ UNCHANGED image
    <3>1. infra' \in InfraRun /\ infra' # NoInfra /\ InfraShape'
      BY <2>1, <2>3 DEF InfraGoto, InfraStages, NoInfra, InfraShape
    <3> QED
      BY <1>4, <2>1, <2>3, <3>1, BuildOf
      DEF HostTypeOK, InfraOK, LockOK, jobVars, NoInfra
  <2>4. ASSUME NEW old \in Inspected, NEW stage \in {"reconcile", "restore"},
               infra' = [infra EXCEPT !.pc = stage, !.oldImage = old],
               image' = IF stage = "reconcile" THEN disk["replay"] ELSE image
        PROVE  HostTypeOK' /\ InfraOK' /\ InfraShape' /\ LockOK'
    <3>1. infra' \in InfraRun /\ infra' # NoInfra /\ InfraShape'
      BY <2>1, <2>2, <2>4 DEF InfraStages, NoInfra, InfraShape
    <3>2. image' \in Releases
      BY <1>h, <2>4, OrdersOf
    <3> QED
      BY <1>4, <2>1, <3>1, <3>2, BuildOf
      DEF HostTypeOK, InfraOK, LockOK, jobVars, NoInfra
  <2> QED
    BY <1>4, <2>3, <2>4, BuildOf
<1>5. CASE Reconcile
  <2>1. infra \in InfraRun /\ infra.pc = "reconcile"
    BY <1>5, <1>h DEF Reconcile, InfraAt, NoInfra
  <2>2. /\ ContainersOK' /\ verified' \in SUBSET Services
        /\ replay' \in Releases \cup {"down"}
    BY <1>5, <1>b DEF Reconcile
  <2>3. CASE InfraGoto("restore") /\ UNCHANGED <<lock, released, suspect>>
    <3>1. infra' \in InfraRun /\ infra' # NoInfra /\ InfraShape'
      BY <2>1, <2>3 DEF InfraGoto, InfraStages, NoInfra, InfraShape
    <3>2. HostTypeOK'
      BY <1>5, <2>2, <2>3 DEF Reconcile, HostTypeOK, ContainersOK
    <3>3. InfraOK' /\ LockOK'
      BY <2>1, <2>3, <3>1 DEF InfraOK, LockOK, jobVars, NoInfra
    <3> QED
      BY <3>1, <3>2, <3>3
  <2>4. CASE /\ InfraExit /\ suspect' = suspect \ Listed
             /\ released' = released \cup {infra.release}
    <3>1. HostTypeOK'
      BY <1>5, <1>h, <2>2, <2>4
      DEF Reconcile, HostTypeOK, ContainersOK, InfraExit
    <3>2. InfraOK' /\ InfraShape' /\ LockOK'
      BY <1>h, <2>1, <2>4
      DEF InfraOK, InfraShape, LockOK, jobVars, NoInfra, InfraExit
    <3> QED
      BY <3>1, <3>2
  <2> QED
    BY <1>5, <2>3, <2>4 DEF Reconcile
<1>r. ASSUME infra \in InfraRun, NEW parts, PutBack(parts)
      PROVE  disk' \in [Parts -> Releases]
  BY <1>h, <1>r DEF PutBack
<1>6. CASE RestoreBundle
  <2>1. infra \in InfraRun /\ infra.pc = "restore"
    BY <1>6, <1>h DEF RestoreBundle, InfraAt, NoInfra
  <2>2. infra' \in InfraRun /\ infra' # NoInfra /\ InfraShape'
    BY <1>6, <2>1
    DEF RestoreBundle, InfraGoto, InfraStages, NoInfra, InfraShape
  <2>3. disk' \in [Parts -> Releases] /\ image' \in Releases
    BY <1>6, <1>h, <1>r, <2>1 DEF RestoreBundle, RestoreImage
  <2>4. HostTypeOK'
    BY <1>6, <2>3 DEF RestoreBundle, HostTypeOK
  <2>5. UNCHANGED <<lock, released>> /\ infra # NoInfra
    BY <1>6, <2>1 DEF RestoreBundle, NoInfra
  <2>6. InfraOK' /\ LockOK'
    BY <2>2, <2>5 DEF InfraOK, LockOK, jobVars
  <2> QED
    BY <2>2, <2>4, <2>6
<1>9. CASE RestoreFails
  <2>1. infra \in InfraRun /\ infra # NoInfra
    BY <1>9, <1>h DEF RestoreFails, InfraAt, NoInfra
  <2>2. disk' \in [Parts -> Releases] /\ image' \in Releases
    BY <1>9, <1>h, <1>r, <2>1 DEF RestoreFails
  <2> QED
    BY <1>9, <1>e, <2>1, <2>2 DEF RestoreFails, HostTypeOK
<1>7. CASE ReconcileAgain
  <2>1. infra # NoInfra
    BY <1>7 DEF ReconcileAgain, InfraAt, NoInfra
  <2>2. /\ ContainersOK' /\ verified' \in SUBSET Services
        /\ replay' \in Releases \cup {"down"}
    BY <1>7, <1>b DEF ReconcileAgain
  <2>3. /\ InfraOK' /\ InfraShape' /\ LockOK'
        /\ lock' = "free" /\ suspect' \in SUBSET Services
    BY <1>7, <1>e, <1>h, <2>1
    DEF ReconcileAgain, InfraExit, InfraOK, InfraShape, LockOK, jobVars,
        NoInfra
  <2> QED
    BY <1>7, <2>2, <2>3 DEF ReconcileAgain, HostTypeOK, ContainersOK
<1> QED
  BY <1>1, <1>2, <1>3, <1>4, <1>5, <1>6, <1>7, <1>8, <1>9
  DEF InfraNext, InfraStep

\* The shape holds of every state.
LEMMA ShapeStutters == ASSUME ShapeInv, UNCHANGED vars PROVE ShapeInv'
  BY DEF ShapeInv, vars, hostVars, jobVars, switchVars, infraVars, HostTypeOK,
         JobOK, SwitchesOK, InfraOK, LockOK, JobShape, SwitchShape,
         SwitchTable, InfraShape, Switching

\* So the shape holds of every state.
LEMMA ShapeHolds == Spec => []ShapeInv
<1>1. ASSUME ShapeInv, [Next]_vars PROVE ShapeInv'
  <2>1. CASE ServiceScript
    BY <1>1, <2>1, ServiceShape DEF ServiceScript
  <2>2. CASE SwitchScript
    BY <1>1, <2>2, SwitchStepShape DEF SwitchScript, SwitchNext
  <2>3. CASE InfraScript
    BY <1>1, <2>3, InfraStepShape DEF InfraScript
  <2> QED
    BY <1>1, <2>1, <2>2, <2>3, ShapeStutters DEF Next
<1> QED
  BY <1>1, ShapeInit, PTL DEF Spec

-----------------------------------------------------------------------------
(* The bundle.                                                             *)

\* Only deploy-infra writes the files of the bundle.
LEMMA OthersKeepBundle ==
    ASSUME ServiceScript \/ SwitchScript
    PROVE  UNCHANGED <<infraVars, disk>>
<1>1. CASE ServiceScript
  BY <1>1
  DEF ServiceScript, DeploymentNext, DeploymentStep, TakeLock, ReadTags,
      BackUp, RewriteTag, MoveTag, Start, RestoreTags, StartAgain, Publish,
      KillDeployment, KeepFiles, hostVars
<1>2. CASE SwitchScript
  BY <1>2
  DEF SwitchScript, SwitchNext, SwitchStep, BeginSwitch, Upsert, MoveKey,
      FailUpsert, BringUpReplay, BringUpBackendAi, StopReplayContainer,
      RestoreEnv, RestoreEnvFails, RestartSucceeds, RestartFails, KillSwitch,
      KeepHost, hostVars
<1> QED
  BY <1>1, <1>2

\* The run of deploy-infra that is under way, and the kind of its fields.
LEMMA InfraRunOf ==
    ASSUME ShapeInv, infra.pc # "idle"
    PROVE  /\ infra # NoInfra /\ infra.pc \in InfraStages
           /\ infra = [pc |-> infra.pc, release |-> infra.release,
                       todo |-> infra.todo, backup |-> infra.backup,
                       oldImage |-> infra.oldImage,
                       listed |-> infra.listed]
           /\ infra.release \in Releases /\ infra.todo \in Seq(Parts)
           /\ infra.backup \in [Parts -> Releases]
           /\ infra.oldImage \in Releases \cup {NoImage}
           /\ infra.listed \subseteq Services \cup {"replay"}
  BY DEF ShapeInv, InfraOK, NoInfra

\* Every step keeps the bundle as the run, or the rollback, leaves it.
LEMMA BundleStep ==
    ASSUME ShapeInv, BundleInv, [Next]_vars
    PROVE  BundleInv'
<1>h. disk \in [Parts -> Releases] /\ BackedUp \subseteq Parts
  BY OrdersOf DEF ShapeInv, HostTypeOK
<1>k. ASSUME UNCHANGED <<infraVars, disk>> PROVE BundleInv'
  BY <1>k DEF infraVars, BundleInv, OneRelease
<1>1. ASSUME NEW r \in Releases, BeginInfra(r) PROVE BundleInv'
  <2>1. infra = NoInfra
    BY <1>1 DEF BeginInfra, ShapeInv, LockOK
  <2>2. /\ infra'.pc = "install" /\ infra'.todo = PartOrder
        /\ infra'.backup = disk /\ infra' # NoInfra
    BY <1>1 DEF BeginInfra, NoInfra
  <2>3. UNCHANGED <<disk, aborted, released>>
    BY <1>1 DEF BeginInfra
  <2> QED
    BY <2>1, <2>2, <2>3, OrdersOf DEF BundleInv, OneRelease
<1>2. CASE InstallPart
  <2>1. infra.pc = "install" /\ infra.todo # <<>>
    BY <1>2 DEF InstallPart, InfraAt, ShapeInv, InfraShape
  <2>2. /\ infra # NoInfra /\ infra.todo \in Seq(Parts)
        /\ infra.backup \in [Parts -> Releases]
    BY <2>1, InfraRunOf
  <2>3. /\ infra'.pc = IF Len(infra.todo) = 1 THEN "build" ELSE "install"
        /\ infra'.todo = Tail(infra.todo) /\ infra'.backup = infra.backup
        /\ infra'.release = infra.release /\ infra' # NoInfra
    BY <1>2, <2>1, InfraRunOf DEF InstallPart, NoInfra
  <2>4. /\ Members(infra.todo) =
               {Head(infra.todo)} \cup Members(Tail(infra.todo))
        /\ Tail(infra.todo) = <<>> <=> Len(infra.todo) = 1
    BY <2>1, <2>2, TailOf
  <2>5. \A p \in Parts \ Members(Tail(infra.todo)) : disk'[p] = infra.release
    BY <1>2, <1>h, <2>1, <2>2, <2>4 DEF InstallPart, BundleInv
  <2>6. UNCHANGED <<aborted, released>>
    BY <1>2 DEF InstallPart
  <2>7. Len(infra.todo) = 1 => \A p \in Parts : disk'[p] = infra.release
    BY <2>4, <2>5, NoMembers
  <2> QED
    BY <2>2, <2>3, <2>5, <2>6, <2>7 DEF BundleInv, OneRelease
<1>3. CASE InstallFails \/ RestoreFails \/ KillInfra
  <2>1. infra' = NoInfra /\ aborted' = TRUE
    BY <1>3
    DEF InstallFails, RestoreFails, KillInfra, LeaveHalfway, InfraExit
  <2> QED
    BY <2>1 DEF BundleInv, NoInfra
<1>4. CASE BuildReplay
  <2>1. infra.pc = "build" /\ infra # NoInfra
    BY <1>4, BuildOf
  <2>2. /\ infra'.pc \in {"reconcile", "restore"} /\ infra' # NoInfra
        /\ infra'.backup = infra.backup /\ infra'.release = infra.release
    BY <1>4, <2>1, InfraRunOf, BuildOf DEF InfraGoto, NoInfra
  <2>3. UNCHANGED <<disk, aborted, released>>
    BY <1>4, BuildOf
  <2> QED
    BY <2>1, <2>2, <2>3 DEF BundleInv, OneRelease
<1>5. CASE Reconcile
  <2>1. infra.pc = "reconcile" /\ infra # NoInfra
    BY <1>5 DEF Reconcile, InfraAt, NoInfra
  <2>2. CASE InfraGoto("restore") /\ UNCHANGED <<released, aborted>>
    <3>1. /\ infra'.pc = "restore" /\ infra' # NoInfra
          /\ infra'.backup = infra.backup
      BY <2>1, <2>2, InfraRunOf DEF InfraGoto, NoInfra
    <3> QED
      BY <2>1, <2>2, <3>1 DEF BundleInv, OneRelease
  <2>3. CASE infra' = NoInfra /\ released' = released \cup {infra.release}
    <3>1. disk' = disk /\ \A p \in Parts : disk[p] = infra.release
      BY <1>5, <2>1 DEF Reconcile, BundleInv
    <3> QED
      BY <1>h, <2>3, <3>1 DEF BundleInv, OneRelease
  <2> QED
    BY <1>5, <2>2, <2>3 DEF Reconcile, InfraExit
<1>6. CASE RestoreBundle
  <2>1. infra.pc = "restore" /\ infra # NoInfra
    BY <1>6 DEF RestoreBundle, InfraAt, NoInfra
  <2>2. /\ infra'.pc = "again" /\ infra' # NoInfra
        /\ infra'.backup = infra.backup
    BY <1>6, <2>1, InfraRunOf DEF RestoreBundle, InfraGoto, NoInfra
  <2>3. \A p \in BackedUp : disk'[p] = infra.backup[p]
    BY <1>6, <1>h DEF RestoreBundle, PutBack
  <2>4. UNCHANGED <<aborted, released>>
    BY <1>6 DEF RestoreBundle
  <2> QED
    BY <2>1, <2>2, <2>3, <2>4 DEF BundleInv, OneRelease
<1>7. CASE ReconcileAgain
  <2>1. infra.pc = "again" /\ infra # NoInfra /\ infra' = NoInfra
    BY <1>7 DEF ReconcileAgain, LeaveHalfway, InfraExit, InfraAt, NoInfra
  <2>2. UNCHANGED <<disk, released>> /\ (aborted' = TRUE \/ aborted' = aborted)
    BY <1>7 DEF ReconcileAgain, LeaveHalfway
  <2>3. ~ aborted' => ~ aborted
    BY <2>2
  <2> QED
    BY <2>1, <2>2, <2>3 DEF BundleInv, OneRelease
<1>8. CASE InfraScript
  BY <1>1, <1>2, <1>3, <1>4, <1>5, <1>6, <1>7, <1>8
  DEF InfraScript, InfraNext, InfraStep
<1> QED
  BY <1>8, <1>k, OthersKeepBundle DEF Next, vars, infraVars, hostVars

\* So the bundle is accounted for in every state.
LEMMA BundleHolds == Spec => []BundleInv
<1>1. Init => BundleInv
  BY OrdersOf
  DEF Init, HostInit, InfraInit, BundleInv, OneRelease, NoInfra
<1> QED
  BY <1>1, BundleStep, ShapeHolds, PTL DEF Spec

\* The backup parts of the bundle are of one release that was deployed: after
\* a success, and after a failure that rolled back (restore_bundle of
\* deploy-infra.sh), whatever services and switches do meanwhile.
THEOREM BundlesStayWhole == Spec => []BundleIsWhole
<1>1. BundleInv /\ ShapeInv => BundleIsWhole
  BY DEF BundleInv, OneRelease, BundleIsWhole, ShapeInv, LockOK
<1> QED
  BY <1>1, BundleHolds, ShapeHolds, PTL

-----------------------------------------------------------------------------
(* The replay container, until the first switch of the mode.               *)

UntilSwitched == switched \in Nat /\ (switched = 0 => NoSwitch /\ ReplayInv)

\* Every step of deploy-infra keeps replay with the bundle.
LEMMA ReplayStep ==
    ASSUME ShapeInv, BundleInv, ReplayInv, InfraScript
    PROVE  ReplayInv'
<1>h. /\ disk \in [Parts -> Releases] /\ image \in Releases
      /\ "down" \notin Releases /\ "compose" \in BackedUp
      /\ "compose" \in Parts /\ "replay" \in Parts
      /\ "replay" \notin Services
  BY HostAssumption, InfraAssumption, OrdersOf DEF ShapeInv, HostTypeOK
\* A run that leaves halfway: only a run that had replay listed touched it.
<1>e. ASSUME infra # NoInfra, LeaveHalfway, UNCHANGED <<released, missed>>,
             ~ ReplayListed => UNCHANGED <<image, replay>>
      PROVE  ReplayInv'
  <2>1. infra' = NoInfra /\ aborted' = TRUE /\ (ReplayListed => lost')
        /\ (~ lost' => ~ lost)
    BY <1>e DEF LeaveHalfway, InfraExit
  <2> QED
    BY <1>e, <2>1 DEF ReplayInv, ReplayKept, InStep
<1>1. ASSUME NEW r \in Releases, BeginInfra(r) PROVE ReplayInv'
  <2>1. infra = NoInfra
    BY <1>1 DEF BeginInfra, ShapeInv, LockOK
  <2>2. PICK running \in Running :
           /\ infra'.pc = "install" /\ infra'.backup = disk
           /\ infra' # NoInfra /\ infra'.oldImage = NoImage
           /\ infra'.listed = running
    BY <1>1 DEF BeginInfra, NoInfra
  <2>3. "replay" \in running => replay # "down"
    BY <1>h DEF Running
  <2>4. UNCHANGED <<disk, aborted, released, image, replay, lost, missed>>
    BY <1>1 DEF BeginInfra
  <2> QED
    BY <2>1, <2>2, <2>3, <2>4
    DEF ReplayInv, ReplayKept, ReplayListed, InStep
<1>2. CASE InstallPart
  <2>1. infra.pc = "install" /\ infra # NoInfra
    BY <1>2 DEF InstallPart, InfraAt, NoInfra
  <2>2. /\ infra'.pc \in {"build", "install"} /\ infra' # NoInfra
        /\ infra'.backup = infra.backup /\ infra'.oldImage = infra.oldImage
        /\ infra'.listed = infra.listed
    BY <1>2, <2>1, InfraRunOf DEF InstallPart, NoInfra
  <2>3. UNCHANGED <<aborted, released, image, replay, lost, missed>>
    BY <1>2 DEF InstallPart
  <2> QED
    BY <2>1, <2>2, <2>3 DEF ReplayInv, ReplayKept, ReplayListed, InStep
<1>3. CASE InstallFails
  <2>1. infra.pc = "install" /\ infra # NoInfra
    BY <1>3 DEF InstallFails, InfraAt, NoInfra
  <2>2. /\ infra' = NoInfra /\ aborted' = TRUE
        /\ UNCHANGED <<released, image, replay, lost>>
    BY <1>3 DEF InstallFails, InfraExit
  <2> QED
    BY <2>1, <2>2 DEF ReplayInv, ReplayKept, InStep
<1>8. CASE KillInfra
  <2>1. UNCHANGED <<released, image, replay, missed>> /\ infra # NoInfra
    BY <1>8 DEF KillInfra
  <2>2. CASE infra.pc \in {"install", "build"}
    <3>1. infra' = NoInfra /\ aborted' = TRUE /\ lost' = lost
      BY <1>8, <2>2 DEF KillInfra, InfraExit
    <3> QED
      BY <2>1, <2>2, <3>1 DEF ReplayInv, ReplayKept, InStep
  <2>3. CASE LeaveHalfway
    BY <1>e, <2>1, <2>3
  <2> QED
    BY <1>8, <2>2, <2>3 DEF KillInfra
<1>4. CASE BuildReplay
  <2>1. infra.pc = "build" /\ infra # NoInfra
    BY <1>4, BuildOf
  <2>2. /\ infra'.pc \in {"reconcile", "restore"} /\ infra' # NoInfra
        /\ infra'.backup = infra.backup /\ infra'.release = infra.release
        /\ infra'.listed = infra.listed
    BY <1>4, <2>1, InfraRunOf, BuildOf DEF InfraGoto, NoInfra
  <2>3. UNCHANGED <<disk, aborted, released, replay, lost, missed>>
    BY <1>4, BuildOf
  <2>4. disk["replay"] = infra.release
    BY <1>h, <2>1 DEF BundleInv
  <2>5. CASE ~ ReplayListed
    <3>1. image' = image /\ infra'.oldImage = infra.oldImage
      BY <1>4, <2>1, <2>5, InfraRunOf, BuildOf DEF InfraGoto
    <3> QED
      BY <2>1, <2>2, <2>3, <2>5, <3>1
      DEF ReplayInv, ReplayKept, ReplayListed, InStep
  <2>6. CASE ReplayListed
    <3>1. replay # "down" /\ ReplayKept(infra.backup)
      BY <2>1, <2>6 DEF ReplayInv
    <3>2. infra'.oldImage \in {NoImage, replay}
      BY <1>4, <2>1, <2>6, <3>1, InfraRunOf, BuildOf DEF Inspected
    <3>3. infra'.pc = "reconcile" => image' = infra.release
      BY <1>4, <2>1, <2>4, <2>6, InfraRunOf, BuildOf
    <3>4. infra'.oldImage # NoImage =>
              /\ ~ lost => infra'.oldImage \in released
              /\ InStep => infra'.oldImage = infra.backup["compose"]
      BY <3>1, <3>2 DEF ReplayKept, InStep
    <3> QED
      BY <2>2, <2>3, <2>6, <3>1, <3>3, <3>4
      DEF ReplayInv, ReplayListed, Came, InStep
  <2> QED
    BY <2>5, <2>6
<1>5. CASE Reconcile
  <2>1. infra.pc = "reconcile" /\ infra # NoInfra
    BY <1>5 DEF Reconcile, InfraAt, NoInfra
  <2>2. UNCHANGED <<disk, image>> /\ (ReplayListed => replay # "down")
    BY <1>5, <2>1 DEF Reconcile, ReplayInv
  <2>3. CASE BringUpListedFails /\ InfraGoto("restore")
             /\ UNCHANGED <<released, aborted, lost, missed>>
    <3>1. /\ infra'.pc = "restore" /\ infra' # NoInfra
          /\ infra'.backup = infra.backup /\ infra'.oldImage = infra.oldImage
          /\ infra'.listed = infra.listed
      BY <2>1, <2>3, InfraRunOf DEF InfraGoto, NoInfra
    <3>2. /\ ReplayListed => replay' # "down"
          /\ ~ ReplayListed => replay' = replay
      BY <1>h, <2>2, <2>3 DEF BringUpListedFails, StartReplay
    <3> QED
      BY <2>1, <2>2, <2>3, <3>1, <3>2
      DEF ReplayInv, ReplayKept, ReplayListed, Came, InStep
  <2>4. CASE /\ BringUpListed /\ infra' = NoInfra
             /\ released' = released \cup {infra.release}
             /\ lost' = (lost /\ ~ ReplayListed)
             /\ missed' = (~ ReplayListed /\ (missed \/ replay # "down"))
    <3>1. disk["compose"] = infra.release
      BY <1>h, <2>1 DEF BundleInv
    <3>2. CASE ReplayListed
      <4>1. replay' = image /\ image = infra.release
        BY <2>1, <2>4, <3>2 DEF BringUpListed, StartReplay, ReplayInv
      <4> QED
        BY <2>2, <2>4, <3>1, <4>1 DEF ReplayInv, ReplayKept
    <3>3. CASE ~ ReplayListed
      <4>1. /\ replay' = replay /\ (lost' <=> lost)
            /\ replay # "down" => missed'
        BY <2>4, <3>3 DEF BringUpListed
      <4>2. ReplayKept(infra.backup)
        BY <2>1, <3>3 DEF ReplayInv
      <4> QED
        BY <2>2, <2>4, <4>1, <4>2 DEF ReplayInv, ReplayKept, InStep
    <3> QED
      BY <3>2, <3>3
  <2> QED
    BY <1>5, <2>3, <2>4 DEF Reconcile, InfraExit
<1>6. CASE RestoreBundle
  <2>1. infra.pc = "restore" /\ infra # NoInfra
    BY <1>6 DEF RestoreBundle, InfraAt, NoInfra
  <2>2. /\ infra'.pc = "again" /\ infra' # NoInfra
        /\ infra'.backup = infra.backup /\ infra'.oldImage = infra.oldImage
        /\ infra'.listed = infra.listed
    BY <1>6, <2>1, InfraRunOf DEF RestoreBundle, InfraGoto, NoInfra
  <2>3. UNCHANGED <<aborted, released, replay, missed>> /\ RestoreImage
    BY <1>6 DEF RestoreBundle
  <2>4. CASE ~ ReplayListed
    <3>1. image' = image /\ (lost' <=> lost)
      BY <2>1, <2>3, <2>4 DEF RestoreImage, ReplayInv
    <3> QED
      BY <2>1, <2>2, <2>3, <2>4, <3>1
      DEF ReplayInv, ReplayKept, ReplayListed, InStep
  <2>5. CASE ReplayListed
    <3>1. \/ /\ infra.oldImage # NoImage /\ image' = infra.oldImage
             /\ lost' = lost
          \/ lost'
      BY <2>3, <2>5 DEF RestoreImage
    <3> QED
      BY <2>1, <2>2, <2>3, <2>5, <3>1
      DEF ReplayInv, ReplayListed, Came, InStep
  <2> QED
    BY <2>4, <2>5
<1>9. CASE RestoreFails
  <2>1. infra # NoInfra /\ UNCHANGED <<released, missed, replay>>
    BY <1>9 DEF RestoreFails, InfraAt, NoInfra
  <2>2. ~ ReplayListed => image' = image
    BY <1>9, <2>1 DEF RestoreFails, ReplayInv
  <2> QED
    BY <1>9, <1>e, <2>1, <2>2 DEF RestoreFails
<1>7. CASE ReconcileAgain
  <2>1. infra.pc = "again" /\ infra # NoInfra
    BY <1>7 DEF ReconcileAgain, InfraAt, NoInfra
  <2>2. UNCHANGED <<disk, released, image, missed>>
    BY <1>7 DEF ReconcileAgain
  <2>3. CASE BringUpListedFails /\ LeaveHalfway
    <3>1. ~ ReplayListed => replay' = replay
      BY <2>3 DEF BringUpListedFails
    <3> QED
      BY <1>e, <2>1, <2>2, <2>3, <3>1
  <2>4. CASE BringUpListed /\ InfraExit /\ UNCHANGED <<aborted, lost>>
    <3>1. disk["compose"] = infra.backup["compose"] /\ infra' = NoInfra
      BY <1>h, <2>1, <2>4 DEF BundleInv, InfraExit
    <3>2. CASE ReplayListed
      <4>1. replay' = image /\ Came(image)
        BY <2>1, <2>4, <3>2 DEF BringUpListed, StartReplay, ReplayInv
      <4> QED
        BY <2>2, <2>4, <3>1, <4>1 DEF ReplayInv, ReplayKept, Came, InStep
    <3>3. CASE ~ ReplayListed
      <4>1. replay' = replay /\ ReplayKept(infra.backup)
        BY <2>1, <2>4, <3>3 DEF BringUpListed, ReplayInv
      <4> QED
        BY <2>2, <2>4, <3>1, <4>1 DEF ReplayInv, ReplayKept, InStep
    <3> QED
      BY <3>2, <3>3
  <2> QED
    BY <1>7, <2>3, <2>4 DEF ReconcileAgain
<1> QED
  BY <1>1, <1>2, <1>3, <1>4, <1>5, <1>6, <1>7, <1>8, <1>9
  DEF InfraScript, InfraNext, InfraStep

\* Deployments of services touch neither the image nor the container.
LEMMA ServiceKeepsReplay ==
    ASSUME ServiceScript
    PROVE  UNCHANGED <<infraVars, switchVars, disk, image, replay>>
  BY DEF ServiceScript, DeploymentNext, DeploymentStep, TakeLock, ReadTags,
      BackUp, RewriteTag, MoveTag, Start, RestoreTags, StartAgain, Publish,
      KillDeployment, KeepFiles, hostVars

\* A switch that is under way has begun.
LEMMA SwitchesBegin ==
    ASSUME SwitchScript, switched \in Nat, switched = 0 => NoSwitch
    PROVE  switched' \in Nat /\ switched' # 0
<1>1. PICK o \in Operators :
          \/ \E m \in Modes : BeginSwitch(o, m)
          \/ SwitchStep(o) \/ KillSwitch(o)
  BY DEF SwitchScript, SwitchNext
<1>2. CASE \E m \in Modes : BeginSwitch(o, m)
  BY <1>2 DEF BeginSwitch
<1>3. CASE SwitchStep(o) \/ KillSwitch(o)
  <2>1. switched' = switched
    BY <1>3
    DEF SwitchStep, Upsert, MoveKey, FailUpsert, BringUpReplay,
        BringUpBackendAi, StopReplayContainer, RestoreEnv, RestoreEnvFails,
        RestartSucceeds, RestartFails, KillSwitch
  <2>2. Switching(o)
    BY <1>3
    DEF SwitchStep, Upsert, MoveKey, FailUpsert, BringUpReplay,
        BringUpBackendAi, StopReplayContainer, RestoreEnv, RestoreEnvFails,
        RestartSucceeds, RestartFails, KillSwitch, AtStep, Switching, Off
  <2> QED
    BY <2>1, <2>2 DEF NoSwitch
<1> QED
  BY <1>1, <1>2, <1>3

\* So replay stays with the bundle until the first switch.
LEMMA UntilSwitchedHolds == Spec => []UntilSwitched
<1>1. Init => UntilSwitched
  <2> SUFFICES ASSUME Init PROVE UntilSwitched
    OBVIOUS
  <2>1. ReplayInv
    BY OrdersOf
    DEF Init, HostInit, InfraInit, ReplayInv, ReplayKept, NoInfra
  <2>2. NoSwitch /\ switched = 0
    BY DEF Init, SwitchInit, NoSwitch, Switching
  <2> QED
    BY <2>1, <2>2 DEF UntilSwitched
<1>2. ASSUME UntilSwitched, ShapeInv, BundleInv, [Next]_vars
      PROVE  UntilSwitched'
  <2>1. CASE InfraScript
    <3>1. UNCHANGED switchVars
      BY <2>1 DEF InfraScript
    <3> QED
      BY <1>2, <2>1, <3>1, ReplayStep
      DEF UntilSwitched, NoSwitch, Switching, switchVars
  <2>2. CASE ServiceScript \/ UNCHANGED vars
    <3>1. UNCHANGED <<infraVars, switchVars, disk, image, replay>>
      BY <2>2, ServiceKeepsReplay DEF vars, hostVars
    <3> QED
      BY <1>2, <3>1
      DEF UntilSwitched, NoSwitch, Switching, ReplayInv, ReplayKept, Came,
          ReplayListed, InStep, switchVars, infraVars
  <2>3. CASE SwitchScript
    BY <1>2, <2>3, SwitchesBegin DEF UntilSwitched
  <2> QED
    BY <1>2, <2>1, <2>2, <2>3 DEF Next
<1> QED
  BY <1>1, <1>2, BundleHolds, ShapeHolds, PTL DEF Spec

\* The image that replay runs from was deployed, until the first switch of
\* the serving mode, as long as docker puts the old one back when a deployment
\* fails, and the deployment lives to ask it.  (A switch builds the image from
\* the source on disk, which a deployment that is rolled back leaves new:
\* deploy-infra.sh:173-186 puts everything back but replay/ and stub/;
\* switch-serving-mode.sh:104.)
THEOREM ReplayStaysReleased == Spec => [](switched = 0 => ReplayIsReleased)
<1>1. ShapeInv /\ UntilSwitched => (switched = 0 => ReplayIsReleased)
  <2> SUFFICES ASSUME ShapeInv, UntilSwitched, switched = 0, Quiet, ~ lost
               PROVE  image \in released /\ replay \in released \cup {"down"}
    BY DEF ReplayIsReleased
  <2>1. infra = NoInfra /\ ReplayInv
    BY DEF Quiet, ShapeInv, LockOK, UntilSwitched
  <2> QED
    BY <2>1 DEF ReplayInv, ReplayKept
<1> QED
  BY <1>1, ShapeHolds, UntilSwitchedHolds, PTL

\* And it is built from the source that was installed with it: the image is
\* rebuilt before the containers are reconciled (the comment at
\* scripts/deploy-infra.sh:141), unless replay was not running when the
\* deployment began.
THEOREM InstalledReplayStays ==
    Spec => [](switched = 0 => InstalledReplayRuns)
<1>1. ShapeInv /\ UntilSwitched => (switched = 0 => InstalledReplayRuns)
  <2> SUFFICES ASSUME ShapeInv, UntilSwitched, switched = 0, Quiet, InStep,
                      \A p, q \in Parts : disk[p] = disk[q]
               PROVE  replay \in {disk["replay"], "down"}
    BY DEF InstalledReplayRuns, InStep
  <2>1. infra = NoInfra /\ ReplayInv
    BY DEF Quiet, ShapeInv, LockOK, UntilSwitched
  <2>2. disk["compose"] = disk["replay"]
    BY OrdersOf
  <2> QED
    BY <2>1, <2>2 DEF ReplayInv, ReplayKept
<1> QED
  BY <1>1, ShapeHolds, UntilSwitchedHolds, PTL

-----------------------------------------------------------------------------
(* The tags.                                                               *)

\* What a start of services S does to the services outside S: nothing; and
\* to those in S, when it succeeds: they run what .env says.
LEMMA StartsSettle ==
    ASSUME NEW S \in SUBSET Services, UpSucceeds(S) \/ UpFails(S),
           UNCHANGED env
    PROVE  /\ \A s \in Services \ S :
                 /\ container'[s] = container[s]
                 /\ s \in verified' <=> s \in verified
           /\ UpSucceeds(S) => \A s \in S : container'[s][s] = env[s]
                                             /\ s \in verified'
<1>1. ASSUME NEW done \in SUBSET S, Recreate(done)
      PROVE  /\ \A s \in Services \ done : container'[s] = container[s]
             /\ \A s \in done : container'[s][s] = env[s]
  BY <1>1 DEF Recreate, Config, Interpolated
<1> QED
  BY <1>1 DEF UpSucceeds, UpFails

\* While scripts do not overlap, a deployment is the only script.
LEMMA Alone ==
    ASSUME ShapeInv, ~ Overlapping
    PROVE  /\ lock # "free" => NoSwitch
           /\ \A o, p \in Operators : Switching(o) /\ Switching(p) => o = p
           /\ \A o \in Operators :
                 Switching(o) => job = Idle /\ infra = NoInfra
           /\ job # Idle => lock = "service" /\ infra = NoInfra
           /\ infra # NoInfra => lock = "infra" /\ job = Idle
  BY DEF ShapeInv, LockOK, Overlapping, NoSwitch

\* The run of a service deployment, and the kind of its fields.
LEMMA JobOf ==
    ASSUME ShapeInv, job # Idle
    PROVE  /\ job = [pc |-> job.pc, order |-> job.order, tag |-> job.tag,
                     todo |-> job.todo, backup |-> job.backup,
                     temp |-> job.temp]
           /\ job.pc \in Stages /\ job.order \in Orders /\ job.tag \in Tags
           /\ job.todo \in Seq(Services) /\ job.order \in Seq(Services)
           /\ job.order # <<>> /\ job.backup \in Env /\ job.temp \in Env
           /\ Members(job.order) \subseteq Services
           /\ Members(job.order) \cap ModeKeys = {}
  BY DeployOrders, MembersIn, HostAssumption DEF ShapeInv, JobOK

\* A step of a service deployment, while scripts do not overlap.
LEMMA AloneService ==
    ASSUME ShapeInv, ~ Overlapping, ~ Overlapping', ServiceScript
    PROVE  NoSwitch /\ NoSwitch' /\ infra = NoInfra /\ infra' = NoInfra
<1>0. UNCHANGED <<switchVars, infraVars>> /\ DeploymentNext
  BY DEF ServiceScript
<1>1. job # Idle \/ lock' # "free"
  BY <1>0
  DEF DeploymentNext, DeploymentStep, TakeLock, ReadTags, BackUp,
    RewriteTag, MoveTag, Start, RestoreTags, StartAgain, Publish,
    KillDeployment, At, Idle
<1>2. lock # "free" => NoSwitch
  BY Alone
<1>3. lock' # "free" => NoSwitch'
  BY DEF Overlapping, NoSwitch
<1>4. NoSwitch <=> NoSwitch'
  BY <1>0 DEF NoSwitch, Switching, switchVars
<1>5. NoSwitch
  BY <1>1, <1>2, <1>3, <1>4, Alone
<1>6. infra = NoInfra
  BY <1>0, <1>1, Alone
  DEF ShapeInv, LockOK, DeploymentNext, DeploymentStep, TakeLock, ReadTags,
    BackUp, RewriteTag, MoveTag, Start, RestoreTags, StartAgain, Publish,
    KillDeployment, At, Idle
<1> QED
  BY <1>0, <1>4, <1>5, <1>6 DEF infraVars

\* The steps of a service deployment.
LEMMA ServiceTags ==
    ASSUME ShapeInv, ShapeInv', TagsBody, ~ Overlapping, ~ Overlapping',
           ServiceScript
    PROVE  TagsBody'
<1>0. UNCHANGED <<switchVars, infraVars>> /\ DeploymentNext
  BY DEF ServiceScript
<1>1. NoSwitch /\ NoSwitch' /\ infra = NoInfra /\ infra' = NoInfra
  BY AloneService
<1>2. SUFFICES /\ lock' = "free" => Settled(Services)'
               /\ JobTags'
  BY <1>1 DEF TagsBody, InfraTags, SwitchTags, NoSwitch
<1>e. env \in Env /\ DOMAIN env = Services \cup ModeKeys
  BY DEF ShapeInv, HostTypeOK, Env
<1>f. ASSUME NEW S, Settled(S), UNCHANGED <<env, container, verified>>,
             suspect \subseteq suspect'
      PROVE  Settled(S)'
  BY <1>f DEF Settled
<1>3. ASSUME NEW order \in Orders, NEW tag \in Tags, TakeLock(order, tag)
      PROVE  JobTags' /\ lock' # "free"
  <2>1. Settled(Services) /\ Settled(Services)'
    BY <1>1, <1>3, <1>f DEF TakeLock, TagsBody
  <2>2. job' = [pc |-> "read", order |-> order, tag |-> tag,
                todo |-> order, backup |-> env, temp |-> env]
        /\ lock' = "service"
    BY <1>3 DEF TakeLock
  <2>3. JobSettled'
    BY <2>1, <2>2 DEF JobSettled, Settled
  <2> QED
    BY <2>2, <2>3 DEF JobTags, JobTemp, JobMoved, JobBackup
<1> USE DEF TagsBody
<1>4. CASE ReadTags \/ BackUp \/ RewriteTag
  <2>1. /\ job # Idle /\ UNCHANGED hostVars
        /\ job.pc \in {"read", "backup", "rewrite"}
    BY <1>4 DEF ReadTags, BackUp, RewriteTag, At, Idle
  <2>2. lock' # "free"
    BY <2>1 DEF ShapeInv, LockOK, hostVars
  <2>3. \A S : Settled(S) => Settled(S)'
    BY <2>1 DEF Settled, hostVars
  <2>4. CASE ReadTags
    <3>1. /\ job'.pc = IF AlreadyUses THEN "publish" ELSE "backup"
          /\ job'.todo = job.todo /\ job'.order = job.order
          /\ job'.tag = job.tag /\ job'.backup = job.backup
          /\ job.pc = "read"
      BY <2>1, <2>4, JobOf DEF ReadTags, Goto, At
    <3>2. env' = env
      BY <2>1 DEF hostVars
    <3> QED
      BY <2>1, <2>3, <3>1, <3>2
      DEF JobTags, JobSettled, JobTemp, JobMoved, JobBackup, AlreadyUses
  <2>5. CASE BackUp
    <3>1. /\ job'.pc = "rewrite" /\ job'.backup = env
          /\ job'.todo = job.todo /\ job'.order = job.order
          /\ job'.tag = job.tag /\ job.pc = "backup"
      BY <2>1, <2>5, JobOf DEF BackUp, At
    <3>2. env' = env /\ job.todo = job.order
      BY <2>1, <3>1 DEF hostVars, ShapeInv, JobShape
    <3> QED
      BY <2>1, <2>3, <3>1, <3>2
      DEF JobTags, JobSettled, JobTemp, JobMoved, JobBackup
  <2>6. CASE RewriteTag
    <3>1. /\ job'.pc = "move" /\ job'.backup = job.backup
          /\ job'.temp = [env EXCEPT ![Head(job.todo)] = job.tag]
          /\ job'.todo = job.todo /\ job'.order = job.order
          /\ job'.tag = job.tag /\ job.pc = "rewrite"
      BY <2>1, <2>6, JobOf DEF RewriteTag, At
    <3>2. env' = env
      BY <2>1 DEF hostVars
    <3>3. JobTemp'
      BY <3>1, <3>2 DEF JobTemp
    <3>4. JobSettled'
      BY <2>1, <2>3, <3>1 DEF JobTags, JobSettled
    <3>5. JobMoved' /\ JobBackup'
      BY <2>1, <3>1, <3>2 DEF JobTags, JobMoved, JobBackup
    <3> QED
      BY <2>2, <3>3, <3>4, <3>5 DEF JobTags
  <2> QED
    BY <1>4, <2>2, <2>4, <2>5, <2>6
<1>5. CASE MoveTag
  <2> DEFINE moved == Members(job.order)
  <2>1. job # Idle /\ job.pc = "move" /\ job.todo # <<>>
    BY <1>5 DEF MoveTag, At, Idle, ShapeInv, JobShape
  <2>2. /\ job'.pc = IF Len(job.todo) = 1 THEN "up" ELSE "rewrite"
        /\ job'.todo = Tail(job.todo) /\ job'.order = job.order
        /\ job'.tag = job.tag /\ job'.backup = job.backup
    BY <1>5, <2>1, JobOf DEF MoveTag
  <2>3. job.todo \in Seq(Services) /\ job.order \in Seq(Services)
        /\ Members(job.todo) \subseteq moved
        /\ Len(job.todo) <= Len(job.order) /\ Len(job.order) \in Nat
    BY <2>1, JobOf, TailOf DEF ShapeInv, JobShape
  <2>4. /\ Head(job.todo) \in Members(job.todo)
        /\ Members(job.todo) =
               {Head(job.todo)} \cup Members(Tail(job.todo))
        /\ Len(Tail(job.todo)) = Len(job.todo) - 1
        /\ Len(job.todo) \in Nat
    BY <2>1, <2>3, TailOf
  <2>5. Tail(job.todo) # job.order
    <3> DEFINE n == Len(job.todo)
               k == Len(job.order)
    <3>1. n \in Nat /\ k \in Nat /\ n <= k /\ Len(Tail(job.todo)) = n - 1
      BY <2>3, <2>4
    <3> HIDE DEF n, k
    <3>2. n - 1 # k
      BY <3>1
    <3> USE DEF n, k
    <3> QED
      BY <3>1, <3>2
  <2>6. env' = [env EXCEPT ![Head(job.todo)] = job.tag]
    BY <1>5, <2>1 DEF MoveTag, JobTags, JobTemp
  <2>7. \A k \in (Services \cup ModeKeys) \ moved : env'[k] = env[k]
    BY <1>e, <2>3, <2>4, <2>6
  <2>8. \A s \in moved \ Members(Tail(job.todo)) : env'[s] = job.tag
    <3>1. moved \subseteq DOMAIN env
      BY <1>e, <2>1, JobOf
    <3>2. \A s \in moved \ Members(job.todo) : env[s] = job.tag
      BY <2>1 DEF JobTags, JobMoved
    <3> QED
      BY <2>4, <2>6, <3>1, <3>2
  <2>9. UNCHANGED <<container, verified, suspect, lock>>
    BY <1>5 DEF MoveTag
  <2>10. Settled(Services \ moved) /\ (Settled(Services \ moved))'
    <3>1. Settled(Services \ moved)
      BY <2>1 DEF JobTags, JobSettled
    <3>2. \A s \in (Services \ moved) \ suspect' :
             container'[s][s] = env'[s] /\ s \in verified'
      BY <2>7, <2>9, <3>1 DEF Settled
    <3> QED
      BY <2>2, <3>1, <3>2 DEF Settled
  <2>11. \A k \in (Services \cup ModeKeys) \ moved : job'.backup[k] = env'[k]
    BY <2>1, <2>2, <2>7 DEF JobTags, JobBackup
  <2>12. lock' # "free"
    BY <2>1, <2>9 DEF ShapeInv, LockOK
  <2> QED
    BY <2>2, <2>5, <2>8, <2>10, <2>11, <2>12
    DEF JobTags, JobSettled, JobTemp, JobMoved, JobBackup
<1>6. CASE Start \/ StartAgain
  <2> DEFINE moved == Members(job.order)
  <2>1. job # Idle /\ job.pc \in {"up", "retry"}
    BY <1>6 DEF Start, StartAgain, At, Idle
  <2>2. moved \in SUBSET Services
    BY <2>1, JobOf
  <2>3. Settled(Services \ moved)
    BY <2>1 DEF JobTags, JobSettled
  <2>4. UNCHANGED env /\ (UpSucceeds(moved) \/ UpFails(moved))
    BY <1>6 DEF Start, StartAgain
  <2>5. /\ \A s \in Services \ moved :
              /\ container'[s] = container[s]
              /\ s \in verified' <=> s \in verified
        /\ UpSucceeds(moved) => \A s \in moved : container'[s][s] = env[s]
                                                  /\ s \in verified'
    BY <2>2, <2>4, StartsSettle
  <2>6. CASE /\ UpSucceeds(moved) /\ suspect' = suspect \ moved
             /\ \/ Goto("publish") /\ job.pc = "up" /\ lock' = lock
                \/ job' = Idle
    <3>1. Settled(Services)'
      BY <2>3, <2>4, <2>5, <2>6 DEF Settled
    <3>2. CASE Goto("publish") /\ job.pc = "up" /\ lock' = lock
      <4>1. job'.pc = "publish" /\ job'.order = job.order /\ job'.tag = job.tag
        BY <2>1, <3>2, JobOf DEF Goto
      <4>2. \A s \in moved : env[s] = job.tag
        BY <2>1, <3>2, NoMembers
        DEF JobTags, JobMoved, ShapeInv, JobShape
      <4>3. lock' # "free"
        BY <2>1, <3>2 DEF ShapeInv, LockOK
      <4> QED
        BY <2>4, <3>1, <4>1, <4>2, <4>3
        DEF JobTags, JobSettled, JobTemp, JobMoved, JobBackup, Settled
    <3>3. CASE job' = Idle
      BY <3>1, <3>3
      DEF JobTags, JobSettled, JobTemp, JobMoved, JobBackup, Idle
    <3> QED
      BY <2>6, <3>2, <3>3
  <2>7. CASE job' = Idle /\ suspect' = suspect \cup moved
    <3>1. Settled(Services)'
      BY <2>3, <2>4, <2>5, <2>7 DEF Settled
    <3> QED
      BY <2>7, <3>1
      DEF JobTags, JobSettled, JobTemp, JobMoved, JobBackup, Idle
  <2>8. CASE Goto("restore") /\ suspect' = suspect /\ lock' = lock
    <3>1. job'.pc = "restore" /\ job'.order = job.order /\ job'.tag = job.tag
          /\ job'.todo = job.todo /\ job'.backup = job.backup
      BY <2>1, <2>8, JobOf DEF Goto
    <3>2. \A s \in (Services \ moved) \ suspect' :
             container'[s][s] = env'[s] /\ s \in verified'
      BY <2>3, <2>4, <2>5, <2>8 DEF Settled
    <3>3. job'.todo # job'.order
      BY <2>1, <3>1, JobOf DEF ShapeInv, JobShape
    <3>4. lock' # "free"
      BY <2>1, <2>8 DEF ShapeInv, LockOK
    <3>5. JobSettled'
      BY <3>1, <3>2, <3>3 DEF JobSettled, Settled
    <3>6. JobBackup'
      BY <2>1, <2>4, <3>1 DEF JobTags, JobBackup
    <3> QED
      BY <3>1, <3>4, <3>5, <3>6 DEF JobTags, JobTemp, JobMoved
  <2> QED
    BY <1>6, <2>6, <2>7, <2>8 DEF Start, StartAgain, At, Exit
<1>7. CASE RestoreTags
  <2>1. job # Idle /\ job.pc = "restore"
    BY <1>7 DEF RestoreTags, At, Idle
  <2>2. job'.pc = "retry" /\ job'.order = job.order /\ job'.todo = job.todo
        /\ job'.backup = job.backup /\ env' = job.backup
    BY <1>7, <2>1, JobOf DEF RestoreTags, Goto
  <2>3. UNCHANGED <<container, verified, suspect, lock>>
    BY <1>7 DEF RestoreTags
  <2>4. \A k \in (Services \cup ModeKeys) \ Members(job.order) :
           env'[k] = env[k]
    BY <2>1, <2>2 DEF JobTags, JobBackup
  <2>5. Settled(Services \ Members(job.order))
    BY <2>1 DEF JobTags, JobSettled
  <2>6. \A s \in (Services \ Members(job.order)) \ suspect' :
           container'[s][s] = env'[s] /\ s \in verified'
    BY <2>3, <2>4, <2>5 DEF Settled
  <2>7. job'.todo # job'.order
    BY <2>1, <2>2, JobOf DEF ShapeInv, JobShape
  <2>8. JobSettled'
    BY <2>2, <2>6, <2>7 DEF JobSettled, Settled
  <2>9. lock' # "free"
    BY <2>1, <2>3 DEF ShapeInv, LockOK
  <2> QED
    BY <2>2, <2>8, <2>9 DEF JobTags, JobTemp, JobMoved, JobBackup
<1>8. CASE Publish
  <2>1. job # Idle /\ job.pc = "publish" /\ job' = Idle
    BY <1>8 DEF Publish, At, Idle, Exit
  <2>2. Settled(Services)
    BY <2>1 DEF JobTags, JobSettled
  <2> QED
    BY <1>8, <1>f, <2>1, <2>2
    DEF Publish, JobTags, JobSettled, JobTemp, JobMoved, JobBackup, Idle
<1>9. CASE KillDeployment
  <2>1. job # Idle /\ job' = Idle
    BY <1>9 DEF KillDeployment, Exit
  <2>2. /\ suspect' = IF Touched THEN suspect \cup Members(job.order)
                      ELSE suspect
        /\ UNCHANGED <<env, container, verified>>
    BY <1>9 DEF KillDeployment
  <2>3. CASE Touched
    <3>1. Settled(Services \ Members(job.order))
      BY <2>1 DEF JobTags, JobSettled
    <3>2. Settled(Services)'
      BY <2>2, <2>3, <3>1 DEF Settled
    <3> QED
      BY <2>1, <3>2
      DEF JobTags, JobSettled, JobTemp, JobMoved, JobBackup, Idle
  <2>4. CASE ~ Touched
    <3>1. Settled(Services)
      BY <2>1, <2>4 DEF JobTags, JobSettled, Touched
    <3> QED
      BY <1>f, <2>1, <2>2, <2>4, <3>1
      DEF JobTags, JobSettled, JobTemp, JobMoved, JobBackup, Idle
  <2> QED
    BY <2>3, <2>4
<1> QED
  BY <1>0, <1>3, <1>4, <1>5, <1>6, <1>7, <1>8, <1>9
  DEF DeploymentNext, DeploymentStep

\* A step of deploy-infra, while scripts do not overlap.
LEMMA AloneInfra ==
    ASSUME ShapeInv, ~ Overlapping, ~ Overlapping', InfraScript
    PROVE  NoSwitch /\ NoSwitch' /\ job = Idle /\ job' = Idle
<1>0. UNCHANGED <<switchVars, jobVars>> /\ InfraNext
  BY DEF InfraScript
<1>1. infra # NoInfra \/ (lock = "free" /\ lock' # "free")
  <2>1. CASE \E r \in Releases : BeginInfra(r)
    BY <2>1 DEF BeginInfra
  <2>2. CASE InfraStep
    <3>1. \E stage \in InfraStages : infra.pc = stage
      BY <2>2, BuildOf, Zenon
      DEF InfraStep, InstallPart, InstallFails, Reconcile, RestoreBundle,
          RestoreFails, ReconcileAgain, InfraAt, InfraStages
    <3> QED
      BY <3>1 DEF InfraStages, NoInfra
  <2>3. CASE KillInfra
    BY <2>3 DEF KillInfra
  <2> QED
    BY <1>0, <2>1, <2>2, <2>3 DEF InfraNext
<1>2. (lock # "free" => NoSwitch) /\ (lock' # "free" => NoSwitch')
  BY DEF Overlapping, NoSwitch
<1>3. NoSwitch <=> NoSwitch'
  BY <1>0 DEF NoSwitch, Switching, switchVars
<1>4. job = Idle
  BY <1>1 DEF ShapeInv, LockOK
<1> QED
  BY <1>0, <1>1, <1>2, <1>3, <1>4, Alone DEF jobVars

\* The steps of deploy-infra.
LEMMA InfraStepTags ==
    ASSUME ShapeInv, ShapeInv', TagsBody, ~ Overlapping, ~ Overlapping',
           InfraScript
    PROVE  TagsBody'
<1> USE DEF TagsBody
<1>0. UNCHANGED <<switchVars, jobVars>> /\ InfraNext
  BY DEF InfraScript
<1>1. NoSwitch /\ NoSwitch' /\ job = Idle /\ job' = Idle
  BY AloneInfra
<1>2. SUFFICES /\ lock' = "free" => Settled(Services)'
               /\ InfraTags'
  BY <1>1
  DEF JobTags, JobSettled, JobTemp, JobMoved, JobBackup, Idle, SwitchTags,
      NoSwitch
<1>f. ASSUME Settled(Services), UNCHANGED <<env, container, verified>>,
             suspect \subseteq suspect'
      PROVE  Settled(Services)'
  BY <1>f DEF Settled
<1> DEFINE Rest == Services \ infra.listed
           Kept == \A s \in Rest \ suspect' :
                      container'[s][s] = env'[s] /\ s \in verified'
\* A start of what is listed leaves the rest alone, and settles the listed
\* services when it succeeds, or leaves them to be inspected.
<1>u. ASSUME infra # NoInfra, UNCHANGED env,
             BringUpListed \/ BringUpListedFails
      PROVE  /\ suspect \ Listed \subseteq suspect' => Kept
             /\ BringUpListed /\ suspect \ Listed \subseteq suspect' =>
                   Settled(Services)'
             /\ suspect' = suspect \cup Listed => Settled(Services)'
  <2>1. Listed \in SUBSET Services /\ Rest = Services \ Listed
    BY DEF Listed
  <2>2. /\ UpSucceeds(Listed) \/ UpFails(Listed)
        /\ BringUpListed => UpSucceeds(Listed)
    BY <1>u DEF BringUpListed, BringUpListedFails
  <2>3. /\ \A s \in Rest : /\ container'[s] = container[s]
                           /\ s \in verified' <=> s \in verified
        /\ BringUpListed =>
              \A s \in Listed : container'[s][s] = env[s] /\ s \in verified'
    BY <1>u, <2>1, <2>2, StartsSettle
  <2>4. \A s \in Rest \ suspect : container[s][s] = env[s] /\ s \in verified
    BY <1>u DEF InfraTags, Settled
  <2>5. ASSUME suspect \ Listed \subseteq suspect',
               NEW s \in Rest \ suspect'
        PROVE  container'[s][s] = env'[s] /\ s \in verified'
    BY <1>u, <2>1, <2>3, <2>4, <2>5
  <2>6. suspect' = suspect \cup Listed => suspect \ Listed \subseteq suspect'
    OBVIOUS
  <2>7. ASSUME suspect' = suspect \cup Listed
        PROVE  Services \ suspect' = Rest \ suspect'
    BY <2>1, <2>7
  <2>8. suspect \ Listed \subseteq suspect' =>
            \A s \in Rest \ suspect' :
               container'[s][s] = env'[s] /\ s \in verified'
    BY <2>5
  <2>9. suspect' = suspect \cup Listed => Settled(Services)'
    BY <2>6, <2>7, <2>8 DEF Settled
  <2>10. ASSUME BringUpListed, suspect \ Listed \subseteq suspect'
         PROVE  Settled(Services)'
    BY <1>u, <2>1, <2>3, <2>8, <2>10 DEF Settled
  <2> QED
    BY <2>8, <2>9, <2>10
\* The rest is settled when nobody else is suspected, and nothing started.
<1>g. ASSUME infra # NoInfra, UNCHANGED <<env, container, verified>>,
             suspect \subseteq suspect'
      PROVE  /\ Kept
             /\ Listed \subseteq suspect' => Settled(Services)'
  <2>1. \A s \in Rest \ suspect : container[s][s] = env[s] /\ s \in verified
    BY <1>g DEF InfraTags, Settled
  <2>2. Listed \subseteq suspect' => Services \ suspect' = Rest \ suspect'
    BY DEF Listed
  <2>3. \A s \in Rest \ suspect' :
           container'[s][s] = env'[s] /\ s \in verified'
    BY <1>g, <2>1
  <2> QED
    BY <2>2, <2>3 DEF Settled
<1>3. ASSUME NEW r \in Releases, BeginInfra(r)
      PROVE  InfraTags' /\ lock' # "free"
  <2>1. Settled(Services)'
    BY <1>1, <1>3, <1>f DEF BeginInfra
  <2> QED
    BY <1>3, <2>1 DEF BeginInfra, InfraTags, Settled
<1>k. ASSUME infra # NoInfra, infra' # NoInfra, lock' = lock,
             infra'.listed = infra.listed, Kept,
             infra'.pc \in {"install", "build", "reconcile"} =>
                Settled(Services)'
      PROVE  lock' # "free" /\ InfraTags'
  <2>1. lock' # "free"
    BY <1>k DEF ShapeInv, LockOK
  <2> QED
    BY <1>k, <2>1 DEF InfraTags, Settled
<1>4. CASE InstallPart \/ BuildReplay
  <2>1. infra # NoInfra /\ infra.pc \in {"install", "build"}
        /\ UNCHANGED <<env, container, verified, suspect, lock>>
    <3>1. CASE InstallPart
      BY <3>1 DEF InstallPart, InfraAt, NoInfra
    <3>2. CASE BuildReplay
      BY <3>2, BuildOf
    <3> QED
      BY <1>4, <3>1, <3>2
  <2>2. Settled(Services)'
    BY <1>f, <2>1 DEF InfraTags
  <2>3. Kept
    BY <1>g, <2>1
  <2>4. infra' # NoInfra /\ infra'.listed = infra.listed
    BY <1>4, <2>1, InfraRunOf, BuildOf DEF InstallPart, InfraGoto, NoInfra
  <2> QED
    BY <1>k, <2>1, <2>2, <2>3, <2>4
<1>5. CASE InstallFails
  <2>1. infra # NoInfra /\ infra.pc = "install" /\ infra' = NoInfra
        /\ UNCHANGED <<env, container, verified, suspect>>
    BY <1>5 DEF InstallFails, InfraAt, InfraExit, NoInfra
  <2> QED
    BY <1>f, <2>1 DEF InfraTags
<1>6. CASE Reconcile
  <2>1. infra # NoInfra /\ infra.pc = "reconcile" /\ UNCHANGED env
    BY <1>6 DEF Reconcile, InfraAt, NoInfra
  <2>2. CASE BringUpListed /\ suspect' = suspect \ Listed /\ infra' = NoInfra
    BY <1>u, <2>1, <2>2 DEF InfraTags
  <2>3. CASE BringUpListedFails /\ InfraGoto("restore")
             /\ UNCHANGED <<lock, suspect>>
    <3>1. /\ infra'.pc = "restore" /\ infra' # NoInfra
          /\ infra'.listed = infra.listed
      BY <2>1, <2>3, InfraRunOf DEF InfraGoto, NoInfra
    <3>2. Kept
      BY <1>u, <2>1, <2>3
    <3> QED
      BY <1>k, <2>1, <2>3, <3>1, <3>2
  <2> QED
    BY <1>6, <2>2, <2>3 DEF Reconcile, InfraExit
<1>7. CASE RestoreBundle
  <2>1. infra # NoInfra /\ infra.pc = "restore" /\ lock' = lock
        /\ UNCHANGED <<env, container, verified, suspect>>
    BY <1>7 DEF RestoreBundle, InfraAt, NoInfra
  <2>2. /\ infra'.pc = "again" /\ infra' # NoInfra
        /\ infra'.listed = infra.listed
    BY <1>7, <2>1, InfraRunOf DEF RestoreBundle, InfraGoto, NoInfra
  <2> QED
    BY <1>g, <1>k, <2>1, <2>2
<1>10. CASE RestoreFails
  <2>1. infra # NoInfra /\ infra' = NoInfra
        /\ UNCHANGED <<env, container, verified>>
        /\ suspect' = suspect \cup Listed
    BY <1>10 DEF RestoreFails, LeaveHalfway, InfraExit, InfraAt, NoInfra
  <2> QED
    BY <1>g, <2>1 DEF InfraTags
<1>8. CASE ReconcileAgain
  <2>1. infra # NoInfra /\ infra' = NoInfra /\ UNCHANGED env
    BY <1>8
    DEF ReconcileAgain, LeaveHalfway, InfraExit, InfraAt, NoInfra
  <2>2. CASE BringUpListed /\ suspect' = suspect \ Listed
    BY <1>u, <2>1, <2>2 DEF InfraTags
  <2>3. CASE BringUpListedFails /\ suspect' = suspect \cup Listed
    BY <1>u, <2>1, <2>3 DEF InfraTags
  <2> QED
    BY <1>8, <2>2, <2>3 DEF ReconcileAgain, LeaveHalfway
<1>9. CASE KillInfra
  <2>1. infra # NoInfra /\ infra' = NoInfra
        /\ UNCHANGED <<env, container, verified>>
    BY <1>9 DEF KillInfra, LeaveHalfway, InfraExit
  <2>2. CASE LeaveHalfway
    BY <1>g, <2>1, <2>2 DEF LeaveHalfway, InfraTags
  <2>3. CASE infra.pc \in {"install", "build"} /\ suspect' = suspect
    BY <1>f, <2>1, <2>3 DEF InfraTags
  <2> QED
    BY <1>9, <2>2, <2>3 DEF KillInfra
<1> QED
  BY <1>0, <1>3, <1>4, <1>5, <1>6, <1>7, <1>8, <1>9, <1>10
  DEF InfraNext, InfraStep, InfraTags

\* While scripts do not overlap, a switch is the only script.
LEMMA AloneSwitch ==
    ASSUME ShapeInv, ShapeInv', ~ Overlapping, ~ Overlapping',
           NEW o \in Operators,
           \/ \E m \in Modes : BeginSwitch(o, m)
           \/ SwitchStep(o) \/ KillSwitch(o),
           UNCHANGED <<jobVars, infraVars>>
    PROVE  /\ job = Idle /\ job' = Idle /\ infra = NoInfra /\ infra' = NoInfra
           /\ \A p \in Operators \ {o} :
                 /\ switch'[p] = switch[p]
                 /\ ~ Switching(p) /\ ~ Switching(p)'
           /\ Switching(o) \/ NoSwitch
<1>d. DOMAIN switch = Operators
  BY RunOf DEF ShapeInv
<1>1. CASE \E m \in Modes : BeginSwitch(o, m)
  <2>1. PICK m \in Modes : BeginSwitch(o, m)
    BY <1>1
  <2>2. /\ ~ Switching(o) /\ UNCHANGED hostVars
        /\ switch'[o].pc = "upsert"
        /\ \A p \in Operators \ {o} : switch'[p] = switch[p]
    BY <1>d, <2>1 DEF BeginSwitch
  <2>3. Switching(o)'
    BY <2>2 DEF Switching, Off
  <2>4. lock = "free"
    BY <2>2, <2>3 DEF Overlapping, hostVars
  <2>5. \A p \in Operators \ {o} : ~ Switching(p)'
    BY <2>3 DEF Overlapping
  <2> QED
    BY <2>2, <2>4, <2>5
    DEF ShapeInv, LockOK, jobVars, infraVars, Switching, NoSwitch
<1>2. CASE SwitchStep(o) \/ KillSwitch(o)
  <2>1. Switching(o)
    BY <1>2
    DEF SwitchStep, Upsert, MoveKey, FailUpsert, BringUpReplay,
        BringUpBackendAi, StopReplayContainer, RestoreEnv, RestoreEnvFails,
        RestartSucceeds, RestartFails, KillSwitch, AtStep, Switching, Off
  <2>2. \A p \in Operators \ {o} : switch'[p] = switch[p]
    BY <1>2, <1>d
    DEF SwitchStep, Upsert, MoveKey, FailUpsert, BringUpReplay,
        BringUpBackendAi, StopReplayContainer, RestoreEnv, RestoreEnvFails,
        RestartSucceeds, RestartFails, KillSwitch, Proceed, Leave,
        LeaveUnchecked, Done
  <2>3. lock = "free" /\ \A p \in Operators \ {o} : ~ Switching(p)
    BY <2>1 DEF Overlapping
  <2> QED
    BY <2>1, <2>2, <2>3
    DEF ShapeInv, LockOK, jobVars, infraVars, Switching
<1> QED
  BY <1>1, <1>2

\* What a step leaves of the run of an operator.
LEMMA ProceedsTo ==
    ASSUME ShapeInv, NEW o \in Operators, NEW stage, Proceed(o, stage),
           Switching(o)
    PROVE  /\ switch'[o].pc = stage /\ switch'[o].mode = switch[o].mode
           /\ switch'[o].todo = switch[o].todo
           /\ switch'[o].backup = switch[o].backup
           /\ switch'[o].temp = switch[o].temp
  BY RunOf DEF ShapeInv, Proceed, SwitchRun

\* A run that ended is no longer under way.
LEMMA LeavesOff ==
    ASSUME ShapeInv, NEW o \in Operators, Leave(o)
    PROVE  ~ Switching(o)'
  BY RunOf DEF ShapeInv, Leave, Switching

\* The steps of the switch.
LEMMA SwitchStepTags ==
    ASSUME ShapeInv, ShapeInv', TagsBody, ~ Overlapping, ~ Overlapping',
           SwitchScript
    PROVE  TagsBody'
<1> USE DEF TagsBody
<1>0. PICK o \in Operators :
          \/ \E m \in Modes : BeginSwitch(o, m)
          \/ SwitchStep(o) \/ KillSwitch(o)
  BY DEF SwitchScript, SwitchNext
<1>1. UNCHANGED <<jobVars, infraVars>>
  BY DEF SwitchScript
<1>a. /\ job = Idle /\ job' = Idle /\ infra = NoInfra /\ infra' = NoInfra
      /\ \A p \in Operators \ {o} :
            /\ switch'[p] = switch[p]
            /\ ~ Switching(p) /\ ~ Switching(p)'
      /\ Switching(o) \/ NoSwitch
  BY <1>0, <1>1, AloneSwitch
<1>2. SUFFICES /\ ~ Switching(o)' => Settled(Services)'
               /\ Switching(o)' => SwitchRunTags(o)'
  BY <1>a
  DEF JobTags, JobSettled, JobTemp, JobMoved, JobBackup, Idle, InfraTags,
      NoInfra, SwitchTags, NoSwitch
<1>d. DOMAIN switch = Operators
  BY RunOf DEF ShapeInv
<1>e. DOMAIN env = Services \cup ModeKeys /\ "backend-ai" \in Services
  BY HostAssumption DEF ShapeInv, HostTypeOK, Env
<1>t. Switching(o) => SwitchRunTags(o)
  BY DEF SwitchTags
<1>p. ASSUME NEW stage, stage # "off", AtStep(o, stage)
      PROVE  Switching(o) /\ switch[o].pc = stage
  BY <1>p, RunOf DEF AtStep, ShapeInv
<1>f. ASSUME UNCHANGED <<env, container, verified>>,
             suspect \subseteq suspect', NEW S, Settled(S)
      PROVE  Settled(S)'
  BY <1>f DEF Settled
<1>3. ASSUME NEW m \in Modes, BeginSwitch(o, m)
      PROVE  SwitchRunTags(o)' /\ Switching(o)'
  <2>1. NoSwitch /\ lock = "free"
    BY <1>3, <1>a DEF BeginSwitch, NoSwitch, ShapeInv, LockOK, HostTypeOK
  <2>2. UNCHANGED hostVars /\ switch'[o].pc = "upsert"
        /\ switch'[o].backup = env
    BY <1>3, <1>d DEF BeginSwitch
  <2>3. Settled(Services)' /\ Settled(Services \ {"backend-ai"})'
    BY <2>1, <2>2 DEF Settled, hostVars
  <2> QED
    BY <2>2, <2>3 DEF SwitchRunTags, Switching, Off, hostVars
<1>4. CASE Upsert(o)
  <2>1. Switching(o) /\ switch[o].pc = "upsert" /\ SwitchRunTags(o)
    BY <1>4, <1>p, <1>t DEF Upsert
  <2>2. UNCHANGED hostVars /\ switch'[o].pc = "move"
        /\ switch'[o].temp =
               [env EXCEPT ![Head(switch[o].todo)] = switch[o].mode]
        /\ switch'[o].backup = switch[o].backup
        /\ switch'[o].todo = switch[o].todo
        /\ switch'[o].mode = switch[o].mode
    BY <1>4, <1>d, <2>1, RunOf DEF Upsert, ShapeInv, SwitchRun
  <2>3. Switching(o)' /\ env' = env
    BY <2>2 DEF Switching, Off, hostVars
  <2>4. Settled(Services)' /\ Settled(Services \ {"backend-ai"})'
    BY <2>1, <2>2 DEF Settled, hostVars, SwitchRunTags
  <2>5. switch'[o].temp =
            [env' EXCEPT ![Head(switch'[o].todo)] = switch'[o].mode]
    BY <2>2, <2>3
  <2>6. \A s \in Services : switch'[o].backup[s] = env'[s]
    BY <2>1, <2>2, <2>3 DEF SwitchRunTags
  <2> QED
    BY <2>2, <2>3, <2>4, <2>5, <2>6 DEF SwitchRunTags
<1>5. CASE MoveKey(o)
  <2>1. Switching(o) /\ switch[o].pc = "move" /\ SwitchRunTags(o)
    BY <1>5, <1>p, <1>t DEF MoveKey
  <2>2. switch[o] \in SwitchRun /\ switch[o].todo # <<>>
    BY <2>1, RunOf DEF ShapeInv, SwitchShape
  <2>3. Head(switch[o].todo) \in ModeKeys
    BY <2>2, TailOf DEF SwitchRun
  <2>4. env' = [env EXCEPT ![Head(switch[o].todo)] = switch[o].mode]
        /\ UNCHANGED <<container, verified, suspect>>
    BY <1>5, <2>1 DEF MoveKey, SwitchRunTags
  <2>5. \A s \in Services : env'[s] = env[s]
    BY <1>e, <2>3, <2>4, HostAssumption
  <2>6. switch'[o].pc \in {"upsert", "replay", "backend-ai"}
        /\ switch'[o].backup = switch[o].backup
    BY <1>5, <1>d, <2>2 DEF MoveKey, FirstStart, SwitchRun
  <2>7. Settled(Services)' /\ Settled(Services \ {"backend-ai"})'
    BY <2>1, <2>4, <2>5 DEF Settled, SwitchRunTags
  <2>8. Switching(o)'
    BY <2>6 DEF Switching, Off
  <2> QED
    BY <2>1, <2>5, <2>6, <2>7, <2>8 DEF SwitchRunTags
<1>6. CASE FailUpsert(o) \/ BringUpReplay(o)
  <2>1. Switching(o) /\ switch[o].pc \in {"upsert", "move", "replay"}
        /\ SwitchRunTags(o) /\ UNCHANGED <<env, container, verified, suspect>>
    BY <1>6, <1>p, <1>t DEF FailUpsert, BringUpReplay, KeepHost, hostVars
  <2>2. Settled(Services)' /\ Settled(Services \ {"backend-ai"})'
    BY <1>f, <2>1 DEF SwitchRunTags
  <2>3. switch'[o].pc \in {"backend-ai", "restore"}
        /\ switch'[o].backup = switch[o].backup
    BY <1>6, <2>1, ProceedsTo DEF FailUpsert, BringUpReplay
  <2>4. Switching(o)'
    BY <2>3 DEF Switching, Off
  <2> QED
    BY <2>1, <2>2, <2>3, <2>4 DEF SwitchRunTags
<1>7. CASE BringUpBackendAi(o)
  <2>1. Switching(o) /\ switch[o].pc = "backend-ai" /\ SwitchRunTags(o)
        /\ UNCHANGED <<env, suspect>>
    BY <1>7, <1>p, <1>t DEF BringUpBackendAi
  <2>2. UpSucceeds({"backend-ai"}) \/ UpFails({"backend-ai"})
    BY <1>7 DEF BringUpBackendAi
  <2>3. /\ \A s \in Services \ {"backend-ai"} :
              container'[s] = container[s] /\ (s \in verified' <=> s \in verified)
        /\ UpSucceeds({"backend-ai"}) =>
              \A s \in {"backend-ai"} :
                 container'[s][s] = env[s] /\ s \in verified'
    BY <1>e, <2>1, <2>2, StartsSettle
  <2>4. Settled(Services \ {"backend-ai"})'
    BY <2>1, <2>3 DEF Settled, SwitchRunTags
  <2>5. UpSucceeds({"backend-ai"}) => Settled(Services)'
    BY <2>1, <2>3, <2>4 DEF Settled
  <2>6. CASE Leave(o)
    BY <1>7, <2>1, <2>5, <2>6, LeavesOff, ProceedsTo
    DEF BringUpBackendAi, Switching, Off
  <2>7. ASSUME NEW stage \in {"stop", "restore"}, Proceed(o, stage),
               stage = "stop" => UpSucceeds({"backend-ai"})
        PROVE  SwitchRunTags(o)' /\ Switching(o)'
    <3>1. switch'[o].pc = stage /\ switch'[o].backup = switch[o].backup
      BY <2>1, <2>7, ProceedsTo
    <3> QED
      BY <2>1, <2>4, <2>5, <2>7, <3>1 DEF SwitchRunTags, Switching, Off
  <2> QED
    BY <1>7, <2>6, <2>7 DEF BringUpBackendAi, Done
<1>8. CASE StopReplayContainer(o)
  <2>1. SwitchRunTags(o) /\ switch[o].pc = "stop" /\ ~ Switching(o)'
        /\ UNCHANGED <<env, container, verified, suspect>>
    BY <1>8, <1>p, <1>t, LeavesOff DEF StopReplayContainer, KeepHost, Done
  <2> QED
    BY <1>f, <2>1 DEF SwitchRunTags
<1>9. CASE RestoreEnv(o)
  <2>1. Switching(o) /\ switch[o].pc = "restore" /\ SwitchRunTags(o)
        /\ UNCHANGED <<container, verified, suspect>>
        /\ env' = switch[o].backup
    BY <1>9, <1>p, <1>t DEF RestoreEnv
  <2>2. switch'[o].pc = "restart" /\ switch'[o].backup = switch[o].backup
    BY <1>9, <2>1, ProceedsTo DEF RestoreEnv
  <2>3. Settled(Services \ {"backend-ai"})'
    BY <2>1 DEF Settled, SwitchRunTags
  <2> QED
    BY <2>1, <2>2, <2>3 DEF SwitchRunTags, Switching, Off
<1>11. CASE RestoreEnvFails(o)
  <2>1. Switching(o) /\ switch[o].pc = "restore" /\ SwitchRunTags(o)
        /\ UNCHANGED <<env, container, verified, suspect>>
    BY <1>11, <1>p, <1>t DEF RestoreEnvFails, hostVars
  <2>2. switch'[o].pc = "restart" /\ switch'[o].backup = switch[o].backup
    BY <1>11, <2>1, ProceedsTo DEF RestoreEnvFails
  <2>3. Settled(Services \ {"backend-ai"})'
    BY <2>1 DEF Settled, SwitchRunTags
  <2> QED
    BY <2>1, <2>2, <2>3 DEF SwitchRunTags, Switching, Off
<1>10. CASE RestartSucceeds(o) \/ RestartFails(o) \/ KillSwitch(o)
  <2>1. Switching(o) /\ ~ Switching(o)' /\ env' = env
        /\ suspect' = suspect \cup {"backend-ai"}
    BY <1>10, <1>p, LeavesOff
    DEF RestartSucceeds, RestartFails, KillSwitch, LeaveUnchecked
  <2>2. \A s \in Services \ {"backend-ai"} :
           container'[s] = container[s] /\ (s \in verified' <=> s \in verified)
    BY <1>10
    DEF RestartSucceeds, RestartFails, KillSwitch, Recreate
  <2> QED
    BY <1>t, <2>1, <2>2 DEF SwitchRunTags, Settled
<1> QED
  BY <1>0, <1>3, <1>4, <1>5, <1>6, <1>7, <1>8, <1>9, <1>10, <1>11
  DEF SwitchStep

\* A host that was prepared is settled.
LEMMA TagsInit == Init => TagsInv
<1> SUFFICES ASSUME Init PROVE ~ Overlapping /\ TagsBody
  BY DEF TagsInv
<1>1. /\ job = Idle /\ infra = NoInfra /\ lock = "free"
      /\ \A o \in Operators : ~ Switching(o)
  BY DEF Init, HostInit, DeploymentInit, InfraInit, SwitchInit, Switching
<1>2. Settled(Services)
  <2>1. container = [s \in Services |-> Config(s)] /\ verified = Services
    BY DEF Init, HostInit
  <2>2. \A s \in Services : Config(s)[s] = env[s]
    BY DEF Config, Interpolated
  <2> QED
    BY <2>1, <2>2 DEF Settled
<1> QED
  BY <1>1, <1>2
  DEF Overlapping, TagsBody, JobTags, JobSettled, JobTemp, JobMoved,
      JobBackup, InfraTags, SwitchTags, Idle

\* What the watch over overlapping scripts says of a step.
LEMMA WatchSays == Watch /\ ~ overlap' => ~ overlap /\ ~ Overlapping'
  BY DEF Watch

\* Stuttering changes none of it.
LEMMA TagsStutter == ASSUME TagsInv, UNCHANGED vars PROVE TagsInv'
<1>1. /\ UNCHANGED overlap
      /\ UNCHANGED <<hostVars, jobVars, switchVars, infraVars>>
  BY DEF vars
<1>2. Overlapping' <=> Overlapping
  BY <1>1 DEF Overlapping, Switching, hostVars, switchVars
<1>3. \A S : Settled(S) => Settled(S)'
  BY <1>1 DEF Settled, hostVars
<1>4. TagsBody => TagsBody'
  BY <1>1, <1>3
  DEF TagsBody, JobTags, JobSettled, JobTemp, JobMoved, JobBackup, InfraTags,
      SwitchTags, SwitchRunTags, NoSwitch, Switching, hostVars, jobVars,
      switchVars, infraVars
<1> QED
  BY <1>1, <1>2, <1>4 DEF TagsInv

\* So the tags are accounted for in every state.
LEMMA TagsHolds == Spec => []TagsInv
<1>1. ASSUME TagsInv, ShapeInv, ShapeInv', [Next]_vars PROVE TagsInv'
  <2>1. CASE Next
    <3> SUFFICES ASSUME ~ overlap' PROVE ~ Overlapping' /\ TagsBody'
      BY DEF TagsInv
    <3>1. ~ overlap /\ ~ Overlapping'
      BY <2>1, WatchSays DEF Next
    <3>2. ~ Overlapping /\ TagsBody
      BY <1>1, <3>1 DEF TagsInv
    <3> QED
      BY <1>1, <2>1, <3>1, <3>2, ServiceTags, SwitchStepTags, InfraStepTags
      DEF Next
  <2> QED
    BY <1>1, <2>1, TagsStutter
<1> QED
  BY <1>1, TagsInit, ShapeHolds, PTL DEF Spec

\* When no script is under way and none has overlapped another, every service
\* that was not left behind runs the tag that .env names and has passed its
\* checks (deploy_once and its rollback, reconcile and its rollback, and the
\* rollback of the switch).
THEOREM TagsStayTrue == Spec => []TagsRun
<1>1. TagsInv => TagsRun
  BY DEF TagsInv, TagsBody, TagsRun, Quiet, NoSwitch, Settled
<1> QED
  BY <1>1, TagsHolds, PTL

\* What finish_deployment publishes is what the containers run.
THEOREM PublishedStaysDeployed == Spec => PublishedIsDeployed
<1> DEFINE A == published' # published /\ ~ overlap =>
                    \A s \in Services \ suspect :
                       container[s][s] = published'[s] /\ s \in verified
<1>1. ASSUME TagsInv, ShapeInv, [Next]_vars PROVE A
  <2> SUFFICES ASSUME published' # published, ~ overlap PROVE A
    OBVIOUS
  <2>1. Publish
    BY <1>1
    DEF Next, vars, hostVars, ServiceScript, SwitchScript, InfraScript,
        DeploymentNext, DeploymentStep, TakeLock, ReadTags, BackUp,
        RewriteTag, MoveTag, Start, RestoreTags, StartAgain, KillDeployment,
        SwitchNext, SwitchStep, BeginSwitch, Upsert, MoveKey, FailUpsert,
        BringUpReplay, BringUpBackendAi, StopReplayContainer, RestoreEnv,
        RestoreEnvFails, RestartSucceeds, RestartFails, KillSwitch, KeepHost,
        InfraNext, InfraStep, BeginInfra, InstallPart, InstallFails,
        BuildReplay, Reconcile, RestoreBundle, RestoreFails,
        ReconcileAgain, KillInfra, LeaveHalfway
  <2>2. published' = env /\ job # Idle /\ job.pc = "publish"
    BY <2>1 DEF Publish, At, Idle
  <2>3. Settled(Services)
    BY <1>1, <2>2 DEF TagsInv, TagsBody, JobTags, JobSettled
  <2> QED
    BY <2>2, <2>3 DEF Settled
<1> QED
  BY <1>1, TagsHolds, ShapeHolds, PTL DEF Spec, PublishedIsDeployed

\* A run of deploy-service that ends with its last command has moved all its
\* services to the tag, or has put back every tag it found.
THEOREM RunsStayAtomic == Spec => RunsAreAtomic
<1> DEFINE A ==
      job # Idle /\ job' = Idle /\ job.pc \in {"publish", "retry"}
         /\ ~ overlap =>
          \/ \A s \in Members(job.order) : env'[s] = job.tag
          \/ \A s \in Services : env'[s] = job.backup[s]
<1>1. ASSUME TagsInv, ShapeInv, [Next]_vars PROVE A
  <2> SUFFICES ASSUME job # Idle, job' = Idle, ~ overlap,
                      job.pc \in {"publish", "retry"}
               PROVE  \/ \A s \in Members(job.order) : env'[s] = job.tag
                      \/ \A s \in Services : env'[s] = job.backup[s]
    OBVIOUS
  <2>1. StartAgain \/ Publish \/ KillDeployment
    BY <1>1
    DEF Next, vars, jobVars, ServiceScript, SwitchScript, InfraScript,
        DeploymentNext, DeploymentStep, TakeLock, ReadTags, BackUp,
        RewriteTag, MoveTag, Start, RestoreTags, At, Idle
  <2>2. env' = env
    BY <2>1 DEF StartAgain, Publish, KillDeployment
  <2> QED
    BY <1>1, <2>2 DEF TagsInv, TagsBody, JobTags, JobMoved, JobBackup
<1> QED
  BY <1>1, TagsHolds, ShapeHolds, PTL DEF Spec, RunsAreAtomic

-----------------------------------------------------------------------------
(* The mode.                                                               *)

\* How a start changes what backend-ai is wired to.
LEMMA StartsWire ==
    ASSUME NEW S \in SUBSET Services, UpSucceeds(S) \/ UpFails(S),
           UNCHANGED env
    PROVE  /\ \A k \in WiredKeys :
                 \/ container'["backend-ai"][k] = container["backend-ai"][k]
                 \/ container'["backend-ai"][k] = env[k]
           /\ UpSucceeds(S) /\ "backend-ai" \in S =>
                 \A k \in WiredKeys : container'["backend-ai"][k] = env[k]
<1>1. ASSUME NEW done, Recreate(done)
      PROVE  \/ container'["backend-ai"] = container["backend-ai"]
             \/ container'["backend-ai"] = Config("backend-ai")
  BY <1>1, HostAssumption DEF Recreate
<1>2. \A k \in WiredKeys : Config("backend-ai")[k] = env[k]
  BY DEF Config, WiredKeys
<1>3. ASSUME NEW done, Recreate(done), "backend-ai" \in done
      PROVE  container'["backend-ai"] = Config("backend-ai")
  BY <1>3, HostAssumption DEF Recreate
<1> QED
  BY <1>1, <1>2, <1>3 DEF UpSucceeds, UpFails

\* The mode outlasts a step that changes no key of it and starts, if at all,
\* containers with them, and that stops no replay service.
LEMMA ModeOutlasts ==
    ASSUME ModeBody, NoSwitch, NoSwitch', UNCHANGED unfinished,
           \A k \in ModeKeys : env'[k] = env[k],
           \A k \in WiredKeys :
              \/ container'["backend-ai"][k] = container["backend-ai"][k]
              \/ container'["backend-ai"][k] = env[k],
           replay # "down" => replay' # "down"
    PROVE  ModeBody'
<1>1. ASSUME ~ unfinished'
      PROVE  (\E m \in Modes : ModeOfKeys(env, m) /\ Wires(m))'
  <2>1. ~ unfinished
    BY <1>1
  <2>2. PICK m \in Modes : ModeOfKeys(env, m) /\ Wires(m)
    BY <2>1 DEF ModeBody
  <2>3. ModeOfKeys(env, m)'
    BY <2>2 DEF ModeOfKeys
  <2>4. Wires(m)'
    BY <2>2 DEF Wires, ModeOfKeys, WiredKeys
  <2> QED
    BY <2>3, <2>4
<1> QED
  BY <1>1 DEF ModeBody, NoSwitch

\* A service deployment writes no key of the mode.
LEMMA ServiceMode ==
    ASSUME ShapeInv, ModeBody, TagsBody, ~ Overlapping, ~ Overlapping',
           ServiceScript
    PROVE  ModeBody'
<1>1. NoSwitch /\ NoSwitch' /\ UNCHANGED <<unfinished, replay>>
  BY AloneService, ServiceKeepsReplay DEF switchVars
<1>2. SUFFICES /\ \A k \in ModeKeys : env'[k] = env[k]
               /\ \A k \in WiredKeys :
                  \/ container'["backend-ai"][k] = container["backend-ai"][k]
                  \/ container'["backend-ai"][k] = env[k]
  BY <1>1, ModeOutlasts
<1>e. DOMAIN env = Services \cup ModeKeys
  BY DEF ShapeInv, HostTypeOK, Env
<1>3. CASE MoveTag
  <2>1. job # Idle /\ job.pc = "move" /\ job.todo # <<>>
    BY <1>3 DEF MoveTag, At, Idle, ShapeInv, JobShape
  <2>2. Head(job.todo) \in Services
    BY <2>1, JobOf, TailOf
  <2>3. env' = [env EXCEPT ![Head(job.todo)] = job.tag]
    BY <1>3, <2>1 DEF MoveTag, TagsBody, JobTags, JobTemp
  <2> QED
    BY <1>3, <1>e, <2>2, <2>3, HostAssumption DEF MoveTag
<1>4. CASE RestoreTags
  <2>1. job # Idle /\ job.pc = "restore" /\ env' = job.backup
    BY <1>4 DEF RestoreTags, At, Idle
  <2>2. \A k \in (Services \cup ModeKeys) \ Members(job.order) :
           job.backup[k] = env[k]
    BY <2>1 DEF TagsBody, JobTags, JobBackup
  <2>3. Members(job.order) \cap ModeKeys = {}
    BY <2>1, JobOf
  <2> QED
    BY <1>4, <2>1, <2>2, <2>3 DEF RestoreTags
<1>5. CASE Start \/ StartAgain
  <2>1. job # Idle
    BY <1>5 DEF Start, StartAgain, At, Idle
  <2>2. Members(job.order) \in SUBSET Services
    BY <2>1, JobOf
  <2>3. /\ UNCHANGED env
        /\ UpSucceeds(Members(job.order)) \/ UpFails(Members(job.order))
    BY <1>5 DEF Start, StartAgain
  <2> QED
    BY <2>2, <2>3, StartsWire
<1>6. CASE UNCHANGED <<env, container>>
  BY <1>6
<1> QED
  BY <1>3, <1>4, <1>5, <1>6
  DEF ServiceScript, DeploymentNext, DeploymentStep, TakeLock, ReadTags,
      BackUp, RewriteTag, Publish, KillDeployment, hostVars

\* Nor does deploy-infra, which leaves a replay service up.
LEMMA InfraMode ==
    ASSUME ShapeInv, ModeBody, ~ Overlapping, ~ Overlapping', InfraScript
    PROVE  ModeBody'
<1>1. NoSwitch /\ NoSwitch' /\ UNCHANGED unfinished
  BY AloneInfra DEF InfraScript, switchVars
<1>2. UNCHANGED env
  BY BuildOf
  DEF InfraScript, InfraNext, InfraStep, BeginInfra, InstallPart,
      InstallFails, Reconcile, RestoreBundle, RestoreFails, ReconcileAgain,
      KillInfra
<1>3. CASE Reconcile \/ ReconcileAgain
  <2>1. /\ Listed \in SUBSET Services
        /\ UpSucceeds(Listed) \/ UpFails(Listed)
    BY <1>3
    DEF Reconcile, ReconcileAgain, BringUpListed, BringUpListedFails, Listed
  <2>2. \A k \in WiredKeys :
           \/ container'["backend-ai"][k] = container["backend-ai"][k]
           \/ container'["backend-ai"][k] = env[k]
    BY <1>2, <2>1, StartsWire
  <2>3. image # "down"
    BY HostAssumption DEF ShapeInv, HostTypeOK
  <2>4. replay # "down" => replay' # "down"
    BY <1>3, <2>3
    DEF Reconcile, ReconcileAgain, BringUpListed, BringUpListedFails,
        StartReplay
  <2> QED
    BY <1>1, <1>2, <2>2, <2>4, ModeOutlasts
<1>4. CASE UNCHANGED <<container, replay>>
  BY <1>1, <1>2, <1>4, ModeOutlasts
<1> QED
  BY <1>3, <1>4, BuildOf
  DEF InfraScript, InfraNext, InfraStep, BeginInfra, InstallPart,
      InstallFails, RestoreBundle, RestoreFails, KillInfra

\* The steps of the switch.
LEMMA SwitchStepMode ==
    ASSUME ShapeInv, ShapeInv', ModeBody, TagsBody, ~ Overlapping,
           ~ Overlapping', SwitchScript
    PROVE  ModeBody'
<1>0. PICK o \in Operators :
          \/ \E m \in Modes : BeginSwitch(o, m)
          \/ SwitchStep(o) \/ KillSwitch(o)
  BY DEF SwitchScript, SwitchNext
<1>a. /\ \A p \in Operators \ {o} : ~ Switching(p) /\ ~ Switching(p)'
      /\ Switching(o) \/ NoSwitch
  BY <1>0, AloneSwitch DEF SwitchScript
<1>2. SUFFICES
         /\ ~ Switching(o)' /\ ~ unfinished' =>
               (\E m \in Modes : ModeOfKeys(env, m) /\ Wires(m))'
         /\ Switching(o)' => SwitchMode(o)'
  BY <1>a DEF ModeBody, NoSwitch
<1>d. DOMAIN switch = Operators
  BY RunOf DEF ShapeInv
<1>e. /\ DOMAIN env = Services \cup ModeKeys /\ "backend-ai" \in Services
      /\ "down" \notin Releases /\ disk["replay"] \in Releases
  BY HostAssumption, OrdersOf DEF ShapeInv, HostTypeOK, Env
<1>t. Switching(o) => SwitchMode(o)
  BY DEF ModeBody
<1>p. ASSUME NEW stage, stage # "off", AtStep(o, stage)
      PROVE  /\ Switching(o) /\ switch[o].pc = stage /\ SwitchMode(o)
             /\ switch[o] \in SwitchRun
  BY <1>p, <1>t, RunOf DEF AtStep, ShapeInv
<1>b. ASSUME ~ unfinished => \E m \in Modes : ModeOfKeys(switch[o].backup, m),
             switch'[o].backup = switch[o].backup,
             ~ unfinished' => ~ unfinished,
             replay # "down" => replay' # "down"
      PROVE  (~ unfinished => \E m \in Modes :
                                 ModeOfKeys(switch[o].backup, m))'
  BY <1>b DEF ModeOfKeys
<1>3. ASSUME NEW m \in Modes, BeginSwitch(o, m)
      PROVE  SwitchMode(o)' /\ Switching(o)'
  <2>1. NoSwitch /\ UNCHANGED <<hostVars, unfinished>>
        /\ switch'[o] = [pc |-> "upsert", mode |-> m, todo |-> ModeKeyOrder,
                         backup |-> env, temp |-> env]
    BY <1>3, <1>a, <1>d DEF BeginSwitch
  <2>2. Members(switch'[o].todo) = ModeKeys
    BY <2>1, OrdersOf
  <2>3. (~ unfinished => \E n \in Modes : ModeOfKeys(switch[o].backup, n))'
    BY <2>1 DEF ModeBody, ModeOfKeys, hostVars
  <2> QED
    BY <2>1, <2>2, <2>3 DEF SwitchMode, Switching, Off
<1>4. CASE Upsert(o)
  <2>1. Switching(o) /\ switch[o].pc = "upsert" /\ SwitchMode(o)
        /\ switch[o] \in SwitchRun
    BY <1>4, <1>p DEF Upsert
  <2>2. UNCHANGED <<hostVars, unfinished>> /\ switch'[o].pc = "move"
        /\ switch'[o].backup = switch[o].backup
        /\ switch'[o].todo = switch[o].todo
        /\ switch'[o].mode = switch[o].mode
    BY <1>4, <1>d, <2>1 DEF Upsert, SwitchRun
  <2>3. (~ unfinished => \E n \in Modes : ModeOfKeys(switch[o].backup, n))'
    BY <1>b, <2>1, <2>2 DEF SwitchMode, hostVars
  <2> QED
    BY <2>1, <2>2, <2>3 DEF SwitchMode, Switching, Off, hostVars
<1>5. CASE MoveKey(o)
  <2>1. Switching(o) /\ switch[o].pc = "move" /\ SwitchMode(o)
        /\ switch[o] \in SwitchRun
    BY <1>5, <1>p DEF MoveKey
  <2>2. switch[o].todo \in Seq(ModeKeys) /\ switch[o].todo # <<>>
    BY <2>1 DEF ShapeInv, SwitchShape, SwitchRun
  <2>3. /\ Head(switch[o].todo) \in ModeKeys
        /\ Members(switch[o].todo) = {Head(switch[o].todo)}
               \cup Members(Tail(switch[o].todo))
        /\ Tail(switch[o].todo) = <<>> <=> Len(switch[o].todo) = 1
        /\ Len(switch[o].todo) \in Nat
    BY <2>2, TailOf
  <2>4. env' = [env EXCEPT ![Head(switch[o].todo)] = switch[o].mode]
        /\ UNCHANGED <<replay, unfinished>>
    <3>1. SwitchRunTags(o)
      BY <2>1 DEF TagsBody, SwitchTags
    <3> QED
      BY <1>5, <2>1, <3>1 DEF MoveKey, SwitchRunTags
  <2>5. /\ switch'[o].todo = Tail(switch[o].todo)
        /\ switch'[o].mode = switch[o].mode
        /\ switch'[o].backup = switch[o].backup
        /\ switch'[o].pc = IF Len(switch[o].todo) > 1 THEN "upsert"
                           ELSE FirstStart(switch[o].mode)
    BY <1>5, <1>d, <2>1 DEF MoveKey, SwitchRun
  <2>6. \A k \in ModeKeys \ Members(Tail(switch[o].todo)) :
           env'[k] = switch[o].mode
    BY <1>e, <2>1, <2>3, <2>4 DEF SwitchMode
  <2>7. (~ unfinished => \E n \in Modes : ModeOfKeys(switch[o].backup, n))'
    BY <1>b, <2>1, <2>4, <2>5 DEF SwitchMode
  <2>8. ~ (Len(switch[o].todo) > 1) => switch'[o].todo = <<>>
    <3>1. Len(switch[o].todo) # 0
      BY <2>2, NoMembers
    <3> DEFINE n == Len(switch[o].todo)
    <3>2. n \in Nat /\ n # 0
      BY <2>3, <3>1
    <3> HIDE DEF n
    <3>3. ~ (n > 1) => n = 1
      BY <3>2
    <3> USE DEF n
    <3> QED
      BY <2>3, <2>5, <3>3
  <2>9. /\ switch'[o].pc \in {"upsert", "replay", "backend-ai"}
        /\ switch'[o].pc \in {"replay", "backend-ai"} => switch'[o].todo = <<>>
        /\ switch'[o].pc = "backend-ai" => switch'[o].mode # "replay"
    BY <2>5, <2>8 DEF FirstStart
  <2> QED
    BY <2>5, <2>6, <2>7, <2>9 DEF SwitchMode, Switching, Off
<1>6. CASE FailUpsert(o)
  <2>1. Switching(o) /\ SwitchMode(o) /\ UNCHANGED <<replay, unfinished>>
    BY <1>6, <1>p DEF FailUpsert, hostVars
  <2>2. switch'[o].pc = "restore" /\ switch'[o].backup = switch[o].backup
    BY <1>6, <2>1, ProceedsTo DEF FailUpsert
  <2>3. (~ unfinished => \E n \in Modes : ModeOfKeys(switch[o].backup, n))'
    BY <1>b, <2>1, <2>2 DEF SwitchMode
  <2> QED
    BY <2>2, <2>3 DEF SwitchMode, Switching, Off
<1>7. CASE BringUpReplay(o)
  <2>1. Switching(o) /\ SwitchMode(o) /\ switch[o].pc = "replay"
        /\ UNCHANGED <<env, unfinished>>
        /\ (replay # "down" => replay' # "down")
    BY <1>7, <1>e, <1>p DEF BringUpReplay, KeepHost
  <2>2. CASE Proceed(o, "restore")
    <3>1. switch'[o].pc = "restore" /\ switch'[o].backup = switch[o].backup
      BY <2>1, <2>2, ProceedsTo
    <3>2. (~ unfinished => \E n \in Modes : ModeOfKeys(switch[o].backup, n))'
      BY <1>b, <2>1, <3>1 DEF SwitchMode
    <3> QED
      BY <3>1, <3>2 DEF SwitchMode, Switching, Off
  <2>3. CASE Proceed(o, "backend-ai") /\ replay' = disk["replay"]
    <3>1. /\ switch'[o].pc = "backend-ai"
          /\ switch'[o].backup = switch[o].backup
          /\ switch'[o].todo = switch[o].todo
          /\ switch'[o].mode = switch[o].mode
      BY <2>1, <2>3, ProceedsTo
    <3>2. (~ unfinished => \E n \in Modes : ModeOfKeys(switch[o].backup, n))'
      BY <1>b, <2>1, <3>1 DEF SwitchMode
    <3> QED
      BY <1>e, <2>1, <2>3, <3>1, <3>2 DEF SwitchMode, Switching, Off
  <2> QED
    BY <1>7, <2>2, <2>3 DEF BringUpReplay
<1>8. CASE BringUpBackendAi(o)
  <2>1. Switching(o) /\ SwitchMode(o) /\ switch[o].pc = "backend-ai"
        /\ switch[o].mode \in Modes /\ UNCHANGED <<env, replay>>
    BY <1>8, <1>p DEF BringUpBackendAi, SwitchRun
  <2>2. \A k \in ModeKeys : env[k] = switch[o].mode
    BY <2>1, NoMembers DEF SwitchMode
  <2>3. UpSucceeds({"backend-ai"}) =>
            \A k \in WiredKeys : container'["backend-ai"][k] = switch[o].mode
    <3>1. UpSucceeds({"backend-ai"}) =>
              \A k \in WiredKeys : container'["backend-ai"][k] = env[k]
      BY <1>e, <2>1, StartsWire
    <3> QED
      BY <2>2, <3>1 DEF WiredKeys
  <2>4. CASE Proceed(o, "restore") /\ UNCHANGED unfinished
    <3>1. switch'[o].pc = "restore" /\ switch'[o].backup = switch[o].backup
      BY <2>1, <2>4, ProceedsTo
    <3>2. (~ unfinished => \E n \in Modes : ModeOfKeys(switch[o].backup, n))'
      BY <1>b, <2>1, <2>4, <3>1 DEF SwitchMode
    <3> QED
      BY <3>1, <3>2 DEF SwitchMode, Switching, Off
  <2>5. CASE UpSucceeds({"backend-ai"}) /\ Proceed(o, "stop")
             /\ UNCHANGED unfinished
    <3>1. /\ switch'[o].pc = "stop"
          /\ switch'[o].backup = switch[o].backup
          /\ switch'[o].todo = switch[o].todo
          /\ switch'[o].mode = switch[o].mode
      BY <2>1, <2>5, ProceedsTo
    <3>2. (~ unfinished => \E n \in Modes : ModeOfKeys(switch[o].backup, n))'
      BY <1>b, <2>1, <2>5, <3>1 DEF SwitchMode
    <3>3. Wires(switch[o].mode)'
      BY <2>3, <2>5, <3>1 DEF Wires
    <3> QED
      BY <2>1, <3>1, <3>2, <3>3 DEF SwitchMode, Switching, Off
  <2>6. CASE UpSucceeds({"backend-ai"}) /\ Leave(o)
             /\ switch[o].mode # "live"
    <3>1. ~ Switching(o)'
      BY <2>6, LeavesOff
    <3>2. switch[o].mode = "replay" /\ replay # "down"
      BY <2>1, <2>6 DEF Modes, SwitchMode
    <3>3. \A k \in ModeKeys : env'[k] = "replay"
      BY <2>1, <2>2, <3>2
    <3>4. \A k \in WiredKeys : container'["backend-ai"][k] = "replay"
      BY <2>3, <2>6, <3>2
    <3>5. (\E m \in Modes : ModeOfKeys(env, m) /\ Wires(m))'
      BY <2>1, <3>2, <3>3, <3>4 DEF ModeOfKeys, Wires, Modes
    <3> QED
      BY <3>1, <3>5
  <2> QED
    BY <1>8, <2>4, <2>5, <2>6 DEF BringUpBackendAi, Done
<1>9. CASE StopReplayContainer(o)
  <2>1. /\ SwitchMode(o) /\ switch[o].pc = "stop" /\ Leave(o)
        /\ Switching(o) /\ UNCHANGED <<env, container>>
    BY <1>9, <1>p DEF StopReplayContainer, KeepHost, Done
  <2>2. switch[o].mode = "live" /\ ~ Switching(o)'
    BY <2>1, LeavesOff DEF ShapeInv, SwitchShape
  <2>3. (\A k \in ModeKeys : env'[k] = "live") /\ Wires("live")'
    BY <2>1, <2>2, NoMembers DEF SwitchMode, Wires
  <2>4. (\E m \in Modes : ModeOfKeys(env, m) /\ Wires(m))'
    BY <2>3 DEF ModeOfKeys, Modes
  <2> QED
    BY <2>2, <2>4
<1>10. CASE RestoreEnv(o)
  <2>1. Switching(o) /\ SwitchMode(o) /\ UNCHANGED <<replay, unfinished>>
        /\ env' = switch[o].backup
    BY <1>10, <1>p DEF RestoreEnv
  <2>2. switch'[o].pc = "restart" /\ switch'[o].backup = switch[o].backup
    BY <1>10, <2>1, ProceedsTo DEF RestoreEnv
  <2>3. (~ unfinished => \E n \in Modes : ModeOfKeys(switch[o].backup, n))'
    BY <1>b, <2>1, <2>2 DEF SwitchMode
  <2> QED
    BY <2>1, <2>2, <2>3 DEF SwitchMode, Switching, Off
<1>13. CASE RestoreEnvFails(o)
  <2>1. Switching(o) /\ unfinished' = TRUE
    BY <1>13, <1>p DEF RestoreEnvFails
  <2>2. switch'[o].pc = "restart"
    BY <1>13, <2>1, ProceedsTo DEF RestoreEnvFails
  <2> QED
    BY <2>1, <2>2 DEF SwitchMode, Switching, Off
<1>11. CASE RestartSucceeds(o)
  <2>1. Switching(o) /\ SwitchMode(o) /\ UNCHANGED <<env, replay, unfinished>>
        /\ (~ unfinished => env = switch[o].backup) /\ ~ Switching(o)'
        /\ Recreate({"backend-ai"})
    BY <1>11, <1>p, LeavesOff DEF RestartSucceeds, LeaveUnchecked, SwitchMode
  <2>2. container'["backend-ai"] = Config("backend-ai")
    BY <1>e, <2>1 DEF Recreate
  <2>3. \A k \in WiredKeys : container'["backend-ai"][k] = env[k]
    BY <2>2 DEF Config, WiredKeys
  <2>4. ASSUME ~ unfinished'
        PROVE  (\E m \in Modes : ModeOfKeys(env, m) /\ Wires(m))'
    <3>1. PICK m \in Modes : ModeOfKeys(env, m)
      BY <2>1, <2>4 DEF SwitchMode
    <3>2. ModeOfKeys(env, m)' /\ Wires(m)'
      BY <2>1, <2>3, <3>1 DEF ModeOfKeys, Wires, WiredKeys
    <3> QED
      BY <3>2
  <2> QED
    BY <2>1, <2>4
<1>12. CASE RestartFails(o) \/ KillSwitch(o)
  <2>1. unfinished' = TRUE /\ ~ Switching(o)'
    BY <1>12, LeavesOff DEF RestartFails, KillSwitch, LeaveUnchecked
  <2> QED
    BY <2>1
<1> QED
  BY <1>0, <1>3, <1>4, <1>5, <1>6, <1>7, <1>8, <1>9, <1>10, <1>11, <1>12,
     <1>13
  DEF SwitchStep

\* A host that was prepared is in one mode.
LEMMA ModeInit == Init => ModeInv
<1> SUFFICES ASSUME Init PROVE ModeBody
  BY DEF ModeInv
<1>1. \A o \in Operators : ~ Switching(o)
  BY DEF Init, SwitchInit, Switching
<1>2. PICK m \in Modes, r \in Releases, t \in Tags :
          /\ env = [k \in Services \cup ModeKeys |->
                       IF k \in Services THEN t ELSE m]
          /\ container = [s \in Services |-> Config(s)]
          /\ replay = IF m = "replay" THEN r ELSE "down"
  BY DEF Init, HostInit
<1>3. ModeOfKeys(env, m)
  BY <1>2, HostAssumption DEF ModeOfKeys
<1>4. container["backend-ai"] = Config("backend-ai")
  BY <1>2, HostAssumption
<1>5. Wires(m)
  BY <1>3, <1>4 DEF Wires, WiredKeys, Config, ModeOfKeys
<1> QED
  BY <1>1, <1>3, <1>5 DEF ModeBody

\* Stuttering changes none of it.
LEMMA ModeStutters == ASSUME ModeInv, UNCHANGED vars PROVE ModeInv'
<1>1. UNCHANGED overlap /\ UNCHANGED <<hostVars, switchVars>>
  BY DEF vars
<1>2. ModeBody => ModeBody'
  BY <1>1
  DEF ModeBody, NoSwitch, Switching, ModeOfKeys, Wires, SwitchMode, hostVars,
      switchVars
<1> QED
  BY <1>1, <1>2 DEF ModeInv

\* So the mode is accounted for in every state.
LEMMA ModeHolds == Spec => []ModeInv
<1>1. ASSUME ModeInv, TagsInv, ShapeInv, ShapeInv', [Next]_vars
      PROVE  ModeInv'
  <2>1. CASE Next
    <3> SUFFICES ASSUME ~ overlap' PROVE ModeBody'
      BY DEF ModeInv
    <3>1. ~ overlap /\ ~ Overlapping'
      BY <2>1, WatchSays DEF Next
    <3>2. ~ Overlapping /\ TagsBody /\ ModeBody
      BY <1>1, <3>1 DEF TagsInv, ModeInv
    <3> QED
      BY <1>1, <2>1, <3>1, <3>2, ServiceMode, SwitchStepMode, InfraMode
      DEF Next
  <2> QED
    BY <1>1, <2>1, ModeStutters
<1> QED
  BY <1>1, ModeInit, TagsHolds, ShapeHolds, PTL DEF Spec

\* The mode is whole: while no scripts overlapped and no switch was cut short
\* since the last success, the three keys of .env agree, backend-ai was
\* created with them, and the replay service they name is up (main and
\* rollback of switch-serving-mode.sh; no deployment breaks it either).
THEOREM ModeStaysWhole == Spec => []ModeIsWhole
<1>1. ModeInv => ModeIsWhole
  BY DEF ModeInv, ModeBody, ModeIsWhole, Quiet, NoSwitch, ModeOfKeys, Wires,
         WiredKeys
<1> QED
  BY <1>1, ModeHolds, PTL

-----------------------------------------------------------------------------
(* Types.                                                                  *)

\* The counters stay within their bounds.
LEMMA CountersStay == Spec => []CountersOK
<1>1. Init => CountersOK
  BY ServiceDeploymentAssumption, SwitchAssumption, InfraAssumption
  DEF Init, DeploymentInit, SwitchInit, InfraInit, CountersOK
<1>2. ASSUME CountersOK, [Next]_vars PROVE CountersOK'
  <2>1. \/ launched' = launched
        \/ launched < MaxDeploys /\ launched' = launched + 1
    BY <1>2
    DEF Next, vars, jobVars, ServiceScript, SwitchScript, InfraScript,
        DeploymentNext, DeploymentStep, TakeLock, ReadTags, BackUp,
        RewriteTag, MoveTag, Start, RestoreTags, StartAgain, Publish,
        KillDeployment
  <2>2. \/ switched' = switched
        \/ switched < MaxSwitches /\ switched' = switched + 1
    BY <1>2
    DEF Next, vars, switchVars, ServiceScript, SwitchScript, InfraScript,
        SwitchNext, SwitchStep, BeginSwitch, Upsert, MoveKey, FailUpsert,
        BringUpReplay, BringUpBackendAi, StopReplayContainer, RestoreEnv,
        RestoreEnvFails, RestartSucceeds, RestartFails, KillSwitch
  <2>3. \/ installed' = installed
        \/ installed < MaxInfra /\ installed' = installed + 1
    BY <1>2
    DEF Next, vars, infraVars, ServiceScript, SwitchScript, InfraScript,
        InfraNext, InfraStep, BeginInfra, InstallPart, InstallFails,
        BuildReplay, Reconcile, RestoreBundle, RestoreFails,
        ReconcileAgain, KillInfra, LeaveHalfway
  <2> QED
    BY <1>2, <2>1, <2>2, <2>3, ServiceDeploymentAssumption,
       SwitchAssumption, InfraAssumption
    DEF CountersOK
<1> QED
  BY <1>1, <1>2, PTL DEF Spec

\* The flags are flags.
LEMMA FlagsStay == Spec => []FlagsOK
<1>1. Init => FlagsOK
  BY Zenon DEF Init, SwitchInit, InfraInit, FlagsOK
<1>2. ASSUME FlagsOK, [Next]_vars PROVE FlagsOK'
  <2>1. unfinished' \in {unfinished, TRUE, FALSE}
    BY <1>2
    DEF Next, vars, switchVars, ServiceScript, SwitchScript, InfraScript,
        SwitchNext, SwitchStep, BeginSwitch, Upsert, MoveKey, FailUpsert,
        BringUpReplay, BringUpBackendAi, StopReplayContainer, RestoreEnv,
        RestoreEnvFails, RestartSucceeds, RestartFails, KillSwitch, Done
  <2>2. aborted' \in {aborted, TRUE, FALSE}
    BY <1>2
    DEF Next, vars, infraVars, ServiceScript, SwitchScript, InfraScript,
        InfraNext, InfraStep, BeginInfra, InstallPart, InstallFails,
        BuildReplay, Reconcile, RestoreBundle, RestoreFails,
        ReconcileAgain, KillInfra, LeaveHalfway
  <2>4. lost' \in {lost, TRUE, FALSE} /\ missed' \in {missed, TRUE, FALSE}
    BY <1>2
    DEF Next, vars, infraVars, ServiceScript, SwitchScript, InfraScript,
        InfraNext, InfraStep, BeginInfra, InstallPart, InstallFails,
        BuildReplay, Reconcile, RestoreBundle, RestoreImage, RestoreFails,
        ReconcileAgain, KillInfra, LeaveHalfway
  <2>3. overlap' = (overlap \/ Overlapping') \/ overlap' = overlap
    BY <1>2 DEF Next, Watch, vars
  <2> QED
    BY <1>2, <2>1, <2>2, <2>3, <2>4, Zenon DEF FlagsOK
<1> QED
  BY <1>1, <1>2, PTL DEF Spec

\* Every variable of the host and its scripts keeps its type, and the lock
\* names the deployment that is under way.
THEOREM TypesHold == Spec => []TypeOK
<1>1. ShapeInv /\ CountersOK /\ FlagsOK => TypeOK
  BY Zenon
  DEF ShapeInv, CountersOK, FlagsOK, TypeOK, DeploymentTypeOK, SwitchTypeOK,
      InfraTypeOK, JobOK, SwitchesOK, InfraOK, LockOK
<1> QED
  BY <1>1, ShapeHolds, CountersStay, FlagsStay, PTL
=============================================================================
