--------------------------- MODULE InfraDeployment ---------------------------
(***************************************************************************)
(* battery-deploy-infra (scripts/deploy-infra.sh): one run installs the    *)
(* parts of a bundle one after the other, builds the replay image from the *)
(* new source when replay is running, and reconciles the services that     *)
(* were running with the new Compose files; when that fails it puts back   *)
(* the parts it has backed up and reconciles them again.  A run that ends  *)
(* before the first part is installed (download, validation, no service    *)
(* is running) has changed nothing.                                        *)
(*                                                                         *)
(* A container may exit, and be started again by Docker, at any time: what *)
(* a run finds running is its input.                                       *)
(***************************************************************************)
EXTENDS DeployHost

CONSTANTS MaxInfra   \* bound: runs started

\* The image of a container that docker inspect could not tell.
NoImage == "none"

ASSUME InfraAssumption ==
    MaxInfra \in Nat /\ NoImage \notin Releases /\ "replay" \notin Services

VARIABLES infra,     \* the run that holds the lock, or NoInfra
          installed, \* runs started
          released,  \* the releases whose deployment succeeded
          aborted,   \* a run ended without a rollback, or with one that
                     \* failed, and none has succeeded since
          lost,      \* a run that found replay running ended without having
                     \* its old image and container back
          missed     \* a run succeeded that found a replay container which
                     \* was not running: both until one that finds it
                     \* running succeeds

infraVars == <<infra, installed, released, aborted, lost, missed>>

NoInfra == [pc |-> "idle"]
InfraStages == {"install", "build", "reconcile", "restore", "again"}

\* The parts a rollback puts back, one after the other.
RestoreOrder == <<"compose", "deploy-service", "switch-serving-mode">>
BackedUp == Members(RestoreOrder)

InfraInit ==
    /\ infra = NoInfra /\ installed = 0 /\ released = {image}
    /\ aborted = FALSE /\ lost = FALSE /\ missed = FALSE

InfraAt(stage) == infra.pc = stage
InfraGoto(stage) == infra' = [infra EXCEPT !.pc = stage]
InfraExit == infra' = NoInfra /\ lock' = "free"

ReplayListed == "replay" \in infra.listed
Listed == Services \cap infra.listed

\* What compose ps --services --status running may list: replay not when it
\* was stopped or never made, any other service whatever it was.
Running == SUBSET (Services \cup IF replay = "down" THEN {} ELSE {"replay"})

\* The lock, ps, the backups.
BeginInfra(r) ==
    /\ lock = "free" /\ installed < MaxInfra
    /\ lock' = "infra"
    /\ installed' = installed + 1
    /\ \E running \in Running :
          infra' = [pc |-> "install", release |-> r, todo |-> PartOrder,
                    backup |-> disk, oldImage |-> NoImage, listed |-> running]
    /\ UNCHANGED <<env, container, verified, suspect, published, disk, image,
                   replay, released, aborted, lost, missed>>

InstallPart ==
    /\ InfraAt("install")
    /\ disk' = [disk EXCEPT ![Head(infra.todo)] = infra.release]
    /\ infra' = [infra EXCEPT !.todo = Tail(@),
           !.pc = IF Len(infra.todo) = 1 THEN "build" ELSE "install"]
    /\ UNCHANGED <<env, container, verified, suspect, published, lock, image,
                   replay, installed, released, aborted, lost, missed>>

\* set -e: install or cp fails, the script ends, and the EXIT trap deletes
\* the backups with the rest of the work directory.
InstallFails ==
    /\ InfraAt("install")
    /\ InfraExit
    /\ aborted' = TRUE
    /\ UNCHANGED <<env, container, verified, suspect, published, disk, image,
                   replay, installed, released, lost, missed>>

\* Mutant: the image is not rebuilt, as before the comment at line 141.
BuildReplay_Keep ==
    /\ InfraAt("build")
    /\ InfraGoto("reconcile")
    /\ UNCHANGED <<hostVars, installed, released, aborted, lost, missed>>

\* What docker inspect says of battery-replay: the image of the container,
\* not what its tag names by now (of a stopped one, any), or nothing.
Inspected ==
    {NoImage} \cup IF replay = "down" THEN Releases ELSE {replay}

BuildReplay ==
    /\ InfraAt("build")
    /\ \/ ~ ReplayListed /\ InfraGoto("reconcile") /\ UNCHANGED image
       \/ /\ ReplayListed
          /\ \E old \in Inspected, stage \in {"reconcile", "restore"} :
                /\ infra' = [infra EXCEPT !.pc = stage, !.oldImage = old]
                /\ image' = IF stage = "reconcile" THEN disk["replay"]
                            ELSE image
    /\ UNCHANGED <<env, container, verified, suspect, published, lock, disk,
                   replay, installed, released, aborted, lost, missed>>

\* up -d --no-deps --wait of the services that were running, and no other.
BringUpListed ==
    /\ UpSucceeds(Listed)
    /\ IF ReplayListed THEN StartReplay ELSE UNCHANGED replay

BringUpListedFails ==
    /\ UpFails(Listed)
    /\ UNCHANGED replay \/ (ReplayListed /\ StartReplay)

Reconcile ==
    /\ InfraAt("reconcile")
    /\ \/ /\ BringUpListed
          /\ released' = released \cup {infra.release}
          /\ suspect' = suspect \ Listed /\ aborted' = FALSE
          /\ lost' = (lost /\ ~ ReplayListed)
          /\ missed' = (~ ReplayListed /\ (missed \/ replay # "down"))
          /\ InfraExit
       \/ /\ BringUpListedFails
          /\ InfraGoto("restore")
          /\ UNCHANGED <<lock, released, suspect, aborted, lost, missed>>
    /\ UNCHANGED <<env, published, disk, image, installed>>

\* docker tag of the old image, when inspect has told it, || true.
RestoreImage ==
    \/ infra.oldImage # NoImage /\ image' = infra.oldImage /\ UNCHANGED lost
    \/ UNCHANGED image /\ lost' = (lost \/ ReplayListed)

PutBack(parts) ==
    disk' = [p \in Parts |-> IF p \in parts THEN infra.backup[p] ELSE disk[p]]

\* Mutant: the image keeps its new build.
RestoreBundle_NoImage ==
    /\ InfraAt("restore")
    /\ PutBack(BackedUp)
    /\ InfraGoto("again")
    /\ UNCHANGED <<env, container, verified, suspect, published, lock, image,
                   replay, installed, released, aborted, lost, missed>>

\* Mutant: the runner scripts stay new.
RestoreBundle_ComposeOnly ==
    /\ InfraAt("restore")
    /\ RestoreImage /\ PutBack({"compose"})
    /\ InfraGoto("again")
    /\ UNCHANGED <<env, container, verified, suspect, published, lock, replay,
                   installed, released, aborted, missed>>

RestoreBundle ==
    /\ InfraAt("restore")
    /\ RestoreImage /\ PutBack(BackedUp)
    /\ InfraGoto("again")
    /\ UNCHANGED <<env, container, verified, suspect, published, lock, replay,
                   installed, released, aborted, missed>>

\* The run ends here although services may have been started that nobody
\* has checked, and the image may be the new one.
LeaveHalfway ==
    /\ InfraExit
    /\ aborted' = TRUE
    /\ suspect' = suspect \cup Listed
    /\ lost' = (lost \/ ReplayListed)

\* set -e: an install of the rollback fails.
RestoreFails ==
    /\ InfraAt("restore")
    /\ \E n \in 0..(Len(RestoreOrder) - 1) :
          PutBack(Members(SubSeq(RestoreOrder, 1, n)))
    /\ image' \in {image} \cup ({infra.oldImage} \ {NoImage})
    /\ LeaveHalfway
    /\ UNCHANGED <<env, container, verified, published, replay, installed,
                   released, missed>>

ReconcileAgain ==
    /\ InfraAt("again")
    /\ \/ /\ BringUpListed
          /\ suspect' = suspect \ Listed
          /\ InfraExit
          /\ UNCHANGED <<aborted, lost>>
       \/ BringUpListedFails /\ LeaveHalfway
    /\ UNCHANGED <<env, published, disk, image, installed, released, missed>>

\* SSM kills a run after 1800 seconds.
KillInfra ==
    /\ Kills /\ infra # NoInfra
    /\ IF infra.pc \in {"install", "build"}
       THEN InfraExit /\ aborted' = TRUE /\ UNCHANGED <<suspect, lost>>
       ELSE LeaveHalfway
    /\ UNCHANGED <<env, container, verified, published, disk, image, replay,
                   installed, released, missed>>

InfraStep ==
    \/ InstallPart \/ InstallFails \/ BuildReplay
    \/ Reconcile \/ RestoreBundle \/ RestoreFails \/ ReconcileAgain

InfraTypeOK ==
    /\ infra \in {NoInfra} \cup
           [pc : InfraStages, release : Releases, todo : Seq(Parts),
            backup : [Parts -> Releases],
            oldImage : Releases \cup {NoImage},
            listed : SUBSET (Services \cup {"replay"})]
    /\ installed \in 0..MaxInfra
    /\ released \in SUBSET Releases
    /\ aborted \in BOOLEAN /\ lost \in BOOLEAN /\ missed \in BOOLEAN
=============================================================================
