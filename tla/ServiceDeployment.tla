-------------------------- MODULE ServiceDeployment --------------------------
(***************************************************************************)
(* battery-deploy-service (scripts/deploy-service.sh): one run moves one   *)
(* service, or the backend stack, to a new image tag: it writes the tags   *)
(* into .env, starts the containers, and publishes .env; when the start    *)
(* fails it puts the old .env back and starts the containers again.        *)
(*                                                                         *)
(* Runs that wait for the lock have done nothing yet, so one record holds  *)
(* the run that has it.  deploy_once and deploy_backend_stack_once, and    *)
(* the two mains around them, differ only in the keys they write and the   *)
(* services they start: a run has an order of services.  SSM kills a run   *)
(* after 1800 seconds, a full disk or a reboot earlier (KillDeployment).   *)
(***************************************************************************)
EXTENDS DeployHost

CONSTANTS Orders,     \* services deployed together, in the order of writing
          IsRelease,  \* the instance is RELEASE_RUNTIME_INSTANCE_ID
          MaxDeploys  \* bound: runs started

ASSUME ServiceDeploymentAssumption ==
    /\ Orders \in SUBSET Seq(Services) /\ <<>> \notin Orders
    /\ IsRelease \in BOOLEAN
    /\ MaxDeploys \in Nat

VARIABLES job,       \* the run that holds the lock, or Idle
          launched   \* runs started

jobVars == <<job, launched>>

Idle == [pc |-> "idle"]
Stages == {"read", "backup", "rewrite", "move", "up", "restore", "retry",
           "publish"}

DeploymentInit == job = Idle /\ launched = 0

At(stage) == job.pc = stage

Goto(stage) == job' = [job EXCEPT !.pc = stage]

Exit == job' = Idle /\ lock' = "free"

KeepFiles == UNCHANGED <<disk, image, replay>>

\* flock -w 900; temp and backup are not written yet.
TakeLock(order, tag) ==
    /\ lock = "free" /\ launched < MaxDeploys
    /\ lock' = "service"
    /\ launched' = launched + 1
    /\ job' = [pc |-> "read", order |-> order, tag |-> tag, todo |-> order,
               backup |-> env, temp |-> env]
    /\ UNCHANGED <<env, container, verified, published, suspect>>
    /\ KeepFiles

AlreadyUses == \A s \in Members(job.order) : env[s] = job.tag

ReadTags ==
    /\ At("read")
    /\ Goto(IF AlreadyUses THEN "publish" ELSE "backup")
    /\ UNCHANGED <<hostVars, launched>>

\* cp .env .env.before-...
BackUp ==
    /\ At("backup")
    /\ job' = [job EXCEPT !.pc = "rewrite", !.backup = env]
    /\ UNCHANGED <<hostVars, launched>>

\* replace_env_value: awk writes a changed copy, mv puts it in place.
RewriteTag ==
    /\ At("rewrite")
    /\ job' = [job EXCEPT !.pc = "move",
                          !.temp = [env EXCEPT ![Head(job.todo)] = job.tag]]
    /\ UNCHANGED <<hostVars, launched>>

MoveTag ==
    /\ At("move")
    /\ env' = job.temp
    /\ job' = [job EXCEPT !.todo = Tail(@),
                          !.pc = IF Len(job.todo) = 1 THEN "up"
                                 ELSE "rewrite"]
    /\ UNCHANGED <<container, verified, published, lock, suspect, launched>>
    /\ KeepFiles

\* Mutant: a failed start ends the run, without a rollback.
Start_GiveUp ==
    /\ At("up")
    /\ \/ /\ UpSucceeds(Members(job.order))
          /\ suspect' = suspect \ Members(job.order)
          /\ Goto("publish") /\ UNCHANGED lock
       \/ UpFails(Members(job.order)) /\ Exit /\ UNCHANGED suspect
    /\ UNCHANGED <<env, published, launched>>
    /\ KeepFiles

\* Mutant: a failed start is taken for a deployment.
Start_Unchecked ==
    /\ At("up")
    /\ UpSucceeds(Members(job.order)) \/ UpFails(Members(job.order))
    /\ suspect' = suspect \ Members(job.order)
    /\ Goto("publish")
    /\ UNCHANGED <<env, published, lock, launched>>
    /\ KeepFiles

\* deploy_once
Start ==
    /\ At("up")
    /\ \/ /\ UpSucceeds(Members(job.order))
          /\ suspect' = suspect \ Members(job.order)
          /\ Goto("publish")
       \/ /\ UpFails(Members(job.order))
          /\ Goto("restore")
          /\ UNCHANGED suspect
    /\ UNCHANGED <<env, published, lock, launched>>
    /\ KeepFiles

\* Mutant: only the tag of the first service is put back.
RestoreTags_First ==
    /\ At("restore")
    /\ env' = [env EXCEPT ![Head(job.order)] = job.backup[Head(job.order)]]
    /\ Goto("retry")
    /\ UNCHANGED <<container, verified, published, lock, suspect, launched>>
    /\ KeepFiles

RestoreTags ==
    /\ At("restore")
    /\ env' = job.backup
    /\ Goto("retry")
    /\ UNCHANGED <<container, verified, published, lock, suspect, launched>>
    /\ KeepFiles

\* Mutant: the rollback is repeated until it succeeds.
StartAgain_Forever ==
    /\ At("retry")
    /\ \/ /\ UpSucceeds(Members(job.order))
          /\ suspect' = suspect \ Members(job.order)
          /\ Exit
       \/ /\ UpFails(Members(job.order))
          /\ Goto("restore")
          /\ UNCHANGED <<lock, suspect>>
    /\ UNCHANGED <<env, published, launched>>
    /\ KeepFiles

\* The old tags are started again.  Either way the run ends with an error;
\* if this failed too, one that asks to inspect the containers immediately.
StartAgain ==
    /\ At("retry")
    /\ \/ /\ UpSucceeds(Members(job.order))
          /\ suspect' = suspect \ Members(job.order)
       \/ /\ UpFails(Members(job.order))
          /\ suspect' = suspect \cup Members(job.order)
    /\ Exit
    /\ UNCHANGED <<env, published, launched>>
    /\ KeepFiles

\* finish_deployment: only the release host may publish, and it may fail.
Publish ==
    /\ At("publish")
    /\ \/ IsRelease /\ published' = env
       \/ UNCHANGED published
    /\ Exit
    /\ UNCHANGED <<env, container, verified, launched, suspect>>
    /\ KeepFiles

\* A tag was written and the containers have not been checked since.
Touched == job.todo # job.order /\ job.pc # "publish"

\* SSM's timeout, a full disk, a reboot.
KillDeployment ==
    /\ Kills /\ job # Idle
    /\ suspect' = IF Touched THEN suspect \cup Members(job.order)
                  ELSE suspect
    /\ Exit
    /\ UNCHANGED <<env, container, verified, published, launched>>
    /\ KeepFiles

\* Every step of a run after it took the lock.
DeploymentStep ==
    \/ ReadTags \/ BackUp \/ RewriteTag \/ MoveTag
    \/ Start \/ RestoreTags \/ StartAgain \/ Publish

DeploymentNext ==
    \/ \E order \in Orders, tag \in Tags : TakeLock(order, tag)
    \/ DeploymentStep
    \/ KillDeployment

DeploymentTypeOK ==
    /\ job \in {Idle} \cup
           [pc : Stages, order : Orders, tag : Tags, todo : Seq(Services),
            backup : Env, temp : Env]
    /\ launched \in 0..MaxDeploys
=============================================================================
