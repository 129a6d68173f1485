-------------------------- MODULE ServingModeSwitch --------------------------
(***************************************************************************)
(* battery-switch-serving-mode (scripts/switch-serving-mode.sh): points    *)
(* backend-ai at the replay service or at the inference servers by three   *)
(* keys of .env.  Every failure after the backup runs rollback, which puts *)
(* the whole old .env back and starts backend-ai without looking at the    *)
(* outcome.  The script takes no lock: any number of operators may run it  *)
(* at once, and during a deployment.                                       *)
(*                                                                         *)
(* A call that stops before the backup (a wrong argument, or a switch to   *)
(* live while the inference servers are not healthy) changes nothing.      *)
(***************************************************************************)
EXTENDS DeployHost

CONSTANTS Operators,    \* who may run the script
          MaxSwitches   \* bound: runs started

ASSUME SwitchAssumption == IsFiniteSet(Operators) /\ MaxSwitches \in Nat

VARIABLES switch,     \* switch[o]: where the run of operator o stands
          switched,   \* runs started
          unfinished  \* a run was killed, or could not put .env back or
                      \* restart backend-ai, and none has succeeded since

switchVars == <<switch, switched, unfinished>>

ModeKeyOrder == <<"SERVING_MODE", "AI_SERVER_URL", "LLM_SERVER_URL">>

Off == [pc |-> "off"]
SwitchStages == {"upsert", "move", "replay", "backend-ai", "stop",
                 "restore", "restart"}

SwitchInit ==
    switch = [o \in Operators |-> Off] /\ switched = 0 /\ unfinished = FALSE

Switching(o) == switch[o] # Off
AtStep(o, stage) == switch[o].pc = stage
Proceed(o, stage) == switch' = [switch EXCEPT ![o].pc = stage]
Leave(o) == switch' = [switch EXCEPT ![o] = Off]
Done(o) == Leave(o) /\ unfinished' = FALSE

KeepHost ==
    UNCHANGED <<env, container, verified, suspect, published, lock, disk>>

\* cp -a .env to the backup.
BeginSwitch(o, m) ==
    /\ ~ Switching(o) /\ switched < MaxSwitches
    /\ switched' = switched + 1
    /\ switch' = [switch EXCEPT ![o] =
           [pc |-> "upsert", mode |-> m, todo |-> ModeKeyOrder,
            backup |-> env, temp |-> env]]
    /\ UNCHANGED <<hostVars, unfinished>>

\* upsert_env: awk writes a copy without the key, the new line is added,
\* mv puts the copy in place.
Upsert(o) ==
    /\ AtStep(o, "upsert")
    /\ switch' = [switch EXCEPT ![o].pc = "move",
           ![o].temp = [env EXCEPT ![Head(switch[o].todo)] = switch[o].mode]]
    /\ UNCHANGED <<hostVars, switched, unfinished>>

FirstStart(m) == IF m = "replay" THEN "replay" ELSE "backend-ai"

MoveKey(o) ==
    /\ AtStep(o, "move")
    /\ env' = switch[o].temp
    /\ switch' = [switch EXCEPT ![o].todo = Tail(@),
           ![o].pc = IF Len(switch[o].todo) > 1 THEN "upsert"
                     ELSE FirstStart(switch[o].mode)]
    /\ UNCHANGED <<container, verified, suspect, published, lock, disk, image, replay,
                   switched, unfinished>>

\* up -d --build replay: from the source the last bundle left behind.
BringUpReplay(o) ==
    /\ AtStep(o, "replay")
    /\ \/ /\ image' = disk["replay"] /\ replay' = disk["replay"]
          /\ Proceed(o, "backend-ai")
       \/ /\ \/ UNCHANGED <<image, replay>>
             \/ image' = disk["replay"] /\ UNCHANGED replay
             \/ image' = disk["replay"] /\ replay' = disk["replay"]
          /\ Proceed(o, "restore")
    /\ KeepHost /\ UNCHANGED <<switched, unfinished>>

\* Mutant: a failed start of backend-ai does not roll back.
BringUpBackendAi_NoRollback(o) ==
    /\ AtStep(o, "backend-ai")
    /\ UpSucceeds({"backend-ai"}) \/ UpFails({"backend-ai"})
    /\ IF switch[o].mode = "live"
       THEN Proceed(o, "stop") /\ UNCHANGED unfinished ELSE Done(o)
    /\ UNCHANGED <<env, suspect, published, lock, disk, image, replay,
                   switched>>

BringUpBackendAi(o) ==
    /\ AtStep(o, "backend-ai")
    /\ \/ /\ UpSucceeds({"backend-ai"})
          /\ IF switch[o].mode = "live"
             THEN Proceed(o, "stop") /\ UNCHANGED unfinished ELSE Done(o)
       \/ /\ UpFails({"backend-ai"})
          /\ Proceed(o, "restore") /\ UNCHANGED unfinished
    /\ UNCHANGED <<env, suspect, published, lock, disk, image, replay,
                   switched>>

\* compose stop replay || true
StopReplayContainer(o) ==
    /\ AtStep(o, "stop")
    /\ StopReplay \/ UNCHANGED replay
    /\ Done(o)
    /\ KeepHost /\ UNCHANGED <<image, switched>>

\* rollback, by the ERR trap: a write failed.
FailUpsert(o) ==
    /\ \E stage \in {"upsert", "move"} : AtStep(o, stage)
    /\ Proceed(o, "restore")
    /\ UNCHANGED <<hostVars, switched, unfinished>>

\* Mutant: the backup is taken after the first key was written.
RestoreEnv_Late(o) ==
    /\ AtStep(o, "restore")
    /\ env' = [switch[o].backup EXCEPT !["SERVING_MODE"] = switch[o].mode]
    /\ Proceed(o, "restart")
    /\ UNCHANGED <<container, verified, suspect, published, lock, disk, image, replay,
                   switched, unfinished>>

\* rollback: cp -a the backup over .env, whatever it holds now.
RestoreEnv(o) ==
    /\ AtStep(o, "restore")
    /\ env' = switch[o].backup
    /\ Proceed(o, "restart")
    /\ UNCHANGED <<container, verified, suspect, published, lock, disk, image, replay,
                   switched, unfinished>>

\* set +e: the copy failed before it wrote, and the rollback goes on.
RestoreEnvFails(o) ==
    /\ AtStep(o, "restore")
    /\ unfinished' = TRUE
    /\ Proceed(o, "restart")
    /\ UNCHANGED <<hostVars, switched>>

\* The run has failed, or was killed, after a start of backend-ai that nobody
\* has checked since.
LeaveUnchecked(o) == Leave(o) /\ suspect' = suspect \cup {"backend-ai"}

\* up -d without --wait: a container that had to be recreated is not checked.
RestartSucceeds(o) ==
    /\ AtStep(o, "restart")
    /\ Recreate({"backend-ai"})
    /\ verified' = IF container' = container THEN verified
                   ELSE verified \ {"backend-ai"}
    /\ LeaveUnchecked(o)
    /\ UNCHANGED <<env, published, lock, disk, image, replay,
                   switched, unfinished>>

\* Output and exit code of this start are thrown away.
RestartFails(o) ==
    /\ AtStep(o, "restart")
    /\ LeaveUnchecked(o)
    /\ unfinished' = TRUE
    /\ UNCHANGED <<env, container, verified, published, lock, disk, image,
                   replay, switched>>

\* Ctrl-C, a closed session, a reboot.
KillSwitch(o) ==
    /\ Kills /\ Switching(o)
    /\ LeaveUnchecked(o)
    /\ unfinished' = TRUE
    /\ UNCHANGED <<env, container, verified, published, lock, disk, image,
                   replay, switched>>

SwitchStep(o) ==
    \/ Upsert(o) \/ MoveKey(o) \/ FailUpsert(o)
    \/ BringUpReplay(o) \/ BringUpBackendAi(o) \/ StopReplayContainer(o)
    \/ RestoreEnv(o) \/ RestoreEnvFails(o)
    \/ RestartSucceeds(o) \/ RestartFails(o)

SwitchTypeOK ==
    /\ \A o \in Operators :
          switch[o] \in {Off} \cup
              [pc : SwitchStages, mode : Modes, todo : Seq(ModeKeys),
               backup : Env, temp : Env]
    /\ switched \in 0..MaxSwitches /\ unfinished \in BOOLEAN
=============================================================================
