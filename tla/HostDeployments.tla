--------------------------- MODULE HostDeployments ---------------------------
(***************************************************************************)
(* The scripts together on one host: service and infra deployments, which  *)
(* exclude each other, and the serving mode switch, which excludes nobody. *)
(* Between any two commands of one script another script may run.          *)
(***************************************************************************)
EXTENDS ServiceDeployment, ServingModeSwitch, InfraDeployment

VARIABLE overlap   \* two scripts have been under way at the same time

vars == <<hostVars, jobVars, switchVars, infraVars, overlap>>

Overlapping ==
    \/ lock # "free" /\ \E o \in Operators : Switching(o)
    \/ \E o, p \in Operators : o # p /\ Switching(o) /\ Switching(p)

Init ==
    /\ HostInit
    /\ DeploymentInit /\ SwitchInit /\ InfraInit
    /\ overlap = FALSE

SwitchNext ==
    \E o \in Operators :
        \/ \E m \in Modes : BeginSwitch(o, m)
        \/ SwitchStep(o) \/ KillSwitch(o)

InfraNext ==
    \/ \E r \in Releases : BeginInfra(r)
    \/ InfraStep \/ KillInfra

ServiceScript == DeploymentNext /\ UNCHANGED <<switchVars, infraVars>>
SwitchScript  == SwitchNext /\ UNCHANGED <<jobVars, infraVars>>
InfraScript   == InfraNext /\ UNCHANGED <<jobVars, switchVars>>

Watch == overlap' = (overlap \/ Overlapping')

Next == (ServiceScript \/ SwitchScript \/ InfraScript) /\ Watch

\* Every command of a script returns: Compose and curl are given timeouts,
\* the retry loops are counted, and SSM ends what takes longer.
Fairness ==
    /\ WF_vars(DeploymentStep /\ UNCHANGED <<switchVars, infraVars>> /\ Watch)
    /\ WF_vars(InfraStep /\ UNCHANGED <<jobVars, switchVars>> /\ Watch)
    /\ \A o \in Operators :
          WF_vars(SwitchStep(o) /\ UNCHANGED <<jobVars, infraVars>> /\ Watch)

Spec == Init /\ [][Next]_vars
FairSpec == Spec /\ Fairness

Quiet == lock = "free" /\ \A o \in Operators : ~ Switching(o)

-----------------------------------------------------------------------------

\* Every variable of the host and of the scripts holds what its name says,
\* and the lock is held by the one deployment that is under way.
TypeOK ==
    /\ HostTypeOK /\ DeploymentTypeOK /\ SwitchTypeOK /\ InfraTypeOK
    /\ overlap \in BOOLEAN
    /\ lock = "service" <=> job # Idle
    /\ lock = "infra" <=> infra # NoInfra

\* When no script is under way and none ever overlapped another, .env says
\* what runs: each service runs the tag of its key and has passed the checks
\* of its last start.  Only services are excepted that a killed run, or one
\* that told the operator to inspect them, has left behind; a later success
\* brings them back.
TagsRun ==
    Quiet /\ ~ overlap =>
        \A s \in Services \ suspect :
            container[s][s] = env[s] /\ s \in verified

\* And what is published is what runs: a publication carries, for every
\* service that is not left behind, the tag of its checked container
\* (deployment/README.md: the published parameter is the deployed tag set).
PublishedIsDeployed ==
    [][published' # published /\ ~ overlap =>
          \A s \in Services \ suspect :
              container[s][s] = published'[s] /\ s \in verified]_vars

\* A deployment that comes to its end has moved all its services to the new
\* tag, or has left every tag as it found it: also for the two services of
\* the backend stack, whose tags are written one after the other
\* (deployment/README.md: they are rolled back as one release).
RunsAreAtomic ==
    [][job # Idle /\ job' = Idle /\ job.pc \in {"publish", "retry"}
         /\ ~ overlap =>
          \/ \A s \in Members(job.order) : env'[s] = job.tag
          \/ \A s \in Services : env'[s] = job.backup[s]]_vars

\* The three keys of the mode are changed together (README.md), and
\* backend-ai is wired as they say, to a replay service that exists: unless
\* scripts overlapped, or a switch was cut short and none succeeded since.
ModeIsWhole ==
    Quiet /\ ~ overlap /\ ~ unfinished =>
        \E m \in Modes :
            /\ \A k \in ModeKeys : env[k] = m
            /\ \A k \in Interpolated("backend-ai") \cap ModeKeys :
                  container["backend-ai"][k] = m
            /\ m = "replay" => replay # "down"

\* A failed infra deployment puts the files it backs up back together:
\* between runs they are of one release, and one that was deployed, unless
\* the last runs ended without their rollback.
BundleIsWhole ==
    lock = "free" /\ ~ aborted =>
        \E r \in released : \A p \in BackedUp : disk[p] = r

\* The image that replay is started from, and that of its container, are of
\* a release whose deployment succeeded: a failed one puts the previous image
\* back (deployment/README.md:24), unless docker could not, or the run ended
\* before it had, and no later one has replaced both.
ReplayIsReleased ==
    Quiet /\ ~ lost =>
        image \in released /\ replay \in released \cup {"down"}

\* After a successful deployment the replay container runs the source that
\* was installed with it, not the image it had before (the comment at
\* scripts/deploy-infra.sh:141); one that was not running when it began is
\* passed over (line 147), until the next that finds it running.
InstalledReplayRuns ==
    Quiet /\ ~ aborted /\ ~ lost /\ ~ missed
      /\ (\A p, q \in Parts : disk[p] = disk[q]) =>
        replay \in {disk["replay"], "down"}

\* No deployment goes on for ever: the lock is given back, however often
\* starts fail.
EveryRunEnds == lock # "free" ~> lock = "free"

\* deployment/README.md: a successful deployment publishes the deployed tag
\* set.  Every publication carries the tags the containers run.
PublishesWhatRuns ==
    [][published' # published =>
          \A s \in Services : container[s][s] = published'[s]]_vars

\* deployment/README.md: the switch changes the AI URLs and restores them on
\* failure.  No step of a switch changes an image tag in .env.
SwitchKeepsTags ==
    [][switch' # switch => \A s \in Services : env'[s] = env[s]]_vars
=============================================================================
