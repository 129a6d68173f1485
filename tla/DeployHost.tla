------------------------------ MODULE DeployHost ------------------------------
(***************************************************************************)
(* What the three scripts that change a Docker host share:                 *)
(* scripts/deploy-service.sh, scripts/deploy-infra.sh and                  *)
(* scripts/switch-serving-mode.sh.  That is the .env file, the containers  *)
(* Compose made from it, the published runtime parameter, the files of the *)
(* installed bundle, and /var/lock/battery-deploy.lock, which the first    *)
(* two take and the third does not.                                        *)
(***************************************************************************)
EXTENDS Naturals, Sequences, FiniteSets

CONSTANTS Services,   \* application services with an image tag in .env
          Tags,       \* image tags
          Releases,   \* infra bundles
          Kills       \* whether runs may be killed half way

\* The three keys the switch writes; a service names the key of its tag.
ModeKeys == {"SERVING_MODE", "AI_SERVER_URL", "LLM_SERVER_URL"}
Modes == {"live", "replay"}

\* The installed parts of a bundle, in the order deploy-infra installs them.
PartOrder == <<"compose", "deploy-service", "deploy-infra",
               "switch-serving-mode", "replay">>

Members(seq) == {seq[i] : i \in 1..Len(seq)}
Parts == Members(PartOrder)

ASSUME HostAssumption ==
    /\ IsFiniteSet(Services) /\ "backend-ai" \in Services
    /\ Services \cap ModeKeys = {}
    /\ Tags \cap Modes = {}
    /\ Tags # {} /\ Releases # {} /\ "down" \notin Releases
    /\ Kills \in BOOLEAN

VARIABLES env,        \* the .env file: key -> value
          container,  \* container[s]: the values it was created with
          verified,   \* services whose last start passed its checks
          suspect,    \* services that a run which failed twice, or was
                      \* killed, left behind without having checked them
          published,  \* the runtime-env parameter
          lock,       \* the holder of the lock file, or "free"
          disk,       \* disk[part]: the release the part was copied from
          image,      \* the release the replay image tag was built from
          replay      \* release of the running replay container, or "down"

hostVars == <<env, container, verified, suspect, published, lock,
              disk, image, replay>>

Env == {e \in [Services \cup ModeKeys -> Tags \cup Modes] :
           /\ \A s \in Services : e[s] \in Tags
           /\ \A k \in ModeKeys : e[k] \in Modes}

\* The values compose.yaml interpolates into the definition of a service.
Interpolated(s) ==
    {s} \cup IF s = "backend-ai" THEN {"AI_SERVER_URL", "LLM_SERVER_URL"}
             ELSE {}

Config(s) == [k \in Interpolated(s) |-> env[k]]

\* A host that was prepared with one release, in one mode.
HostInit ==
    \E t \in Tags, m \in Modes, r \in Releases :
        /\ env = [k \in Services \cup ModeKeys |->
                     IF k \in Services THEN t ELSE m]
        /\ container = [s \in Services |-> Config(s)]
        /\ verified = Services
        /\ suspect = {}
        /\ published = env
        /\ lock = "free"
        /\ disk = [p \in Parts |-> r]
        /\ image = r
        /\ replay = IF m = "replay" THEN r ELSE "down"

Recreate(done) ==
    container' = [s \in Services |->
                     IF s \in done THEN Config(s) ELSE container[s]]

\* docker compose pull and up -d --no-deps --wait of services S, with the
\* checks after it: all of them run what .env says now.
UpSucceeds(S) == Recreate(S) /\ verified' = verified \cup S

\* Or it failed, with none, some or all of them recreated by then.
UpFails(S) ==
    \E done \in SUBSET S : Recreate(done) /\ verified' = verified \ done

\* The replay container is (re)created from its image, or stopped.
StartReplay == replay' = image
StopReplay  == replay' = "down"

HostTypeOK ==
    /\ env \in Env /\ published \in Env
    /\ DOMAIN container = Services
    /\ \A s \in Services :
          container[s] \in [Interpolated(s) -> Tags \cup Modes]
    /\ verified \in SUBSET Services /\ suspect \in SUBSET Services
    /\ lock \in {"free", "service", "infra"}
    /\ disk \in [Parts -> Releases]
    /\ image \in Releases
    /\ replay \in Releases \cup {"down"}
=============================================================================
