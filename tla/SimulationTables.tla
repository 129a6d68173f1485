-------------------------- MODULE SimulationTables --------------------------
(***************************************************************************)
(* The database tables that the simulation tools change, and what their    *)
(* transactions see of each other.  Every tool opens one transaction at    *)
(* PostgreSQL's default level, READ COMMITTED: a statement sees what was   *)
(* committed when it began, and what its own transaction wrote.  So a tool *)
(* is a process with one action per statement that matters to another, and *)
(* its writes are kept apart until it commits.                             *)
(*                                                                         *)
(* No two open transactions write the same image: the seed archives rows   *)
(* it can see, the expansion writes rows of cells it has created itself,   *)
(* the migrations hold the lock of the seed.  Row locks are therefore not  *)
(* modelled; the advisory locks are.                                       *)
(***************************************************************************)
EXTENDS Integers, Sequences, FiniteSets

CONSTANTS MaxCells,       \* bound: the highest SIM serial number
          GroupSize,      \* cells the seed provisions: SIM-0001..; 20 in the code
          Manifests,      \* wave manifests that load_manifest accepts
          ManifestRows,   \* manifest -> (<<cell, object>> -> capture set)
          Version,        \* manifest -> key of its ledger row
          InitialTables,  \* the cell and image tables before the first migration
          Missing         \* no backup table, no manifest, nobody

Recorded == 1..GroupSize
Active == {"INITIAL", "RECAPTURE"}
CaptureSets == Active \cup {"ARCHIVED"}

ASSUME TablesAssumption ==
    /\ GroupSize \in Nat \ {0} /\ MaxCells \in Nat /\ GroupSize <= MaxCells
    /\ Missing \notin Manifests
    /\ \A m \in Manifests :
          /\ ManifestRows[m] \in [DOMAIN ManifestRows[m] -> Active]
          /\ \A r \in DOMAIN ManifestRows[m] :
                r = <<r[1], r[2]>> /\ r[1] \in Recorded
          /\ \A c \in Recorded : \E r \in DOMAIN ManifestRows[m] :
                r[1] = c /\ ManifestRows[m][r] = "INITIAL"

VARIABLES battery_cell,        \* serial number -> created_at, in days
          battery_cell_image,  \* <<serial number, object>> -> capture_set
          backup,              \* ops_backup_sim_image_20260814_v2
          ledger,              \* ops_simulation_seed_migration
          captured,            \* images that an inspection_image refers to
          holder,              \* advisory lock -> the transaction that holds it
          applied              \* observer: manifest of the last committed seed

tables == <<battery_cell, battery_cell_image, backup, ledger, captured, applied>>

Migrated == backup # Missing

SeedLock == "20260814_simulation_capture_sets"
PoolLock == "20260818_simulation_cell_pool"

Acquire(key, p) == /\ holder[key] = Missing
                   /\ holder' = [holder EXCEPT ![key] = p]

\* A transaction-level lock goes with the transaction, however it ends.
ReleaseAll(p) ==
    holder' = [key \in DOMAIN holder |->
                  IF holder[key] = p THEN Missing ELSE holder[key]]

\* What cell c carries in an image table, as (object, capture set) pairs.
ActiveImages(images, c) ==
    {<<r[2], images[r]>> : r \in {x \in DOMAIN images :
                                     x[1] = c /\ images[x] \in Active}}

\* What one transaction has written over what is committed: f, and g where f
\* has nothing.
Merged(f, g) == [k \in DOMAIN f \cup DOMAIN g |->
                    IF k \in DOMAIN f THEN f[k] ELSE g[k]]

\* The tools find the recorded cells provisioned (README.md:99), images that
\* belong to cells (a foreign key), and beside the recorded cells clones of an
\* earlier expansion, which "an earlier run stamped" somehow
\* (expand-simulation-cell-pool.py:14).
ASSUME ProvisionedAssumption ==
    \A t \in InitialTables :
        /\ Recorded \subseteq DOMAIN t.cells
        /\ DOMAIN t.cells \subseteq 1..MaxCells
        /\ t.cells \in [DOMAIN t.cells -> Int]
        /\ \A r \in DOMAIN t.images :
              r = <<r[1], r[2]>> /\ r[1] \in DOMAIN t.cells
        /\ t.images \in [DOMAIN t.images -> CaptureSets]
        /\ \A c \in DOMAIN t.cells \ Recorded :
              \/ ActiveImages(t.images, c) = {}
              \/ \E d \in Recorded :
                    ActiveImages(t.images, c) = ActiveImages(t.images, d)

TablesInit ==
    /\ \E t \in InitialTables :
          battery_cell = t.cells /\ battery_cell_image = t.images
    /\ backup = Missing
    /\ ledger = << >>
    /\ captured = {}
    /\ holder = [key \in {SeedLock, PoolLock} |-> Missing]
    /\ applied = Missing
=============================================================================
