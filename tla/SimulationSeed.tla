--------------------------- MODULE SimulationSeed ---------------------------
(***************************************************************************)
(* Loading a wave: apply() of scripts/apply-simulation-seed.py, and the    *)
(* two migrations of 20260814 whose lock it shares.  The seed archives the *)
(* images of every SIM cell, puts the rows of the manifest in place, notes *)
(* the digest in the ledger, and counts what is active before it commits.  *)
(* Image types and buckets do not influence any of this and are left out.  *)
(***************************************************************************)
EXTENDS SimulationTables

CONSTANTS Seeders     \* transactions of apply-simulation-seed.py

VARIABLES seed,       \* seeder -> where its transaction stands
          rollback    \* the down migration: "idle" or "checked"

seedVars == <<seed, rollback>>

IdleSeed == [pc |-> "idle", manifest |-> Missing, execute |-> FALSE,
             writes |-> << >>]

SeedInit == seed = [s \in Seeders |-> IdleSeed] /\ rollback = "idle"

EndSeed(s) == seed' = [seed EXCEPT ![s] = IdleSeed] /\ ReleaseAll(s)

StartSeed(s, m, execute) ==
    /\ seed[s].pc = "idle"
    /\ seed' = [seed EXCEPT ![s] = [IdleSeed EXCEPT !.pc = "lock",
                                        !.manifest = m, !.execute = execute]]
    /\ UNCHANGED <<tables, rollback, holder>>

\* The lock, then the schema: without the column the seed refuses to run.
LockSeed(s) ==
    /\ seed[s].pc = "lock"
    /\ \/ /\ Migrated
          /\ Acquire(SeedLock, s)
          /\ seed' = [seed EXCEPT ![s].pc = "archive"]
       \/ /\ ~ Migrated /\ holder[SeedLock] = Missing
          /\ EndSeed(s)
    /\ UNCHANGED <<tables, rollback>>

\* Every image of a SIM cell that is committed by now is archived.
ArchiveImages(s) ==
    /\ seed[s].pc = "archive"
    /\ seed' = [seed EXCEPT ![s].pc = "upsert",
                    ![s].writes = [r \in DOMAIN battery_cell_image |-> "ARCHIVED"]]
    /\ UNCHANGED <<tables, rollback, holder>>

\* The rows of the manifest, joined with the cells that exist.
UpsertImages(s) ==
    LET rows == ManifestRows[seed[s].manifest]
        joined == {r \in DOMAIN rows : r[1] \in DOMAIN battery_cell}
    IN  /\ seed[s].pc = "upsert"
        /\ seed' = [seed EXCEPT ![s].pc = "count",
                        ![s].writes = Merged([r \in joined |-> rows[r]], @)]
        /\ UNCHANGED <<tables, rollback, holder>>

HowMany(images, set) == Cardinality({r \in DOMAIN images : images[r] = set})

\* What is active over all SIM cells must be what the manifest lists.
CountImages(s) ==
    LET seen == Merged(seed[s].writes, battery_cell_image)
        agree == \A set \in Active :
                    HowMany(seen, set) = HowMany(ManifestRows[seed[s].manifest], set)
    IN  /\ seed[s].pc = "count"
        /\ \/ agree /\ seed' = [seed EXCEPT ![s].pc = "commit"] /\ UNCHANGED holder
           \/ ~ agree /\ EndSeed(s)
        /\ UNCHANGED <<tables, rollback>>

\* Mutant: ON CONFLICT (version) DO NOTHING.
LedgerAfter_Kept(m) == Merged(ledger, [v \in {Version[m]} |-> m])

\* One row per version; a later manifest of the same version replaces it.
LedgerAfter(m) == Merged([v \in {Version[m]} |-> m], ledger)

CommitSeed(s) ==
    /\ seed[s].pc = "commit"
    /\ \/ /\ seed[s].execute
          /\ battery_cell_image' = Merged(seed[s].writes, battery_cell_image)
          /\ ledger' = LedgerAfter(seed[s].manifest)
          /\ applied' = seed[s].manifest
       \/ /\ ~ seed[s].execute
          /\ UNCHANGED <<battery_cell_image, ledger, applied>>
    /\ EndSeed(s)
    /\ UNCHANGED <<battery_cell, backup, captured, rollback>>

\* Mutant: each statement is committed on its own.
SeedDies_Autocommit(s) ==
    /\ seed[s].pc # "idle"
    /\ battery_cell_image' = Merged(seed[s].writes, battery_cell_image)
    /\ EndSeed(s)
    /\ UNCHANGED <<battery_cell, backup, ledger, captured, applied, rollback>>

\* The tool is killed or loses its connection: the server rolls back.
SeedDies(s) ==
    /\ seed[s].pc # "idle"
    /\ EndSeed(s)
    /\ UNCHANGED <<tables, rollback>>

\* Exclusive access to the image table makes the up migration one step.
MigrateUp ==
    /\ ~ Migrated /\ holder[SeedLock] = Missing
    /\ backup' = battery_cell_image
    /\ UNCHANGED <<battery_cell, battery_cell_image, ledger, captured, holder,
                   applied, seedVars>>

\* The down migration looks for inspections of seeded images first ...
CheckRollback ==
    /\ rollback = "idle" /\ Migrated
    /\ captured \subseteq DOMAIN backup
    /\ Acquire(SeedLock, "down")
    /\ rollback' = "checked"
    /\ UNCHANGED <<tables, seed>>

\* ... then deletes what is not in the backup, which a foreign key refuses
\* when an inspection has referred to such an image since, and restores.
ApplyRollback ==
    /\ rollback = "checked"
    /\ \/ /\ captured \subseteq DOMAIN backup
          /\ battery_cell_image' = backup
          /\ ledger' = << >>
          /\ applied' = Missing
       \/ /\ ~ captured \subseteq DOMAIN backup
          /\ UNCHANGED <<battery_cell_image, ledger, applied>>
    /\ rollback' = "idle"
    /\ ReleaseAll("down")
    /\ UNCHANGED <<battery_cell, backup, captured, seed>>

SeedNext ==
    \/ \E s \in Seeders :
          \/ \E m \in Manifests, execute \in BOOLEAN : StartSeed(s, m, execute)
          \/ LockSeed(s) \/ ArchiveImages(s) \/ UpsertImages(s)
          \/ CountImages(s) \/ CommitSeed(s) \/ SeedDies(s)
    \/ MigrateUp \/ CheckRollback \/ ApplyRollback
=============================================================================
