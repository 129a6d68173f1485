------------------------- MODULE SimulationDatabase -------------------------
(***************************************************************************)
(* The seed, the migrations and the expansion of the cell pool on one      *)
(* database, with the backend that captures images of its cells.           *)
(***************************************************************************)
EXTENDS SimulationSeed, CellPoolExpansion

vars == <<tables, holder, seedVars, pool>>

\* External: an inspection of cell c refers to the images it captured.
Capture(c) ==
    /\ captured = {}        \* bound: one cell is captured
    /\ captured' = {<<c, i[1]>> : i \in ActiveImages(battery_cell_image, c)}
    /\ UNCHANGED <<battery_cell, battery_cell_image, backup, ledger, applied,
                   holder, seedVars, pool>>

Init == TablesInit /\ SeedInit /\ PoolInit

Next == \/ SeedNext /\ UNCHANGED pool
        \/ PoolNext /\ UNCHANGED seedVars
        \/ \E c \in DOMAIN battery_cell : Capture(c)

Spec == Init /\ [][Next]_vars

\* A lock tells its transactions apart.
ASSUME TransactionsAssumption ==
    /\ Seeders \cap Expanders = {}
    /\ Missing \notin Seeders \cup Expanders \cup {"down"}
    /\ "down" \notin Seeders \cup Expanders
    /\ Groups \subseteq Nat

-----------------------------------------------------------------------------

Cells == 1..MaxCells
Owners == Seeders \cup Expanders \cup {"down", Missing}

IsImageTable(t) ==
    /\ \A r \in DOMAIN t : r[1] \in Cells
    /\ t \in [DOMAIN t -> CaptureSets]

\* The tables and the open transactions have their types.
TypeOK ==
    /\ DOMAIN battery_cell \subseteq Cells
    /\ battery_cell \in [DOMAIN battery_cell -> Int]
    /\ IsImageTable(battery_cell_image)
    /\ backup # Missing => IsImageTable(backup)
    /\ ledger \in [DOMAIN ledger -> Manifests]
    /\ holder \in [{SeedLock, PoolLock} -> Owners]
    /\ applied \in Manifests \cup {Missing}
    /\ \A s \in Seeders : IsImageTable(seed[s].writes)
    /\ \A x \in Expanders : IsImageTable(pool[x].images)

ManifestImages(m, c) == ActiveImages(ManifestRows[m], c)

\* What the inspections of a wave are captured from is the wave: after a seed
\* has committed, each provisioned cell exists and carries exactly the rows of
\* its manifest; after the rollback it carries what it had before.  The check
\* of the counts is inside the transaction, but an expansion may commit
\* between any two statements (apply-simulation-seed.py:237-343).
RecordedCarryTheManifest ==
    /\ \A c \in Recorded : applied # Missing =>
          /\ c \in DOMAIN battery_cell
          /\ ActiveImages(battery_cell_image, c) = ManifestImages(applied, c)
    /\ \A c \in Recorded : applied = Missing /\ Migrated =>
          ActiveImages(battery_cell_image, c) = ActiveImages(backup, c)

\* A clone never mixes waves: its active images are all those of one
\* provisioned cell under one manifest, or it has none.  Which manifest is
\* another matter: the copy is made under a lock that the seed does not take
\* (expand-simulation-cell-pool.py:188-236).
ClonesAreWholeCopies ==
    Migrated => \A c \in DOMAIN battery_cell \ Recorded :
        LET images == ActiveImages(battery_cell_image, c)
        IN  \/ images = {}
            \/ \E t \in Recorded :
                  \/ \E m \in Manifests : images = ManifestImages(m, t)
                  \/ images = ActiveImages(backup, t)

\* The digest in the ledger identifies the manifest that is applied, and a
\* rollback leaves no row that claims a seed which is no longer in the table
\* (database/README.md:23, comment of the down migration).
LedgerNamesTheSeed ==
    IF applied = Missing THEN ledger = << >>
    ELSE /\ Version[applied] \in DOMAIN ledger
         /\ ledger[Version[applied]] = applied

\* "The recorded cells themselves are never modified" by an expansion
\* (expand-simulation-cell-pool.py:9): they keep their place in the list.
RecordedKeepTheirDate ==
    [][\A c \in Recorded \cap DOMAIN battery_cell :
           battery_cell'[c] = battery_cell[c]]_vars

\* "Clones must sort behind the cells they were copied from": once an
\* expansion has committed, no cell outside its template group is as new as
\* a template, not even a clone that an earlier run stamped wrongly
\* (expand-simulation-cell-pool.py:238-261).
ClonesSortBehind ==
    [][\A x \in Expanders :
           pool[x].pc = "clone" /\ battery_cell' # battery_cell =>
               LET templates == Templates(pool[x].existing, pool[x].group)
               IN  \A t \in templates, c \in DOMAIN battery_cell' \ templates :
                       battery_cell'[c] < battery_cell'[t]]_vars
=============================================================================
