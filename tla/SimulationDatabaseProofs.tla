---------------------- MODULE SimulationDatabaseProofs ----------------------
(***************************************************************************)
(* What holds of the simulation database for every set of manifests, any   *)
(* number of seeds and expansions and any cells.                           *)
(***************************************************************************)
EXTENDS SimulationDatabase, FiniteSetTheorems, WellFoundedInduction, TLAPS

SeedFields == {"pc", "manifest", "execute", "writes"}

\* The transactions are records, and one that is open loads a manifest.
OpenSeedsLoad ==
    /\ DOMAIN seed = Seeders
    /\ \A s \in Seeders :
          /\ DOMAIN seed[s] = SeedFields
          /\ seed[s].pc # "idle" => seed[s].manifest \in Manifests

LedgerInv == OpenSeedsLoad /\ LedgerNamesTheSeed

\* A transaction that ends is idle again, whatever the others do.
LEMMA EndingKeepsTheOthers ==
    ASSUME OpenSeedsLoad, NEW s \in Seeders, EndSeed(s)
    PROVE  OpenSeedsLoad'
BY DEF OpenSeedsLoad, EndSeed, IdleSeed, SeedFields

\* The tools that write neither the ledger nor the seed leave both true.
LEMMA OthersKeepTheLedger ==
    ASSUME LedgerInv, UNCHANGED <<seed, ledger, applied>>
    PROVE  LedgerInv'
BY DEF LedgerInv, OpenSeedsLoad, LedgerNamesTheSeed

\* The step of a seed that is not its commit.
LEMMA SeedStepsKeepTheLedger ==
    ASSUME TablesAssumption, LedgerInv, NEW s \in Seeders,
           \/ \E m \in Manifests, execute \in BOOLEAN : StartSeed(s, m, execute)
           \/ LockSeed(s) \/ ArchiveImages(s) \/ UpsertImages(s)
           \/ CountImages(s) \/ SeedDies(s)
    PROVE  LedgerInv'
<1>1. UNCHANGED <<ledger, applied>>
  BY DEF StartSeed, LockSeed, ArchiveImages, UpsertImages, CountImages,
         SeedDies, tables
<1>2. LedgerNamesTheSeed'
  BY <1>1 DEF LedgerInv, LedgerNamesTheSeed
<1>3. OpenSeedsLoad'
  <2>1. CASE \E m \in Manifests, execute \in BOOLEAN : StartSeed(s, m, execute)
    <3> PICK m \in Manifests, execute \in BOOLEAN : StartSeed(s, m, execute)
      BY <2>1
    <3> DEFINE new == [IdleSeed EXCEPT !.pc = "lock", !.manifest = m,
                                       !.execute = execute]
    <3>1. DOMAIN new = SeedFields /\ new.manifest = m
      BY DEF IdleSeed, SeedFields
    <3>2. seed' = [seed EXCEPT ![s] = new]
      BY DEF StartSeed
    <3> HIDE DEF new
    <3> QED
      BY <3>1, <3>2 DEF LedgerInv, OpenSeedsLoad
  <2>2. CASE EndSeed(s)
    BY <2>2, EndingKeepsTheOthers DEF LedgerInv
  <2>3. CASE LockSeed(s) /\ ~ EndSeed(s)
    BY <2>3 DEF LockSeed, LedgerInv, OpenSeedsLoad, SeedFields
  <2>4. CASE ArchiveImages(s)
    BY <2>4 DEF ArchiveImages, LedgerInv, OpenSeedsLoad, SeedFields
  <2>5. CASE UpsertImages(s)
    BY <2>5 DEF UpsertImages, LedgerInv, OpenSeedsLoad, SeedFields
  <2>6. CASE CountImages(s) /\ ~ EndSeed(s)
    BY <2>6 DEF CountImages, LedgerInv, OpenSeedsLoad, SeedFields
  <2>7. CASE SeedDies(s)
    BY <2>2, <2>7 DEF SeedDies
  <2> QED
    BY <2>1, <2>2, <2>3, <2>4, <2>5, <2>6, <2>7
<1> QED
  BY <1>2, <1>3 DEF LedgerInv

\* A seed that commits names itself in the row of its version.
LEMMA CommitNamesTheSeed ==
    ASSUME TablesAssumption, LedgerInv, NEW s \in Seeders, CommitSeed(s)
    PROVE  LedgerInv'
<1>1. seed[s].manifest \in Manifests
  BY DEF LedgerInv, OpenSeedsLoad, CommitSeed
<1>2. OpenSeedsLoad'
  BY EndingKeepsTheOthers DEF CommitSeed, LedgerInv
<1>3. CASE seed[s].execute
  <2> DEFINE m == seed[s].manifest
  <2>1. applied' = m /\ ledger' = LedgerAfter(m)
    BY <1>3 DEF CommitSeed
  <2>2. applied' # Missing
    BY <1>1, <2>1 DEF TablesAssumption
  <2>3. /\ Version[m] \in DOMAIN LedgerAfter(m)
        /\ LedgerAfter(m)[Version[m]] = m
    BY DEF LedgerAfter, Merged
  <2> QED
    BY <1>2, <2>1, <2>2, <2>3 DEF LedgerInv, LedgerNamesTheSeed
<1>4. CASE ~ seed[s].execute
  BY <1>2, <1>4 DEF CommitSeed, LedgerInv, LedgerNamesTheSeed
<1> QED
  BY <1>3, <1>4

\* The rollback empties the ledger with the table, or touches neither.
LEMMA RollbackClearsTheLedger ==
    ASSUME LedgerInv, ApplyRollback
    PROVE  LedgerInv'
BY DEF LedgerInv, LedgerNamesTheSeed, OpenSeedsLoad, ApplyRollback

\* The invariant of the ledger holds in every reachable state.
LEMMA LedgerInvHolds == Spec => []LedgerInv
<1>1. Init => LedgerInv
  BY DEF Init, TablesInit, SeedInit, IdleSeed, LedgerInv, OpenSeedsLoad,
         SeedFields, LedgerNamesTheSeed
<1>2. LedgerInv /\ [Next]_vars => LedgerInv'
  <2> SUFFICES ASSUME LedgerInv, [Next]_vars PROVE LedgerInv'
    OBVIOUS
  <2>1. CASE SeedNext
    <3>1. CASE \E s \in Seeders : CommitSeed(s)
      BY <3>1, CommitNamesTheSeed, TablesAssumption
    <3>2. CASE ApplyRollback
      BY <3>2, RollbackClearsTheLedger
    <3>3. CASE MigrateUp \/ CheckRollback
      BY <3>3, OthersKeepTheLedger DEF MigrateUp, CheckRollback, seedVars, tables
    <3> QED
      BY <2>1, <3>1, <3>2, <3>3, SeedStepsKeepTheLedger, TablesAssumption
      DEF SeedNext
  <2>2. CASE PoolNext /\ UNCHANGED seedVars
    <3>1. UNCHANGED <<ledger, applied>>
      BY <2>2 DEF PoolNext, StartPool, LockPool, CloneCell, FinishPool, PoolDies,
                  tables
    <3> QED
      BY <2>2, <3>1, OthersKeepTheLedger DEF seedVars
  <2>3. CASE \E c \in DOMAIN battery_cell : Capture(c)
    BY <2>3, OthersKeepTheLedger DEF Capture, seedVars
  <2>4. CASE UNCHANGED vars
    BY <2>4, OthersKeepTheLedger DEF vars, tables, seedVars
  <2> QED
    BY <2>1, <2>2, <2>3, <2>4 DEF Next
<1> QED
  BY <1>1, <1>2, PTL DEF Spec

\* The digest in the ledger is that of the applied manifest, and there is none
\* when nothing is applied, whatever seeds, expansions, rollbacks and captures
\* interleave and whichever of them die (apply-simulation-seed.py:286-308,
\* 20260814_simulation_capture_sets_down.sql:28-49).
THEOREM LedgerStaysTrue == Spec => []LedgerNamesTheSeed
<1>1. LedgerInv => LedgerNamesTheSeed
  BY DEF LedgerInv
<1> QED
  BY <1>1, LedgerInvHolds, PTL

(***************************************************************************)
(* Who holds which lock.                                                   *)
(***************************************************************************)

PoolFields == {"pc", "target", "group", "execute", "existing", "plan",
               "cells", "images"}

Loading(s) == seed[s].pc \in {"archive", "upsert", "count", "commit"}

\* A transaction that may write holds the lock of its kind to its end, and the
\* seed and the rollback find the tables migrated.
LocksInv ==
    /\ OpenSeedsLoad
    /\ DOMAIN pool = Expanders
    /\ \A x \in Expanders : DOMAIN pool[x] = PoolFields
    /\ DOMAIN holder = {SeedLock, PoolLock}
    /\ \A s \in Seeders : Loading(s) => holder[SeedLock] = s /\ Migrated
    /\ rollback = "checked" => holder[SeedLock] = "down" /\ Migrated
    /\ \A x \in Expanders : pool[x].pc = "clone" => holder[PoolLock] = x

\* The seed and the expansion take different advisory locks.
LEMMA LocksApart == SeedLock # PoolLock
BY DEF SeedLock, PoolLock

\* The end of a transaction takes no lock from another one.
LEMMA SeedEndKeepsLocks ==
    ASSUME LocksInv, NEW s \in Seeders, EndSeed(s),
           UNCHANGED <<backup, rollback, pool>>
    PROVE  LocksInv'
<1>1. OpenSeedsLoad'
  BY EndingKeepsTheOthers DEF LocksInv
<1>2. \A k \in DOMAIN holder : holder[k] # s => holder'[k] = holder[k]
  BY DEF EndSeed, ReleaseAll
<1>3. DOMAIN holder' = DOMAIN holder
  BY DEF EndSeed, ReleaseAll
<1>4. /\ seed'[s].pc = "idle"
      /\ \A z \in Seeders \ {s} : seed'[z] = seed[z]
  BY DEF EndSeed, IdleSeed, LocksInv, OpenSeedsLoad
<1> QED
  BY <1>1, <1>2, <1>3, <1>4, LocksApart, TransactionsAssumption
  DEF LocksInv, Loading, Migrated

\* Nor does the end of an expansion.
LEMMA PoolEndKeepsLocks ==
    ASSUME LocksInv, NEW x \in Expanders, EndPool(x),
           UNCHANGED <<backup, rollback, seed>>
    PROVE  LocksInv'
<1>1. OpenSeedsLoad'
  BY DEF LocksInv, OpenSeedsLoad
<1>2. /\ DOMAIN holder' = DOMAIN holder
      /\ \A k \in DOMAIN holder : holder[k] # x => holder'[k] = holder[k]
  BY DEF EndPool, ReleaseAll
<1>3. /\ DOMAIN pool' = Expanders /\ pool'[x].pc = "idle"
      /\ \A z \in Expanders : DOMAIN pool'[z] = PoolFields
      /\ \A z \in Expanders \ {x} : pool'[z] = pool[z]
  BY DEF EndPool, IdlePool, LocksInv, PoolFields
<1> QED
  BY <1>1, <1>2, <1>3, LocksApart, TransactionsAssumption
  DEF LocksInv, Loading, Migrated

\* A step of a seed that goes on.
LEMMA SeedGoesOn ==
    ASSUME LocksInv, NEW s \in Seeders, UNCHANGED <<backup, rollback, pool>>,
           OpenSeedsLoad',
           \A z \in Seeders \ {s} : seed'[z] = seed[z],
           \/ holder' = holder /\ (Loading(s)' => Loading(s))
           \/ Acquire(SeedLock, s) /\ Migrated
    PROVE  LocksInv'
<1>1. CASE holder' = holder /\ (Loading(s)' => Loading(s))
  BY <1>1 DEF LocksInv, Loading, Migrated
<1>2. CASE Acquire(SeedLock, s) /\ Migrated
  <2>1. /\ holder[SeedLock] = Missing /\ holder'[SeedLock] = s
        /\ holder'[PoolLock] = holder[PoolLock]
        /\ DOMAIN holder' = DOMAIN holder
    BY <1>2, LocksApart DEF Acquire, LocksInv
  <2>2. /\ rollback # "checked"
        /\ \A z \in Seeders \ {s} : ~ Loading(z)
    BY <2>1, TransactionsAssumption DEF LocksInv
  <2> QED
    BY <1>2, <2>1, <2>2 DEF LocksInv, Loading, Migrated
<1> QED
  BY <1>1, <1>2

\* Every statement of a seed is made under the lock it took.
LEMMA SeedStepsKeepLocks ==
    ASSUME LocksInv, NEW s \in Seeders, UNCHANGED pool,
           \/ \E m \in Manifests, execute \in BOOLEAN : StartSeed(s, m, execute)
           \/ LockSeed(s) \/ ArchiveImages(s) \/ UpsertImages(s)
           \/ CountImages(s) \/ CommitSeed(s) \/ SeedDies(s)
    PROVE  LocksInv'
<1>1. UNCHANGED <<backup, rollback>>
  BY DEF StartSeed, LockSeed, ArchiveImages, UpsertImages, CountImages,
         CommitSeed, SeedDies, tables
<1>2. CASE EndSeed(s)
  BY <1>1, <1>2, SeedEndKeepsLocks
<1>3. CASE \E m \in Manifests, execute \in BOOLEAN : StartSeed(s, m, execute)
  <2> PICK m \in Manifests, execute \in BOOLEAN : StartSeed(s, m, execute)
    BY <1>3
  <2> DEFINE new == [IdleSeed EXCEPT !.pc = "lock", !.manifest = m,
                                     !.execute = execute]
  <2>1. DOMAIN new = SeedFields /\ new.manifest = m /\ new.pc = "lock"
    BY DEF IdleSeed, SeedFields
  <2>2. seed' = [seed EXCEPT ![s] = new] /\ holder' = holder
    BY DEF StartSeed
  <2> HIDE DEF new
  <2>3. OpenSeedsLoad' /\ ~ Loading(s)'
    BY <2>1, <2>2 DEF LocksInv, OpenSeedsLoad, Loading
  <2>4. \A z \in Seeders \ {s} : seed'[z] = seed[z]
    BY <2>2 DEF LocksInv, OpenSeedsLoad
  <2> QED
    BY <1>1, <2>2, <2>3, <2>4, SeedGoesOn
<1>4. CASE LockSeed(s) /\ ~ EndSeed(s)
  <2>1. /\ Acquire(SeedLock, s) /\ Migrated /\ seed[s].pc = "lock"
        /\ seed' = [seed EXCEPT ![s].pc = "archive"]
    BY <1>4 DEF LockSeed
  <2>2. OpenSeedsLoad' /\ \A z \in Seeders \ {s} : seed'[z] = seed[z]
    BY <2>1 DEF LocksInv, OpenSeedsLoad, SeedFields
  <2> QED
    BY <1>1, <2>1, <2>2, SeedGoesOn
<1>5. CASE \/ ArchiveImages(s) \/ UpsertImages(s)
           \/ CountImages(s) /\ ~ EndSeed(s)
  <2>1. Loading(s) /\ holder' = holder
    BY <1>5 DEF ArchiveImages, UpsertImages, CountImages, Loading
  <2>2. \A z \in Seeders \ {s} : seed'[z] = seed[z]
    BY <1>5 DEF ArchiveImages, UpsertImages, CountImages, LocksInv, OpenSeedsLoad
  <2>3. OpenSeedsLoad'
    <3>1. CASE ArchiveImages(s)
      BY <3>1 DEF ArchiveImages, LocksInv, OpenSeedsLoad, SeedFields
    <3>2. CASE UpsertImages(s)
      BY <3>2 DEF UpsertImages, LocksInv, OpenSeedsLoad, SeedFields
    <3>3. CASE CountImages(s) /\ ~ EndSeed(s)
      BY <3>3 DEF CountImages, LocksInv, OpenSeedsLoad, SeedFields
    <3> QED
      BY <1>5, <3>1, <3>2, <3>3
  <2> QED
    BY <1>1, <2>1, <2>2, <2>3, SeedGoesOn
<1> QED
  BY <1>2, <1>3, <1>4, <1>5 DEF CommitSeed, SeedDies

\* The migrations wait for the lock of the seed, or hold it.
LEMMA MigrationsKeepLocks ==
    ASSUME LocksInv, UNCHANGED pool, MigrateUp \/ CheckRollback \/ ApplyRollback
    PROVE  LocksInv'
<1>1. CASE MigrateUp
  <2>1. /\ \A s \in Seeders : ~ Loading(s)
        /\ rollback # "checked"
        /\ UNCHANGED <<seed, rollback, holder>>
    BY <1>1 DEF MigrateUp, LocksInv, seedVars
  <2> QED
    BY <2>1 DEF LocksInv, OpenSeedsLoad, Loading
<1>2. CASE CheckRollback
  <2>1. /\ holder[SeedLock] = Missing /\ holder'[SeedLock] = "down"
        /\ holder'[PoolLock] = holder[PoolLock]
        /\ DOMAIN holder' = DOMAIN holder
        /\ Migrated /\ UNCHANGED <<seed, backup>>
    BY <1>2, LocksApart DEF CheckRollback, Acquire, LocksInv, tables
  <2>2. \A s \in Seeders : ~ Loading(s)
    BY <2>1, TransactionsAssumption DEF LocksInv
  <2> QED
    BY <2>1, <2>2 DEF LocksInv, OpenSeedsLoad, Loading, Migrated
<1>3. CASE ApplyRollback
  <2>1. /\ rollback' # "checked" /\ UNCHANGED <<seed, backup>>
        /\ DOMAIN holder' = DOMAIN holder
        /\ \A k \in DOMAIN holder : holder[k] # "down" => holder'[k] = holder[k]
    BY <1>3 DEF ApplyRollback, ReleaseAll
  <2> QED
    BY <2>1, TransactionsAssumption DEF LocksInv, OpenSeedsLoad, Loading, Migrated
<1> QED
  BY <1>1, <1>2, <1>3

\* Every statement of an expansion is made under the lock it took.
LEMMA PoolStepsKeepLocks ==
    ASSUME LocksInv, NEW x \in Expanders, UNCHANGED seedVars,
           \/ \E target \in 1..MaxCells, group \in Groups, execute \in BOOLEAN :
                 StartPool(x, target, group, execute)
           \/ LockPool(x) \/ CloneCell(x) \/ FinishPool(x) \/ PoolDies(x)
    PROVE  LocksInv'
<1>1. UNCHANGED <<backup, rollback, seed>>
  BY DEF StartPool, LockPool, CloneCell, FinishPool, PoolDies, tables, seedVars
<1>2. OpenSeedsLoad'
  BY <1>1 DEF LocksInv, OpenSeedsLoad
<1>3. CASE EndPool(x)
  BY <1>1, <1>3, PoolEndKeepsLocks
<1>4. CASE \E target \in 1..MaxCells, group \in Groups, execute \in BOOLEAN :
               StartPool(x, target, group, execute)
  <2> PICK target \in 1..MaxCells, group \in Groups, execute \in BOOLEAN :
          StartPool(x, target, group, execute)
    BY <1>4
  <2> DEFINE new == [IdlePool EXCEPT !.pc = "lock", !.target = target,
                                     !.group = group, !.execute = execute]
  <2>1. DOMAIN new = PoolFields /\ new.pc = "lock"
    BY DEF IdlePool, PoolFields
  <2>2. pool' = [pool EXCEPT ![x] = new] /\ holder' = holder
    BY DEF StartPool
  <2> HIDE DEF new
  <2> QED
    BY <1>1, <1>2, <2>1, <2>2 DEF LocksInv, Loading, Migrated
<1>5. CASE LockPool(x)
  <2> DEFINE existing == DOMAIN battery_cell
             plan == build_clone_plan(existing, pool[x].target, pool[x].group)
  <2>1. /\ holder[PoolLock] = Missing /\ holder'[PoolLock] = x
        /\ holder'[SeedLock] = holder[SeedLock]
        /\ DOMAIN holder' = DOMAIN holder
    BY <1>5, LocksApart DEF LockPool, Acquire, LocksInv
  <2>2. \A z \in Expanders : pool[z].pc # "clone"
    BY <2>1, TransactionsAssumption DEF LocksInv
  <2>3. pool' = [pool EXCEPT ![x].pc = "clone", ![x].existing = existing,
                             ![x].plan = plan]
    BY <1>5 DEF LockPool
  <2> HIDE DEF existing, plan
  <2>4. /\ DOMAIN pool' = Expanders
        /\ \A z \in Expanders : DOMAIN pool'[z] = PoolFields
        /\ \A z \in Expanders \ {x} : pool'[z] = pool[z]
    BY <2>3 DEF LocksInv, PoolFields
  <2> QED
    BY <1>1, <1>2, <2>1, <2>2, <2>4 DEF LocksInv, Loading, Migrated
<1>6. CASE CloneCell(x)
  <2>1. /\ pool[x].pc = "clone" /\ holder' = holder
        /\ \E f, g : pool' = [pool EXCEPT ![x].cells = f, ![x].images = g]
    BY <1>6 DEF CloneCell
  <2>2. /\ DOMAIN pool' = Expanders
        /\ \A z \in Expanders : DOMAIN pool'[z] = PoolFields
        /\ \A z \in Expanders \ {x} : pool'[z] = pool[z]
    BY <2>1 DEF LocksInv, PoolFields
  <2> QED
    BY <1>1, <1>2, <2>1, <2>2 DEF LocksInv, Loading, Migrated
<1> QED
  BY <1>3, <1>4, <1>5, <1>6 DEF FinishPool, PoolDies

\* The invariant of the locks holds in every reachable state.
LEMMA LocksInvHolds == Spec => []LocksInv
<1>1. Init => LocksInv
  BY DEF Init, TablesInit, SeedInit, IdleSeed, PoolInit, IdlePool, LocksInv,
         OpenSeedsLoad, SeedFields, PoolFields, Loading
<1>2. LocksInv /\ [Next]_vars => LocksInv'
  <2> SUFFICES ASSUME LocksInv, [Next]_vars PROVE LocksInv'
    OBVIOUS
  <2>1. CASE SeedNext /\ UNCHANGED pool
    BY <2>1, SeedStepsKeepLocks, MigrationsKeepLocks DEF SeedNext
  <2>2. CASE PoolNext /\ UNCHANGED seedVars
    BY <2>2, PoolStepsKeepLocks DEF PoolNext
  <2>3. CASE UNCHANGED <<seedVars, holder, pool, backup>>
    BY <2>3 DEF seedVars, LocksInv, OpenSeedsLoad, Loading, Migrated
  <2> QED
    BY <2>1, <2>2, <2>3 DEF Next, Capture, vars, tables
<1> QED
  BY <1>1, <1>2, PTL DEF Spec

-----------------------------------------------------------------------------
(***************************************************************************)
(* What the images of the cells are, in the tables and in what the open    *)
(* transactions will commit, for every set of manifests, any number of     *)
(* seeds and expansions and any cells.                                     *)
(***************************************************************************)


\* S is what some recorded cell carries in an image table, or nothing.
WholeOf(images, S) ==
    S = {} \/ \E t \in Recorded : S = ActiveImages(images, t)

\* S is what one provisioned cell carries under one manifest, or carried when
\* the tables were migrated, or nothing.
Whole(S) ==
    \/ WholeOf(backup, S)
    \/ \E t \in Recorded, m \in Manifests : S = ManifestImages(m, t)

\* Images are keyed by the cell they belong to, as the foreign key has it.
RowsOf(images, cells) == \A r \in DOMAIN images : r = <<r[1], r[2]>> /\ r[1] \in cells

KeysInv ==
    /\ Recorded \subseteq DOMAIN battery_cell
    /\ RowsOf(battery_cell_image, DOMAIN battery_cell)
    /\ Migrated => RowsOf(backup, DOMAIN battery_cell)

\* The committed images of the recorded cells and of their clones.
ImagesInv ==
    /\ applied # Missing => applied \in Manifests /\ Migrated
    /\ applied # Missing => \A c \in Recorded :
          ActiveImages(battery_cell_image, c) = ManifestImages(applied, c)
    /\ applied = Missing /\ Migrated => \A c \in Recorded :
          ActiveImages(battery_cell_image, c) = ActiveImages(backup, c)
    /\ Migrated => \A c \in DOMAIN battery_cell \ Recorded :
          /\ Whole(ActiveImages(battery_cell_image, c))
          /\ WholeOf(backup, ActiveImages(backup, c))
    /\ ~ Migrated => \A c \in DOMAIN battery_cell \ Recorded :
          WholeOf(battery_cell_image, ActiveImages(battery_cell_image, c))

\* What an open seed will commit, whatever is committed meanwhile: it covers
\* every image of the recorded cells; of any other cell it archives every
\* image, or it has none, because the cell was created after the archiving.
WritesOf(s) ==
    LET w == seed[s].writes
        rows == ManifestRows[seed[s].manifest]
    IN  /\ RowsOf(w, DOMAIN battery_cell)
        /\ \A r \in DOMAIN battery_cell_image : r[1] \in Recorded => r \in DOMAIN w
        /\ \A c \in DOMAIN battery_cell \ Recorded :
              \/ \A r \in DOMAIN battery_cell_image : r[1] = c => r \in DOMAIN w
              \/ \A r \in DOMAIN w : r[1] # c
        /\ seed[s].pc = "upsert" => \A r \in DOMAIN w : w[r] = "ARCHIVED"
        /\ seed[s].pc # "upsert" =>
              /\ DOMAIN rows \subseteq DOMAIN w
              /\ \A r \in DOMAIN w :
                    w[r] = IF r \in DOMAIN rows THEN rows[r] ELSE "ARCHIVED"

Written(s) == seed[s].pc \in {"upsert", "count", "commit"}

WritesInv == \A s \in Seeders : Written(s) => WritesOf(s)

\* What an open expansion will commit: whole copies for cells that nobody else
\* can create before it ends.
CopiesOf(x) ==
    /\ pool[x].target \in Int
    /\ pool[x].pc = "clone" =>
          /\ pool[x].existing = DOMAIN battery_cell
          /\ DOMAIN pool[x].plan \subseteq Nat \ DOMAIN battery_cell
          /\ DOMAIN pool[x].cells \subseteq DOMAIN pool[x].plan
    /\ pool[x].pc # "clone" => DOMAIN pool[x].cells = {}
    /\ DOMAIN pool[x].cells # {} => Migrated
    /\ RowsOf(pool[x].images, DOMAIN pool[x].cells)
    /\ \A c \in DOMAIN pool[x].cells : Whole(ActiveImages(pool[x].images, c))

CopiesInv == \A x \in Expanders : CopiesOf(x)

DatabaseInv == LocksInv /\ KeysInv /\ ImagesInv /\ WritesInv /\ CopiesInv

\* Two tables that agree on the active images of a cell.
LEMMA SameImages ==
    ASSUME NEW f, NEW g, NEW c,
           \A r : r[1] = c => (/\ r \in DOMAIN f /\ f[r] \in Active
                               <=> r \in DOMAIN g /\ g[r] \in Active),
           \A r : r[1] = c /\ r \in DOMAIN f /\ f[r] \in Active => g[r] = f[r]
    PROVE  ActiveImages(f, c) = ActiveImages(g, c)
BY DEF ActiveImages

\* A cell whose rows are all archived shows nothing.
LEMMA NoImages ==
    ASSUME NEW f, NEW c, \A r \in DOMAIN f : r[1] = c => f[r] \notin Active
    PROVE  ActiveImages(f, c) = {}
BY DEF ActiveImages

\* Archived images are out of use (apply-simulation-seed.py:236-244).
LEMMA ArchivedIsNotActive == "ARCHIVED" \notin Active
BY DEF Active

\* A cell that the upper table has no row of shows the lower one.
LEMMA MergedBelow ==
    ASSUME NEW f, NEW g, NEW c, \A r \in DOMAIN f : r[1] # c
    PROVE  ActiveImages(Merged(f, g), c) = ActiveImages(g, c)
<1>1. \A r : r[1] = c => (r \in DOMAIN Merged(f, g) <=> r \in DOMAIN g)
  BY DEF Merged
<1>2. \A r : r[1] = c /\ r \in DOMAIN g => Merged(f, g)[r] = g[r]
  BY DEF Merged
<1> QED
  BY <1>1, <1>2, SameImages

\* A cell that the upper table has every row of shows the upper one.
LEMMA MergedAbove ==
    ASSUME NEW f, NEW g, NEW c, \A r \in DOMAIN g : r[1] = c => r \in DOMAIN f
    PROVE  ActiveImages(Merged(f, g), c) = ActiveImages(f, c)
<1>1. \A r : r[1] = c => (r \in DOMAIN Merged(f, g) <=> r \in DOMAIN f)
  BY DEF Merged
<1>2. \A r : r[1] = c /\ r \in DOMAIN f => Merged(f, g)[r] = f[r]
  BY DEF Merged
<1> QED
  BY <1>1, <1>2, SameImages

(***************************************************************************)
(* Steps that change no cell and no image.                                 *)
(***************************************************************************)

\* What is committed is judged by the committed tables alone.
LEMMA TablesUntouched ==
    ASSUME KeysInv, ImagesInv,
           UNCHANGED <<battery_cell, battery_cell_image, backup, applied>>
    PROVE  KeysInv' /\ ImagesInv'
BY DEF KeysInv, ImagesInv, RowsOf, Whole, WholeOf, Migrated

\* Of the open seeds only one changes, or none.
LEMMA OtherWrites ==
    ASSUME WritesInv, NEW s \in Seeders,
           UNCHANGED <<battery_cell, battery_cell_image>>,
           \A z \in Seeders \ {s} : seed'[z] = seed[z],
           Written(s)' => WritesOf(s)'
    PROVE  WritesInv'
BY DEF WritesInv, Written, WritesOf, RowsOf

\* What the open seeds have written stays right while they and the tables
\* stand still.
LEMMA WritesUntouched ==
    ASSUME WritesInv, UNCHANGED <<battery_cell, battery_cell_image, seed>>
    PROVE  WritesInv'
BY DEF WritesInv, Written, WritesOf, RowsOf

\* Of the open expansions only one changes.
LEMMA OtherCopies ==
    ASSUME CopiesInv, NEW x \in Expanders, UNCHANGED <<battery_cell, backup>>,
           \A z \in Expanders \ {x} : pool'[z] = pool[z],
           CopiesOf(x)'
    PROVE  CopiesInv'
<1> SUFFICES ASSUME NEW z \in Expanders \ {x} PROVE CopiesOf(z)'
  BY DEF CopiesInv
<1>1. CopiesOf(z) /\ pool'[z] = pool[z]
  BY DEF CopiesInv
<1> QED
  BY <1>1 DEF CopiesOf, RowsOf, Whole, WholeOf, Migrated

\* What the open expansions have copied stays right while they stand still.
LEMMA CopiesUntouched ==
    ASSUME CopiesInv, UNCHANGED <<battery_cell, backup, pool>>
    PROVE  CopiesInv'
BY DEF CopiesInv, CopiesOf, RowsOf, Whole, WholeOf, Migrated

\* The archiving covers every image there is; a later one is of a new cell.
LEMMA ArchiveWrites ==
    ASSUME DatabaseInv, NEW s \in Seeders, ArchiveImages(s)
    PROVE  WritesInv'
<1>1. /\ seed'[s].pc = "upsert"
      /\ seed'[s].writes = [r \in DOMAIN battery_cell_image |-> "ARCHIVED"]
      /\ \A z \in Seeders \ {s} : seed'[z] = seed[z]
      /\ UNCHANGED <<battery_cell, battery_cell_image>>
  BY DEF ArchiveImages, DatabaseInv, LocksInv, OpenSeedsLoad, SeedFields, tables
<1>2. WritesOf(s)'
  BY <1>1 DEF WritesOf, DatabaseInv, KeysInv, RowsOf
<1> QED
  BY <1>1, <1>2, OtherWrites DEF DatabaseInv

\* Every cell of the manifest exists, so that all its rows are put in place.
LEMMA UpsertWrites ==
    ASSUME TablesAssumption, DatabaseInv, NEW s \in Seeders, UpsertImages(s)
    PROVE  WritesInv'
<1> DEFINE rows == ManifestRows[seed[s].manifest]
           joined == {r \in DOMAIN rows : r[1] \in DOMAIN battery_cell}
           placed == [r \in joined |-> rows[r]]
           w == Merged(placed, seed[s].writes)
<1>1. seed[s].manifest \in Manifests
  BY DEF DatabaseInv, LocksInv, OpenSeedsLoad, UpsertImages
<1>2. /\ \A r \in DOMAIN rows : r = <<r[1], r[2]>> /\ r[1] \in Recorded
      /\ joined = DOMAIN rows
  BY <1>1 DEF TablesAssumption, DatabaseInv, KeysInv
<1>3. seed' = [seed EXCEPT ![s].pc = "count", ![s].writes = w]
  BY DEF UpsertImages
<1>4. /\ DOMAIN w = DOMAIN rows \cup DOMAIN seed[s].writes
      /\ \A r \in DOMAIN rows : w[r] = rows[r]
      /\ \A r \in DOMAIN seed[s].writes \ DOMAIN rows : w[r] = seed[s].writes[r]
  BY <1>2 DEF Merged
<1>5. UNCHANGED <<battery_cell, battery_cell_image>>
  BY DEF UpsertImages, tables
<1>6. seed[s].pc = "upsert" /\ WritesOf(s)
  BY DEF UpsertImages, DatabaseInv, WritesInv, Written
<1> HIDE DEF w
<1>7. /\ seed'[s].pc = "count" /\ seed'[s].writes = w
      /\ seed'[s].manifest = seed[s].manifest
      /\ \A z \in Seeders \ {s} : seed'[z] = seed[z]
  BY <1>3 DEF DatabaseInv, LocksInv, OpenSeedsLoad, SeedFields
<1>8. RowsOf(w, DOMAIN battery_cell)
  BY <1>2, <1>4, <1>6 DEF WritesOf, RowsOf, DatabaseInv, KeysInv
<1>9. \A r \in DOMAIN w :
          w[r] = IF r \in DOMAIN rows THEN rows[r] ELSE "ARCHIVED"
  BY <1>4, <1>6 DEF WritesOf
<1>10. \A c \in DOMAIN battery_cell \ Recorded :
           \/ \A r \in DOMAIN battery_cell_image : r[1] = c => r \in DOMAIN w
           \/ \A r \in DOMAIN w : r[1] # c
  BY <1>2, <1>4, <1>6 DEF WritesOf
<1>11. \A r \in DOMAIN battery_cell_image : r[1] \in Recorded => r \in DOMAIN w
  BY <1>4, <1>6 DEF WritesOf
<1>12. WritesOf(s)'
  BY <1>4, <1>5, <1>7, <1>8, <1>9, <1>10, <1>11 DEF WritesOf, RowsOf
<1> QED
  BY <1>5, <1>7, <1>12, OtherWrites DEF DatabaseInv

\* The other steps of a seed before its commit.
LEMMA SeedStepsKeepWrites ==
    ASSUME TablesAssumption, DatabaseInv, NEW s \in Seeders,
           UNCHANGED <<battery_cell, battery_cell_image>>,
           \/ \E m \in Manifests, execute \in BOOLEAN : StartSeed(s, m, execute)
           \/ LockSeed(s) \/ ArchiveImages(s) \/ UpsertImages(s)
           \/ CountImages(s) \/ EndSeed(s)
    PROVE  WritesInv'
<1>1. CASE EndSeed(s)
  <2>1. seed'[s].pc = "idle" /\ \A z \in Seeders \ {s} : seed'[z] = seed[z]
    BY <1>1 DEF EndSeed, IdleSeed, DatabaseInv, LocksInv, OpenSeedsLoad
  <2> QED
    BY <2>1, OtherWrites DEF DatabaseInv, Written
<1>2. CASE \E m \in Manifests, execute \in BOOLEAN : StartSeed(s, m, execute)
  <2> PICK m \in Manifests, execute \in BOOLEAN : StartSeed(s, m, execute)
    BY <1>2
  <2> DEFINE new == [IdleSeed EXCEPT !.pc = "lock", !.manifest = m,
                                     !.execute = execute]
  <2>1. new.pc = "lock"
    BY DEF IdleSeed
  <2>2. seed' = [seed EXCEPT ![s] = new]
    BY DEF StartSeed
  <2> HIDE DEF new
  <2>3. seed'[s].pc = "lock" /\ \A z \in Seeders \ {s} : seed'[z] = seed[z]
    BY <2>1, <2>2 DEF DatabaseInv, LocksInv, OpenSeedsLoad
  <2> QED
    BY <2>3, OtherWrites DEF DatabaseInv, Written
<1>3. CASE LockSeed(s) /\ ~ EndSeed(s)
  <2>1. seed'[s].pc = "archive" /\ \A z \in Seeders \ {s} : seed'[z] = seed[z]
    BY <1>3 DEF LockSeed, DatabaseInv, LocksInv, OpenSeedsLoad, SeedFields
  <2> QED
    BY <2>1, OtherWrites DEF DatabaseInv, Written
<1>4. CASE CountImages(s) /\ ~ EndSeed(s)
  <2>1. /\ seed[s].pc = "count" /\ seed'[s].pc = "commit"
        /\ seed'[s].writes = seed[s].writes
        /\ seed'[s].manifest = seed[s].manifest
        /\ \A z \in Seeders \ {s} : seed'[z] = seed[z]
    BY <1>4 DEF CountImages, DatabaseInv, LocksInv, OpenSeedsLoad, SeedFields
  <2>2. WritesOf(s)
    BY <2>1 DEF DatabaseInv, WritesInv, Written
  <2>3. WritesOf(s)'
    BY <2>1, <2>2 DEF WritesOf, RowsOf
  <2> QED
    BY <2>1, <2>3, OtherWrites DEF DatabaseInv
<1> QED
  BY <1>1, <1>2, <1>3, <1>4, ArchiveWrites, UpsertWrites

\* A copied row is keyed by the clone and shows what the template shows.
LEMMA CopyIsWhole ==
    ASSUME KeysInv, NEW t, NEW n
    PROVE  /\ RowsOf(CopiedImages(t, n), {n})
           /\ ActiveImages(CopiedImages(t, n), n) =
                  ActiveImages(battery_cell_image, t)
<1> DEFINE copy == CopiedImages(t, n)
           seen == ActiveImages(battery_cell_image, t)
<1>1. \A i \in seen : /\ i = <<i[1], i[2]>> /\ i[2] \in Active
                      /\ <<t, i[1]>> \in DOMAIN battery_cell_image
                      /\ battery_cell_image[<<t, i[1]>>] = i[2]
  <2> SUFFICES ASSUME NEW r \in DOMAIN battery_cell_image, r[1] = t,
                      battery_cell_image[r] \in Active
               PROVE  /\ <<t, r[2]>> \in DOMAIN battery_cell_image
                      /\ battery_cell_image[<<t, r[2]>>] = battery_cell_image[r]
    BY DEF ActiveImages
  <2>1. r = <<t, r[2]>>
    BY DEF KeysInv, RowsOf
  <2> QED
    BY <2>1
<1>2. /\ DOMAIN copy = {<<n, i[1]>> : i \in seen}
      /\ \A i \in seen : copy[<<n, i[1]>>] = i[2]
  BY <1>1 DEF CopiedImages
<1>3. RowsOf(copy, {n})
  BY <1>2 DEF RowsOf
<1>4. ActiveImages(copy, n) \subseteq seen
  BY <1>1, <1>2 DEF ActiveImages
<1>5. ASSUME NEW i \in seen
      PROVE  i \in ActiveImages(copy, n)
  <2> DEFINE r == <<n, i[1]>>
  <2>1. /\ r \in DOMAIN copy /\ r[1] = n /\ r[2] = i[1]
        /\ copy[r] = i[2] /\ i[2] \in Active /\ i = <<i[1], i[2]>>
    BY <1>1, <1>2
  <2> QED
    BY <2>1 DEF ActiveImages
<1> QED
  BY <1>3, <1>4, <1>5

\* Whatever cell is copied, the copy is whole.
LEMMA AnyCellIsWhole ==
    ASSUME KeysInv, ImagesInv, Migrated, NEW t
    PROVE  Whole(ActiveImages(battery_cell_image, t))
<1>1. CASE t \in Recorded
  BY <1>1 DEF ImagesInv, Whole, WholeOf
<1>2. CASE t \in DOMAIN battery_cell \ Recorded
  BY <1>2 DEF ImagesInv
<1>3. CASE t \notin DOMAIN battery_cell
  <2>1. ActiveImages(battery_cell_image, t) = {}
    BY <1>3, NoImages DEF KeysInv, RowsOf
  <2> QED
    BY <2>1 DEF Whole, WholeOf
<1> QED
  BY <1>1, <1>2, <1>3

(***************************************************************************)
(* The steps that change the tables.                                       *)
(***************************************************************************)

\* While somebody else holds the lock of the seed, no seed has written.
LEMMA OneSeedWrites ==
    ASSUME LocksInv, NEW p, holder[SeedLock] = p
    PROVE  \A z \in Seeders : Written(z) => z = p
BY DEF LocksInv, Loading, Written

\* A seed that commits puts the rows of its manifest on the recorded cells,
\* and leaves a clone without images, or as it was when it was created since.
LEMMA CommitKeepsImages ==
    ASSUME TablesAssumption, DatabaseInv, NEW s \in Seeders,
           CommitSeed(s), seed[s].execute, UNCHANGED pool
    PROVE  KeysInv' /\ ImagesInv' /\ WritesInv' /\ CopiesInv'
<1> DEFINE w == seed[s].writes
           m == seed[s].manifest
           rows == ManifestRows[m]
<1>1. /\ battery_cell_image' = Merged(w, battery_cell_image)
      /\ applied' = m /\ EndSeed(s)
      /\ UNCHANGED <<battery_cell, backup>>
  BY DEF CommitSeed
<1>2. /\ seed[s].pc = "commit" /\ m \in Manifests /\ Migrated
      /\ holder[SeedLock] = s /\ WritesOf(s)
  BY DEF CommitSeed, DatabaseInv, LocksInv, OpenSeedsLoad, Loading, WritesInv,
         Written
<1>3. \A r \in DOMAIN rows : r[1] \in Recorded /\ rows[r] \in Active
  BY <1>2 DEF TablesAssumption
<1>4. /\ RowsOf(w, DOMAIN battery_cell)
      /\ \A r \in DOMAIN battery_cell_image : r[1] \in Recorded => r \in DOMAIN w
      /\ \A c \in DOMAIN battery_cell \ Recorded :
            \/ \A r \in DOMAIN battery_cell_image : r[1] = c => r \in DOMAIN w
            \/ \A r \in DOMAIN w : r[1] # c
      /\ DOMAIN rows \subseteq DOMAIN w
      /\ \A r \in DOMAIN w : w[r] = IF r \in DOMAIN rows THEN rows[r] ELSE "ARCHIVED"
  BY <1>2 DEF WritesOf
<1> HIDE DEF w, rows
<1>5. KeysInv'
  BY <1>1, <1>4 DEF KeysInv, RowsOf, Merged, Migrated, DatabaseInv
<1>6. \A c \in Recorded :
          ActiveImages(battery_cell_image', c) = ActiveImages(rows, c)
  <2> SUFFICES ASSUME NEW c \in Recorded
               PROVE  ActiveImages(battery_cell_image', c) = ActiveImages(rows, c)
    OBVIOUS
  <2>1. ActiveImages(battery_cell_image', c) = ActiveImages(w, c)
    BY <1>1, <1>4, MergedAbove
  <2>2. ActiveImages(w, c) = ActiveImages(rows, c)
    BY <1>3, <1>4, ArchivedIsNotActive, SameImages
  <2> QED
    BY <2>1, <2>2
<1>7. \A c \in DOMAIN battery_cell \ Recorded :
          \/ ActiveImages(battery_cell_image', c) = {}
          \/ ActiveImages(battery_cell_image', c) = ActiveImages(battery_cell_image, c)
  <2> SUFFICES ASSUME NEW c \in DOMAIN battery_cell \ Recorded
               PROVE  \/ ActiveImages(battery_cell_image', c) = {}
                      \/ ActiveImages(battery_cell_image', c) =
                            ActiveImages(battery_cell_image, c)
    OBVIOUS
  <2>1. CASE \A r \in DOMAIN battery_cell_image : r[1] = c => r \in DOMAIN w
    <3>1. ActiveImages(battery_cell_image', c) = ActiveImages(w, c)
      BY <1>1, <2>1, MergedAbove
    <3>2. \A r \in DOMAIN w : r[1] = c => w[r] \notin Active
      BY <1>3, <1>4, ArchivedIsNotActive
    <3> QED
      BY <3>1, <3>2, NoImages
  <2>2. CASE \A r \in DOMAIN w : r[1] # c
    BY <1>1, <2>2, MergedBelow
  <2> QED
    BY <1>4, <2>1, <2>2
<1>8. ImagesInv'
  <2>1. /\ applied' # Missing /\ applied' \in Manifests /\ Migrated'
    BY <1>1, <1>2 DEF TablesAssumption, Migrated
  <2>2. \A c \in Recorded :
            ActiveImages(battery_cell_image', c) = ManifestImages(applied', c)
    BY <1>1, <1>6 DEF ManifestImages, rows
  <2>3. \A c \in DOMAIN battery_cell \ Recorded :
            /\ Whole(ActiveImages(battery_cell_image, c))
            /\ WholeOf(backup, ActiveImages(backup, c))
    BY <1>2 DEF DatabaseInv, ImagesInv
  <2>4. \A c \in DOMAIN battery_cell \ Recorded :
            Whole(ActiveImages(battery_cell_image', c))
    BY <1>7, <2>3 DEF Whole, WholeOf
  <2> QED
    BY <1>1, <2>1, <2>2, <2>3, <2>4 DEF ImagesInv, Whole, WholeOf
<1>9. WritesInv'
  <2>1. /\ seed'[s].pc = "idle"
        /\ \A z \in Seeders \ {s} : seed'[z] = seed[z]
    BY <1>1 DEF EndSeed, IdleSeed, DatabaseInv, LocksInv, OpenSeedsLoad
  <2>2. \A z \in Seeders : Written(z) => z = s
    BY <1>2, OneSeedWrites DEF DatabaseInv
  <2> QED
    BY <2>1, <2>2 DEF WritesInv, Written
<1>10. CopiesInv'
  BY <1>1, CopiesUntouched DEF DatabaseInv
<1> QED
  BY <1>5, <1>8, <1>9, <1>10

\* The rollback restores the images of the backup.
LEMMA RollbackKeepsImages ==
    ASSUME DatabaseInv, ApplyRollback, captured \subseteq DOMAIN backup,
           UNCHANGED pool
    PROVE  KeysInv' /\ ImagesInv' /\ WritesInv' /\ CopiesInv'
<1>1. /\ battery_cell_image' = backup /\ applied' = Missing
      /\ rollback = "checked"
      /\ UNCHANGED <<battery_cell, backup, seed>>
  BY DEF ApplyRollback
<1>2. Migrated /\ holder[SeedLock] = "down"
  BY <1>1 DEF DatabaseInv, LocksInv
<1>3. KeysInv'
  BY <1>1, <1>2 DEF DatabaseInv, KeysInv, RowsOf, Migrated
<1>4. ImagesInv'
  BY <1>1, <1>2 DEF DatabaseInv, ImagesInv, Whole, WholeOf, Migrated
<1>5. \A z \in Seeders : ~ Written(z)
  BY <1>2, OneSeedWrites, TransactionsAssumption DEF DatabaseInv
<1>6. WritesInv'
  BY <1>1, <1>5 DEF WritesInv, Written
<1>7. CopiesInv'
  BY <1>1, CopiesUntouched DEF DatabaseInv
<1> QED
  BY <1>3, <1>4, <1>6, <1>7

\* The up migration backs up what is there, while no transaction has written.
LEMMA MigrationKeepsImages ==
    ASSUME DatabaseInv, MigrateUp, UNCHANGED pool
    PROVE  KeysInv' /\ ImagesInv' /\ WritesInv' /\ CopiesInv'
<1>1. /\ backup' = battery_cell_image /\ ~ Migrated
      /\ UNCHANGED <<battery_cell, battery_cell_image, applied, seed>>
  BY DEF MigrateUp, seedVars
<1>2. applied = Missing
  BY <1>1 DEF DatabaseInv, ImagesInv
<1>3. KeysInv'
  BY <1>1 DEF DatabaseInv, KeysInv, RowsOf
<1>4. ImagesInv'
  BY <1>1, <1>2 DEF DatabaseInv, ImagesInv, Whole, WholeOf
<1>5. WritesInv'
  BY <1>1, WritesUntouched DEF DatabaseInv
<1>6. CopiesInv'
  <2> SUFFICES ASSUME NEW x \in Expanders PROVE CopiesOf(x)'
    BY DEF CopiesInv
  <2>1. DOMAIN pool[x].cells = {} /\ CopiesOf(x)
    BY <1>1 DEF DatabaseInv, CopiesInv, CopiesOf
  <2>2. RowsOf(pool[x].images, {})
    BY <2>1 DEF CopiesOf
  <2> QED
    BY <1>1, <2>1, <2>2 DEF CopiesOf, RowsOf
<1> QED
  BY <1>3, <1>4, <1>5, <1>6

(***************************************************************************)
(* The steps of an expansion.                                              *)
(***************************************************************************)

\* A set of naturals has a least element.
LEMMA LeastExists ==
    ASSUME NEW S, S \subseteq Nat, S # {}
    PROVE  \E c \in S : \A d \in S : c <= d
<1>1. IsWellFoundedOn(OpToRel(<, Nat), Nat)
  BY NatLessThanWellFounded
<1>2. PICK c \in S : \A d \in S : <<d, c>> \notin OpToRel(<, Nat)
  BY <1>1, WFMin
<1>3. \A d \in S : ~ (d < c)
  BY <1>2 DEF OpToRel
<1> QED
  BY <1>3

\* The plan creates cells that do not exist.
LEMMA PlanIsNew ==
    ASSUME NEW existing, NEW target \in Int, NEW group
    PROVE  DOMAIN build_clone_plan(existing, target, group)
               \subseteq Nat \ existing
BY DEF build_clone_plan, NewSerials

\* The steps of an expansion that change no table.
LEMMA PoolStepsKeepCopies ==
    ASSUME DatabaseInv, NEW x \in Expanders,
           UNCHANGED <<battery_cell, battery_cell_image, backup>>,
           \/ \E target \in 1..MaxCells, group \in Groups, execute \in BOOLEAN :
                 StartPool(x, target, group, execute)
           \/ LockPool(x) \/ EndPool(x)
    PROVE  CopiesInv'
<1>0. DOMAIN pool = Expanders /\ DOMAIN pool[x] = PoolFields /\ CopiesOf(x)
  BY DEF DatabaseInv, LocksInv, CopiesInv
<1>1. CASE EndPool(x)
  <2>1. pool' = [pool EXCEPT ![x] = IdlePool]
    BY <1>1 DEF EndPool
  <2>2. /\ IdlePool.pc = "idle" /\ IdlePool.target = 0
        /\ DOMAIN IdlePool.cells = {} /\ DOMAIN IdlePool.images = {}
    BY DEF IdlePool
  <2>3. pool'[x] = IdlePool /\ \A z \in Expanders \ {x} : pool'[z] = pool[z]
    BY <1>0, <2>1
  <2>4. CopiesOf(x)'
    BY <2>2, <2>3 DEF CopiesOf, RowsOf
  <2> QED
    BY <2>3, <2>4, OtherCopies DEF DatabaseInv
<1>2. CASE \E target \in 1..MaxCells, group \in Groups, execute \in BOOLEAN :
               StartPool(x, target, group, execute)
  <2> PICK target \in 1..MaxCells, group \in Groups, execute \in BOOLEAN :
          StartPool(x, target, group, execute)
    BY <1>2
  <2> DEFINE new == [IdlePool EXCEPT !.pc = "lock", !.target = target,
                                     !.group = group, !.execute = execute]
  <2>1. pool' = [pool EXCEPT ![x] = new]
    BY DEF StartPool
  <2>2. /\ new.pc = "lock" /\ new.target = target
        /\ DOMAIN new.cells = {} /\ DOMAIN new.images = {}
    BY DEF IdlePool
  <2> HIDE DEF new
  <2>3. pool'[x] = new /\ \A z \in Expanders \ {x} : pool'[z] = pool[z]
    BY <1>0, <2>1
  <2>4. CopiesOf(x)'
    BY <2>2, <2>3 DEF CopiesOf, RowsOf
  <2> QED
    BY <2>3, <2>4, OtherCopies DEF DatabaseInv
<1>3. CASE LockPool(x)
  <2> DEFINE existing == DOMAIN battery_cell
             plan == build_clone_plan(existing, pool[x].target, pool[x].group)
  <2>1. pool' = [pool EXCEPT ![x].pc = "clone", ![x].existing = existing,
                             ![x].plan = plan]
    BY <1>3 DEF LockPool
  <2>2. pool[x].pc # "clone"
    BY <1>3 DEF LockPool
  <2>3. DOMAIN plan \subseteq Nat \ existing
    BY <1>0, PlanIsNew DEF CopiesOf
  <2> HIDE DEF plan
  <2>4. /\ pool'[x].pc = "clone" /\ pool'[x].existing = existing
        /\ pool'[x].plan = plan /\ pool'[x].target = pool[x].target
        /\ pool'[x].cells = pool[x].cells /\ pool'[x].images = pool[x].images
        /\ \A z \in Expanders \ {x} : pool'[z] = pool[z]
    BY <1>0, <2>1 DEF PoolFields
  <2>5. /\ DOMAIN pool[x].cells = {} /\ RowsOf(pool[x].images, {})
        /\ pool[x].target \in Int
    BY <1>0, <2>2 DEF CopiesOf
  <2>6. CopiesOf(x)'
    BY <2>3, <2>4, <2>5 DEF CopiesOf, RowsOf
  <2> QED
    BY <2>4, <2>6, OtherCopies DEF DatabaseInv
<1> QED
  BY <1>1, <1>2, <1>3

\* A copy is made of what is committed, and that is whole.
LEMMA CloneCellKeepsCopies ==
    ASSUME DatabaseInv, NEW x \in Expanders, CloneCell(x)
    PROVE  CopiesInv'
<1> DEFINE n == CHOOSE c \in ToCopy(x) : \A d \in ToCopy(x) : c <= d
           t == pool[x].plan[n]
           copied == CopiedImages(t, n)
           cells == Merged([c \in {n} |-> battery_cell[t] - 1], pool[x].cells)
           images == Merged(copied, pool[x].images)
<1>1. /\ pool[x].pc = "clone" /\ ToCopy(x) # {} /\ Migrated
      /\ UNCHANGED <<battery_cell, battery_cell_image, backup>>
      /\ pool' = [pool EXCEPT ![x].cells = cells, ![x].images = images]
  BY DEF CloneCell, tables
<1>2. /\ DOMAIN pool = Expanders /\ DOMAIN pool[x] = PoolFields /\ CopiesOf(x)
      /\ KeysInv /\ ImagesInv
  BY DEF DatabaseInv, LocksInv, CopiesInv
<1>3. ToCopy(x) \subseteq Nat
  BY <1>1, <1>2 DEF CopiesOf, ToCopy
<1>4. n \in ToCopy(x)
  BY <1>1, <1>3, LeastExists
<1> HIDE DEF n
<1>5. /\ RowsOf(copied, {n})
      /\ Whole(ActiveImages(copied, n))
  <2>1. /\ RowsOf(copied, {n})
        /\ ActiveImages(copied, n) = ActiveImages(battery_cell_image, t)
    BY <1>2, CopyIsWhole
  <2> QED
    BY <1>1, <1>2, <2>1, AnyCellIsWhole
<1> HIDE DEF t, copied
<1>6. /\ n \in DOMAIN pool[x].plan /\ n \notin DOMAIN pool[x].cells
      /\ DOMAIN pool[x].cells \subseteq DOMAIN pool[x].plan
      /\ DOMAIN cells = {n} \cup DOMAIN pool[x].cells
  BY <1>1, <1>2, <1>4 DEF ToCopy, CopiesOf, Merged
<1>7. /\ RowsOf(images, DOMAIN cells)
  BY <1>2, <1>5, <1>6 DEF CopiesOf, RowsOf, Merged
<1>8. ASSUME NEW c \in DOMAIN cells
      PROVE  Whole(ActiveImages(images, c))
  <2>1. CASE c = n
    <3>1. \A r \in DOMAIN pool[x].images : r[1] # n
      BY <1>2, <1>6 DEF CopiesOf, RowsOf
    <3>2. ActiveImages(images, n) = ActiveImages(copied, n)
      BY <3>1, MergedAbove
    <3> QED
      BY <1>5, <2>1, <3>2
  <2>2. CASE c # n
    <3>1. \A r \in DOMAIN copied : r[1] # c
      BY <1>5, <2>2 DEF RowsOf
    <3>2. ActiveImages(images, c) = ActiveImages(pool[x].images, c)
      BY <3>1, MergedBelow
    <3> QED
      BY <1>2, <1>6, <2>2, <3>2 DEF CopiesOf
  <2> QED
    BY <2>1, <2>2
<1> HIDE DEF cells, images
<1>9. /\ pool'[x].cells = cells /\ pool'[x].images = images
      /\ pool'[x].pc = "clone" /\ pool'[x].target = pool[x].target
      /\ pool'[x].existing = pool[x].existing /\ pool'[x].plan = pool[x].plan
      /\ \A z \in Expanders \ {x} : pool'[z] = pool[z]
  BY <1>1, <1>2 DEF PoolFields
<1>10. ASSUME NEW c \in DOMAIN pool'[x].cells
       PROVE  Whole(ActiveImages(pool[x].images, c))'
  <2>1. Whole(ActiveImages(images, c))
    BY <1>8, <1>9
  <2> QED
    BY <1>1, <1>9, <2>1 DEF Whole, WholeOf
<1>11. CopiesOf(x)'
  <2>1. /\ DOMAIN pool'[x].cells \subseteq DOMAIN pool'[x].plan
        /\ RowsOf(pool'[x].images, DOMAIN pool'[x].cells)
    BY <1>6, <1>7, <1>9
  <2>2. /\ pool'[x].target \in Int
        /\ pool'[x].existing = DOMAIN battery_cell'
        /\ DOMAIN pool'[x].plan \subseteq Nat \ DOMAIN battery_cell'
    BY <1>1, <1>2, <1>9 DEF CopiesOf
  <2>3. Migrated' /\ pool'[x].pc = "clone"
    BY <1>1, <1>9 DEF Migrated
  <2> QED
    BY <1>10, <2>1, <2>2, <2>3 DEF CopiesOf, RowsOf
<1> QED
  BY <1>1, <1>9, <1>11, OtherCopies DEF DatabaseInv

\* An expansion that commits adds whole cells that no other table knows of.
LEMMA FinishKeepsImages ==
    ASSUME DatabaseInv, NEW x \in Expanders, FinishPool(x),
           battery_cell' = Realigned(Merged(pool[x].cells, battery_cell),
                               Templates(pool[x].existing, pool[x].group)),
           battery_cell_image' = Merged(pool[x].images, battery_cell_image),
           Migrated, UNCHANGED seedVars
    PROVE  KeysInv' /\ ImagesInv' /\ WritesInv' /\ CopiesInv'
<1> DEFINE cells == pool[x].cells
           images == pool[x].images
<1>1. /\ pool[x].pc = "clone" /\ EndPool(x)
      /\ UNCHANGED <<backup, applied, seed>>
  BY DEF FinishPool, seedVars
<1>2. /\ KeysInv /\ ImagesInv /\ WritesInv /\ CopiesInv /\ CopiesOf(x)
      /\ DOMAIN pool = Expanders
      /\ holder[PoolLock] = x
  BY <1>1 DEF DatabaseInv, LocksInv, CopiesInv
<1>3. /\ DOMAIN cells \cap DOMAIN battery_cell = {}
      /\ RowsOf(images, DOMAIN cells)
      /\ \A c \in DOMAIN cells : Whole(ActiveImages(images, c))
  BY <1>1, <1>2 DEF CopiesOf
<1>4. DOMAIN battery_cell' = DOMAIN cells \cup DOMAIN battery_cell
  BY DEF Realigned, Merged
<1> HIDE DEF cells, images
<1>5. battery_cell_image' = Merged(images, battery_cell_image)
  BY DEF images
<1>6. KeysInv'
  BY <1>1, <1>2, <1>3, <1>4, <1>5 DEF KeysInv, RowsOf, Merged, Migrated
<1>7. \A c \in DOMAIN battery_cell :
          /\ \A r \in DOMAIN images : r[1] # c
          /\ ActiveImages(battery_cell_image', c) = ActiveImages(battery_cell_image, c)
  <2> SUFFICES ASSUME NEW c \in DOMAIN battery_cell
               PROVE  /\ \A r \in DOMAIN images : r[1] # c
                      /\ ActiveImages(battery_cell_image', c) =
                            ActiveImages(battery_cell_image, c)
    OBVIOUS
  <2>1. \A r \in DOMAIN images : r[1] # c
    BY <1>3 DEF RowsOf
  <2> QED
    BY <1>5, <2>1, MergedBelow
<1>8. \A c \in DOMAIN cells :
          /\ ActiveImages(battery_cell_image', c) = ActiveImages(images, c)
          /\ ActiveImages(backup, c) = {}
  <2> SUFFICES ASSUME NEW c \in DOMAIN cells
               PROVE  /\ ActiveImages(battery_cell_image', c) =
                            ActiveImages(images, c)
                      /\ ActiveImages(backup, c) = {}
    OBVIOUS
  <2>1. /\ \A r \in DOMAIN battery_cell_image : r[1] # c
        /\ \A r \in DOMAIN backup : r[1] # c
    BY <1>2, <1>3 DEF KeysInv, RowsOf
  <2>2. ActiveImages(battery_cell_image', c) = ActiveImages(images, c)
    BY <1>5, <2>1, MergedAbove
  <2> QED
    BY <2>1, <2>2, NoImages
<1>9. ImagesInv'
  <2>1. \A c \in Recorded :
            ActiveImages(battery_cell_image', c) = ActiveImages(battery_cell_image, c)
    BY <1>2, <1>7 DEF KeysInv
  <2>2. \A c \in DOMAIN battery_cell' \ Recorded :
            /\ Whole(ActiveImages(battery_cell_image', c))
            /\ WholeOf(backup, ActiveImages(backup, c))
    <3> SUFFICES ASSUME NEW c \in DOMAIN battery_cell' \ Recorded
                 PROVE  /\ Whole(ActiveImages(battery_cell_image', c))
                        /\ WholeOf(backup, ActiveImages(backup, c))
      OBVIOUS
    <3>1. CASE c \in DOMAIN battery_cell
      <4>1. /\ Whole(ActiveImages(battery_cell_image, c))
            /\ WholeOf(backup, ActiveImages(backup, c))
        BY <1>2, <3>1 DEF ImagesInv
      <4>2. ActiveImages(battery_cell_image', c) = ActiveImages(battery_cell_image, c)
        BY <1>7, <3>1
      <4> QED
        BY <4>1, <4>2
    <3>2. CASE c \in DOMAIN cells
      <4>1. /\ ActiveImages(battery_cell_image', c) = ActiveImages(images, c)
            /\ ActiveImages(backup, c) = {}
            /\ Whole(ActiveImages(images, c))
        BY <1>3, <1>8, <3>2
      <4> QED
        BY <4>1 DEF WholeOf
    <3> QED
      BY <1>4, <3>1, <3>2
  <2> QED
    BY <1>1, <1>2, <2>1, <2>2 DEF ImagesInv, Whole, WholeOf, Migrated
<1>10. WritesInv'
  <2> SUFFICES ASSUME NEW s \in Seeders, Written(s) PROVE WritesOf(s)'
    BY <1>1 DEF WritesInv, Written
  <2> DEFINE w == seed[s].writes
  <2>1. WritesOf(s)
    BY <1>2 DEF WritesInv
  <2>2. /\ RowsOf(w, DOMAIN battery_cell')
        /\ \A c \in DOMAIN cells : \A r \in DOMAIN w : r[1] # c
    BY <1>3, <1>4, <2>1 DEF WritesOf, RowsOf
  <2>3. \A r \in DOMAIN battery_cell_image' :
            r[1] \in DOMAIN battery_cell => r \in DOMAIN battery_cell_image
    BY <1>5, <1>7 DEF Merged
  <2>4. \A r \in DOMAIN battery_cell_image' : r[1] \in Recorded => r \in DOMAIN w
    BY <1>2, <2>1, <2>3 DEF WritesOf, KeysInv
  <2>5. \A c \in DOMAIN battery_cell' \ Recorded :
            \/ \A r \in DOMAIN battery_cell_image' : r[1] = c => r \in DOMAIN w
            \/ \A r \in DOMAIN w : r[1] # c
    BY <1>4, <2>1, <2>2, <2>3 DEF WritesOf
  <2>6. /\ seed[s].pc = "upsert" => \A r \in DOMAIN w : w[r] = "ARCHIVED"
        /\ seed[s].pc # "upsert" =>
              /\ DOMAIN ManifestRows[seed[s].manifest] \subseteq DOMAIN w
              /\ \A r \in DOMAIN w :
                    w[r] = IF r \in DOMAIN ManifestRows[seed[s].manifest]
                           THEN ManifestRows[seed[s].manifest][r] ELSE "ARCHIVED"
    BY <2>1 DEF WritesOf
  <2> QED
    BY <1>1, <2>2, <2>4, <2>5, <2>6 DEF WritesOf, RowsOf
<1>11. CopiesInv'
  <2> SUFFICES ASSUME NEW z \in Expanders PROVE CopiesOf(z)'
    BY DEF CopiesInv
  <2>1. CASE z = x
    <3>1. pool'[x] = IdlePool
      BY <1>1, <1>2 DEF EndPool
    <3>2. /\ IdlePool.pc = "idle" /\ IdlePool.target = 0
          /\ DOMAIN IdlePool.cells = {} /\ DOMAIN IdlePool.images = {}
      BY DEF IdlePool
    <3> QED
      BY <2>1, <3>1, <3>2 DEF CopiesOf, RowsOf
  <2>2. CASE z # x
    <3>1. pool'[z] = pool[z] /\ pool[z].pc # "clone" /\ CopiesOf(z)
      BY <1>1, <1>2, <2>2 DEF EndPool, DatabaseInv, LocksInv, CopiesInv
    <3>2. /\ DOMAIN pool[z].cells = {} /\ RowsOf(pool[z].images, {})
          /\ pool[z].target \in Int
      BY <3>1 DEF CopiesOf
    <3> QED
      BY <3>1, <3>2 DEF CopiesOf, RowsOf
  <2> QED
    BY <2>1, <2>2
<1> QED
  BY <1>6, <1>9, <1>10, <1>11

(***************************************************************************)
(* Every step, and what follows.                                           *)
(***************************************************************************)

\* Every statement of a seed and of the migrations keeps the images right.
LEMMA SeedStepsKeepImages ==
    ASSUME TablesAssumption, DatabaseInv, SeedNext, UNCHANGED pool
    PROVE  KeysInv' /\ ImagesInv' /\ WritesInv' /\ CopiesInv'
<1>1. ASSUME NEW s \in Seeders,
             \/ \E m \in Manifests, execute \in BOOLEAN : StartSeed(s, m, execute)
             \/ LockSeed(s) \/ ArchiveImages(s) \/ UpsertImages(s)
             \/ CountImages(s) \/ SeedDies(s)
             \/ CommitSeed(s) /\ ~ seed[s].execute
      PROVE  KeysInv' /\ ImagesInv' /\ WritesInv' /\ CopiesInv'
  <2>1. UNCHANGED <<battery_cell, battery_cell_image, backup, applied>>
    BY <1>1 DEF StartSeed, LockSeed, ArchiveImages, UpsertImages, CountImages,
                SeedDies, CommitSeed, tables
  <2>2. WritesInv'
    <3>1. SeedDies(s) \/ CommitSeed(s) => EndSeed(s)
      BY DEF SeedDies, CommitSeed
    <3> QED
      BY <1>1, <2>1, <3>1, SeedStepsKeepWrites
  <2> QED
    BY <2>1, <2>2, TablesUntouched, CopiesUntouched DEF DatabaseInv
<1>2. ASSUME \/ CheckRollback
             \/ ApplyRollback /\ ~ (captured \subseteq DOMAIN backup)
      PROVE  KeysInv' /\ ImagesInv' /\ WritesInv' /\ CopiesInv'
  <2>1. UNCHANGED <<battery_cell, battery_cell_image, backup, applied, seed>>
    BY <1>2 DEF CheckRollback, ApplyRollback, tables
  <2> QED
    BY <2>1, TablesUntouched, WritesUntouched, CopiesUntouched DEF DatabaseInv
<1>3. ASSUME NEW s \in Seeders, CommitSeed(s), seed[s].execute
      PROVE  KeysInv' /\ ImagesInv' /\ WritesInv' /\ CopiesInv'
  BY <1>3, CommitKeepsImages
<1>4. ASSUME ApplyRollback, captured \subseteq DOMAIN backup
      PROVE  KeysInv' /\ ImagesInv' /\ WritesInv' /\ CopiesInv'
  BY <1>4, RollbackKeepsImages
<1>5. ASSUME MigrateUp
      PROVE  KeysInv' /\ ImagesInv' /\ WritesInv' /\ CopiesInv'
  BY <1>5, MigrationKeepsImages
<1>6. CASE \E s \in Seeders :
             \/ \E m \in Manifests, execute \in BOOLEAN : StartSeed(s, m, execute)
             \/ LockSeed(s) \/ ArchiveImages(s) \/ UpsertImages(s)
             \/ CountImages(s) \/ CommitSeed(s) \/ SeedDies(s)
  <2> PICK s \in Seeders :
             \/ \E m \in Manifests, execute \in BOOLEAN : StartSeed(s, m, execute)
             \/ LockSeed(s) \/ ArchiveImages(s) \/ UpsertImages(s)
             \/ CountImages(s) \/ CommitSeed(s) \/ SeedDies(s)
    BY <1>6
  <2>1. CASE CommitSeed(s) /\ seed[s].execute
    BY <1>3, <2>1
  <2>2. CASE ~ (CommitSeed(s) /\ seed[s].execute)
    BY <1>1, <2>2
  <2> QED
    BY <2>1, <2>2
<1>7. CASE MigrateUp \/ CheckRollback \/ ApplyRollback
  BY <1>2, <1>4, <1>5, <1>7
<1> QED
  BY <1>6, <1>7 DEF SeedNext

\* Every statement of an expansion keeps the images right.
LEMMA PoolStepsKeepImages ==
    ASSUME DatabaseInv, PoolNext, UNCHANGED seedVars
    PROVE  KeysInv' /\ ImagesInv' /\ WritesInv' /\ CopiesInv'
<1> PICK x \in Expanders :
        \/ \E target \in 1..MaxCells, group \in Groups, execute \in BOOLEAN :
              StartPool(x, target, group, execute)
        \/ LockPool(x) \/ CloneCell(x) \/ FinishPool(x) \/ PoolDies(x)
  BY DEF PoolNext
<1>1. UNCHANGED <<backup, applied, seed>>
  BY DEF StartPool, LockPool, CloneCell, FinishPool, PoolDies, tables, seedVars
<1>2. CASE UNCHANGED <<battery_cell, battery_cell_image>>
  <2>1. CopiesInv'
    BY <1>1, <1>2, PoolStepsKeepCopies, CloneCellKeepsCopies
    DEF FinishPool, PoolDies
  <2> QED
    BY <1>1, <1>2, <2>1, TablesUntouched, WritesUntouched DEF DatabaseInv
<1>3. CASE ~ UNCHANGED <<battery_cell, battery_cell_image>>
  <2>1. FinishPool(x)
    BY <1>3 DEF StartPool, LockPool, CloneCell, PoolDies, tables
  <2>2. /\ battery_cell' = Realigned(Merged(pool[x].cells, battery_cell),
                               Templates(pool[x].existing, pool[x].group))
        /\ battery_cell_image' = Merged(pool[x].images, battery_cell_image)
        /\ Migrated
    BY <1>3, <2>1 DEF FinishPool
  <2> QED
    BY <2>1, <2>2, FinishKeepsImages
<1> QED
  BY <1>2, <1>3

\* The tools start from provisioned cells, with nothing applied and nothing
\* open.
LEMMA TablesAreProvisioned ==
    ASSUME TablesAssumption, ProvisionedAssumption, Init
    PROVE  KeysInv /\ ImagesInv /\ WritesInv /\ CopiesInv
<1>1. PICK t \in InitialTables :
          battery_cell = t.cells /\ battery_cell_image = t.images
  BY DEF Init, TablesInit
<1>2. /\ ~ Migrated /\ applied = Missing
      /\ \A s \in Seeders : ~ Written(s)
      /\ \A x \in Expanders : pool[x] = IdlePool
  BY DEF Init, TablesInit, SeedInit, PoolInit, IdleSeed, Migrated, Written
<1>3. KeysInv
  BY <1>1, <1>2 DEF ProvisionedAssumption, KeysInv, RowsOf
<1>4. ImagesInv
  BY <1>1, <1>2 DEF ProvisionedAssumption, ImagesInv, WholeOf
<1>5. WritesInv
  BY <1>2 DEF WritesInv
<1>6. CopiesInv
  BY <1>2 DEF CopiesInv, CopiesOf, RowsOf, IdlePool
<1> QED
  BY <1>3, <1>4, <1>5, <1>6

\* The invariant of the database holds in every reachable state.
LEMMA DatabaseInvHolds == Spec => []DatabaseInv
<1>1. Init => KeysInv /\ ImagesInv /\ WritesInv /\ CopiesInv
  BY TablesAssumption, ProvisionedAssumption, TablesAreProvisioned
<1>2. /\ LocksInv /\ LocksInv'
      /\ KeysInv /\ ImagesInv /\ WritesInv /\ CopiesInv
      /\ [Next]_vars
      => KeysInv' /\ ImagesInv' /\ WritesInv' /\ CopiesInv'
  <2> SUFFICES ASSUME DatabaseInv, [Next]_vars
               PROVE  KeysInv' /\ ImagesInv' /\ WritesInv' /\ CopiesInv'
    BY DEF DatabaseInv
  <2>1. CASE SeedNext /\ UNCHANGED pool
    BY <2>1, TablesAssumption, SeedStepsKeepImages
  <2>2. CASE PoolNext /\ UNCHANGED seedVars
    BY <2>2, PoolStepsKeepImages
  <2>3. CASE \/ \E c \in DOMAIN battery_cell : Capture(c)
             \/ UNCHANGED vars
    <3>1. UNCHANGED <<battery_cell, battery_cell_image, backup, applied, seed, pool>>
      BY <2>3 DEF Capture, vars, tables, seedVars
    <3> QED
      BY <3>1, TablesUntouched, WritesUntouched, CopiesUntouched DEF DatabaseInv
  <2> QED
    BY <2>1, <2>2, <2>3 DEF Next
<1>3. LocksInv /\ KeysInv /\ ImagesInv /\ WritesInv /\ CopiesInv <=> DatabaseInv
  BY DEF DatabaseInv
<1> QED
  BY <1>1, <1>2, <1>3, LocksInvHolds, PTL DEF Spec

\* After a seed each provisioned cell exists and carries exactly the rows of
\* its manifest, whatever other seeds, expansions, migrations and crashes come
\* between its statements; after a rollback, what it had before.
THEOREM WaveIsInPlace == Spec => []RecordedCarryTheManifest
<1>1. DatabaseInv => RecordedCarryTheManifest
  BY DEF DatabaseInv, KeysInv, ImagesInv, RecordedCarryTheManifest
<1> QED
  BY <1>1, DatabaseInvHolds, PTL

\* A clone never mixes the images of two cells or of two waves.
THEOREM ClonesStayWhole == Spec => []ClonesAreWholeCopies
<1>1. DatabaseInv => ClonesAreWholeCopies
  BY DEF DatabaseInv, ImagesInv, ClonesAreWholeCopies, Whole, WholeOf
<1> QED
  BY <1>1, DatabaseInvHolds, PTL

-----------------------------------------------------------------------------
(***************************************************************************)
(* Where the clones go in the list of cells, for any cells, dates, target  *)
(* and template group: a committed expansion leaves no cell outside the    *)
(* group as new as a template.  The comparison is worth something only     *)
(* when every date is a number, so every clone must have a template that   *)
(* exists: that the rank of a template counts through its group.           *)
(***************************************************************************)


(***************************************************************************)
(* Ranks and templates.                                                    *)
(***************************************************************************)

\* A smaller number has a smaller rank, and a rank is below the size.
LEMMA RankGrows ==
    ASSUME NEW S, IsFiniteSet(S), S \subseteq Int, NEW x \in S
    PROVE  /\ RankIn(S, x) \in 0..(Cardinality(S) - 1)
           /\ \A y \in S : x < y => RankIn(S, x) < RankIn(S, y)
<1>1. ASSUME NEW T, T \subseteq S, {z \in S : z < x} \subseteq T, x \in T
      PROVE  /\ IsFiniteSet(T) /\ Cardinality(T) \in Nat
             /\ RankIn(S, x) \in Nat /\ RankIn(S, x) < Cardinality(T)
  <2> DEFINE R == {z \in S : z < x}
  <2>1. /\ IsFiniteSet(T) /\ Cardinality(T) \in Nat
        /\ IsFiniteSet(R) /\ Cardinality(R) \in Nat
    BY <1>1, FS_Subset, FS_CardinalityType
  <2>2. Cardinality(R) <= Cardinality(T) /\ (Cardinality(T) = Cardinality(R) => T = R)
    BY <1>1, <2>1, FS_Subset
  <2>3. x \notin R
    OBVIOUS
  <2> QED
    BY <1>1, <2>1, <2>2, <2>3 DEF RankIn
<1>2. RankIn(S, x) \in 0..(Cardinality(S) - 1)
  BY <1>1
<1>3. ASSUME NEW y \in S, x < y
      PROVE  RankIn(S, x) < RankIn(S, y)
  <2> DEFINE T == {z \in S : z < y}
  <2>1. \A z \in S : z < x => z < y
    BY <1>3
  <2>2. T \subseteq S /\ {z \in S : z < x} \subseteq T /\ x \in T
    BY <1>3, <2>1
  <2>3. RankIn(S, x) < Cardinality(T)
    BY <1>1, <2>2
  <2> QED
    BY <2>3 DEF RankIn
<1> QED
  BY <1>2, <1>3

\* Every rank below the size is the rank of a member.
LEMMA RanksAreDense ==
    ASSUME NEW S, IsFiniteSet(S), S \subseteq Int,
           NEW k \in 0..(Cardinality(S) - 1)
    PROVE  \E x \in S : RankIn(S, x) = k
<1> DEFINE n == Cardinality(S)
           f == [x \in S |-> RankIn(S, x)]
<1>1. n \in Nat
  BY FS_CardinalityType
<1>2. \A x \in S : RankIn(S, x) \in 0..(n - 1)
  BY RankGrows
<1>3. \A x, y \in S : x < y => RankIn(S, x) < RankIn(S, y)
  BY RankGrows
<1>4. \A x, y \in S : RankIn(S, x) = RankIn(S, y) => x = y
  <2> SUFFICES ASSUME NEW x \in S, NEW y \in S, RankIn(S, x) = RankIn(S, y)
               PROVE  x = y
    OBVIOUS
  <2>1. x \in Int /\ y \in Int /\ RankIn(S, x) \in Int
    BY <1>2
  <2>2. ~ (x < y) /\ ~ (y < x)
    BY <1>3, <2>1
  <2> QED
    BY <2>1, <2>2
<1>5. f \in Injection(S, 0..(n - 1))
  <2>1. f \in [S -> 0..(n - 1)]
    BY <1>2
  <2>2. \A x, y \in S : f[x] = f[y] => x = y
    BY <1>4
  <2> HIDE DEF f
  <2> QED
    BY <2>1, <2>2 DEF Injection, IsInjective
<1>6. IsFiniteSet(0..(n - 1)) /\ Cardinality(0..(n - 1)) = n
  BY <1>1, FS_Interval
<1>7. f \in Surjection(S, 0..(n - 1))
  BY <1>5, <1>6, FS_Injection
<1> QED
  BY <1>7 DEF Surjection

\* A group has a member: at least the cell of the lowest number.
LEMMA GroupHasMembers ==
    ASSUME NEW existing, existing \subseteq Nat, existing # {}, NEW group \in Nat
    PROVE  Templates(existing, group) # {}
<1>1. PICK c \in existing : \A d \in existing : c <= d
  BY LeastExists
<1>2. {d \in existing : d < c} = {}
  <2>1. \A d \in existing : ~ (d < c)
    BY <1>1
  <2> QED
    BY <2>1
<1>3. RankIn(existing, c) = 0
  BY <1>2, FS_EmptySet DEF RankIn
<1> QED
  BY <1>3 DEF Templates, AllCells

\* Every new cell has a template.
LEMMA TemplateIsACell ==
    ASSUME NEW existing, existing \subseteq Nat, existing # {},
           IsFiniteSet(existing), NEW group \in Nat, NEW n \in Nat \ {0}
    PROVE  TemplateOf(existing, group, n) \in existing
<1> DEFINE templates == Templates(existing, group)
           k == (n - 1) % Cardinality(templates)
<1>1. templates \subseteq existing
  BY DEF Templates
<1>2. IsFiniteSet(templates) /\ templates # {}
  BY <1>1, FS_Subset, GroupHasMembers
<1>3. Cardinality(templates) \in Nat \ {0}
  BY <1>2, FS_CardinalityType, FS_EmptySet
<1>4. k \in 0..(Cardinality(templates) - 1)
  BY <1>3
<1> HIDE DEF templates, k
<1>5. \E t \in templates : RankIn(templates, t) = k
  <2>1. templates \subseteq Int
    BY <1>1
  <2> QED
    BY <1>2, <1>4, <2>1, RanksAreDense
<1> QED
  BY <1>1, <1>5 DEF TemplateOf, templates, k

\* A finite set of numbers has an earliest one.
LEMMA EarliestIsFirst ==
    ASSUME NEW S, IsFiniteSet(S), S \subseteq Int, S # {}
    PROVE  Earliest(S) \in S /\ \A e \in S : Earliest(S) <= e
<1>1. 0 \in 0..(Cardinality(S) - 1)
  BY FS_CardinalityType, FS_EmptySet
<1>2. PICK d \in S : RankIn(S, d) = 0
  BY <1>1, RanksAreDense
<1>3. \A e \in S : d <= e
  <2> SUFFICES ASSUME NEW e \in S, ~ (d <= e) PROVE FALSE
    OBVIOUS
  <2>1. e \in Int /\ d \in Int /\ e < d
    OBVIOUS
  <2>2. RankIn(S, e) < RankIn(S, d) /\ RankIn(S, e) \in 0..(Cardinality(S) - 1)
    BY <2>1, RankGrows
  <2>3. Cardinality(S) \in Nat
    BY FS_CardinalityType
  <2> QED
    BY <1>2, <2>2, <2>3
<1> QED
  BY <1>3 DEF Earliest

\* The realignment leaves the templates where they are, and nothing as new.
LEMMA RealignedIsBehind ==
    ASSUME NEW cells, NEW templates, templates \subseteq DOMAIN cells,
           templates # {}, IsFiniteSet(templates),
           \A c \in DOMAIN cells : cells[c] \in Int
    PROVE  LET now == Realigned(cells, templates)
           IN  /\ DOMAIN now = DOMAIN cells
               /\ \A c \in DOMAIN cells : now[c] \in Int
               /\ \A t \in templates, c \in DOMAIN cells \ templates :
                     now[c] < now[t]
<1> DEFINE dates == {cells[t] : t \in templates}
           baseline == Earliest(dates)
<1>1. IsFiniteSet(dates)
  <2> DEFINE f == [t \in templates |-> cells[t]]
  <2>1. f \in Surjection(templates, dates)
    BY DEF Surjection
  <2> QED
    BY <2>1, FS_Surjection
<1>2. dates \subseteq Int /\ dates # {}
  OBVIOUS
<1>3. baseline \in Int /\ \A t \in templates : baseline <= cells[t]
  <2> HIDE DEF dates
  <2>1. Earliest(dates) \in dates /\ \A e \in dates : Earliest(dates) <= e
    BY <1>1, <1>2, EarliestIsFirst
  <2> QED
    BY <1>2, <2>1 DEF dates
<1> HIDE DEF baseline
<1>4. Realigned(cells, templates) =
          [c \in DOMAIN cells |->
              IF c \notin templates /\ cells[c] >= baseline
              THEN baseline - 1 ELSE cells[c]]
  BY DEF Realigned, baseline
<1> QED
  BY <1>3, <1>4

(***************************************************************************)
(* What the open expansions know.                                          *)
(***************************************************************************)

DatesOf(x) ==
    /\ pool[x].group \in Nat /\ pool[x].target \in 0..MaxCells
    /\ \A c \in DOMAIN pool[x].cells : pool[x].cells[c] \in Int
    /\ pool[x].pc = "clone" =>
          /\ DOMAIN pool[x].plan \subseteq Cells
          /\ \A n \in DOMAIN pool[x].plan : pool[x].plan[n] \in DOMAIN battery_cell

DatesInv ==
    /\ DOMAIN battery_cell \subseteq Cells
    /\ \A c \in DOMAIN battery_cell : battery_cell[c] \in Int
    /\ \A x \in Expanders : DatesOf(x)

\* Serials are positive numbers, so that 0 can stand for no cell.
LEMMA CellsAreNumbers ==
    ASSUME TablesAssumption
    PROVE  Cells \subseteq Nat \ {0} /\ IsFiniteSet(Cells)
BY FS_Interval DEF TablesAssumption, Cells

\* An expansion that takes its lock plans new cells with existing templates.
LEMMA LockPoolKeepsDates ==
    ASSUME TablesAssumption, DatabaseInv, DatesInv, NEW x \in Expanders, LockPool(x)
    PROVE  DatesInv'
<1> DEFINE existing == DOMAIN battery_cell
           plan == build_clone_plan(existing, pool[x].target, pool[x].group)
<1>1. /\ existing # {} /\ UNCHANGED battery_cell
      /\ pool' = [pool EXCEPT ![x].pc = "clone", ![x].existing = existing,
                              ![x].plan = plan]
  BY DEF LockPool, tables
<1>2. DOMAIN pool = Expanders /\ DOMAIN pool[x] = PoolFields /\ DatesOf(x)
  BY DEF DatabaseInv, LocksInv, DatesInv
<1>3. existing \subseteq Nat /\ IsFiniteSet(existing)
  BY CellsAreNumbers, FS_Subset DEF DatesInv
<1>4. pool[x].group \in Nat /\ pool[x].target \in 0..MaxCells /\ MaxCells \in Nat
  BY <1>2 DEF DatesOf, TablesAssumption
<1>5. /\ DOMAIN plan \subseteq Cells
      /\ \A n \in DOMAIN plan : plan[n] = TemplateOf(existing, pool[x].group, n)
  BY <1>4 DEF build_clone_plan, NewSerials, Cells
<1> HIDE DEF plan
<1>6. \A n \in DOMAIN plan : plan[n] \in existing
  <2> SUFFICES ASSUME NEW n \in DOMAIN plan PROVE plan[n] \in existing
    OBVIOUS
  <2>1. n \in Nat \ {0}
    BY <1>5, CellsAreNumbers
  <2> QED
    BY <1>1, <1>3, <1>4, <1>5, <2>1, TemplateIsACell
<1>7. /\ pool'[x].plan = plan /\ pool'[x].group = pool[x].group
      /\ pool'[x].target = pool[x].target /\ pool'[x].cells = pool[x].cells
      /\ \A z \in Expanders \ {x} : pool'[z] = pool[z]
  BY <1>1, <1>2 DEF PoolFields
<1>8. DatesOf(x)'
  BY <1>1, <1>2, <1>5, <1>6, <1>7 DEF DatesOf
<1> HIDE DEF existing
<1>9. \A z \in Expanders \ {x} : DatesOf(z)'
  BY <1>1, <1>7 DEF DatesInv, DatesOf
<1> QED
  BY <1>1, <1>8, <1>9 DEF DatesInv

\* A clone is dated a day before a template that exists.
LEMMA CloneCellKeepsDates ==
    ASSUME DatabaseInv, DatesInv, NEW x \in Expanders, CloneCell(x)
    PROVE  DatesInv'
<1> DEFINE n == CHOOSE c \in ToCopy(x) : \A d \in ToCopy(x) : c <= d
           t == pool[x].plan[n]
           cells == Merged([c \in {n} |-> battery_cell[t] - 1], pool[x].cells)
           images == Merged(CopiedImages(t, n), pool[x].images)
<1>1. /\ pool[x].pc = "clone" /\ ToCopy(x) # {} /\ UNCHANGED battery_cell
      /\ pool' = [pool EXCEPT ![x].cells = cells, ![x].images = images]
  BY DEF CloneCell, tables
<1>2. /\ DOMAIN pool = Expanders /\ DOMAIN pool[x] = PoolFields
      /\ DatesOf(x) /\ CopiesOf(x)
  BY DEF DatabaseInv, LocksInv, CopiesInv, DatesInv
<1>3. ToCopy(x) \subseteq Nat
  BY <1>1, <1>2 DEF CopiesOf, ToCopy
<1>4. n \in DOMAIN pool[x].plan
  <2>1. n \in ToCopy(x)
    BY <1>1, <1>3, LeastExists
  <2> QED
    BY <2>1 DEF ToCopy
<1>5. battery_cell[t] \in Int
  BY <1>1, <1>2, <1>4 DEF DatesInv, DatesOf
<1> HIDE DEF n, t
<1>6. \A c \in DOMAIN cells : cells[c] \in Int
  BY <1>2, <1>5 DEF DatesOf, Merged
<1> HIDE DEF cells, images
<1>7. /\ pool'[x].plan = pool[x].plan /\ pool'[x].group = pool[x].group
      /\ pool'[x].target = pool[x].target /\ pool'[x].cells = cells
      /\ pool'[x].pc = "clone"
      /\ \A z \in Expanders \ {x} : pool'[z] = pool[z]
  BY <1>1, <1>2 DEF PoolFields
<1>8. DatesOf(x)'
  BY <1>1, <1>2, <1>6, <1>7 DEF DatesOf
<1> QED
  BY <1>1, <1>7, <1>8 DEF DatesInv, DatesOf

\* What is known of the cells that an open expansion would commit.
LEMMA RealignedDates ==
    ASSUME TablesAssumption, DatabaseInv, DatesInv, NEW x \in Expanders,
           pool[x].pc = "clone"
    PROVE  LET cells == Merged(pool[x].cells, battery_cell)
               templates == Templates(pool[x].existing, pool[x].group)
               now == Realigned(cells, templates)
           IN  /\ DOMAIN battery_cell \subseteq DOMAIN now
               /\ DOMAIN now \subseteq Cells
               /\ \A c \in DOMAIN now : now[c] \in Int
               /\ \A t \in templates, c \in DOMAIN now \ templates : now[c] < now[t]
<1> DEFINE cells == Merged(pool[x].cells, battery_cell)
           templates == Templates(pool[x].existing, pool[x].group)
<1>1. CopiesOf(x) /\ DatesOf(x) /\ KeysInv
  BY DEF DatabaseInv, CopiesInv, DatesInv
<1>2. /\ pool[x].existing = DOMAIN battery_cell
      /\ DOMAIN pool[x].cells \subseteq Cells
      /\ pool[x].group \in Nat
  BY <1>1 DEF CopiesOf, DatesOf
<1>3. /\ DOMAIN cells = DOMAIN pool[x].cells \cup DOMAIN battery_cell
      /\ \A c \in DOMAIN cells : cells[c] \in Int
  BY <1>1 DEF Merged, DatesOf, DatesInv
<1>4. DOMAIN cells \subseteq Cells
  BY <1>2, <1>3 DEF DatesInv
<1>5. /\ DOMAIN battery_cell \subseteq Nat /\ IsFiniteSet(DOMAIN battery_cell)
      /\ DOMAIN battery_cell # {}
  <2>1. 1 \in Recorded
    BY DEF TablesAssumption, Recorded
  <2> QED
    BY <1>1, <2>1, CellsAreNumbers, FS_Subset DEF DatesInv, KeysInv
<1>6. templates \subseteq DOMAIN battery_cell
  BY <1>2 DEF Templates
<1>7. templates # {} /\ IsFiniteSet(templates)
  BY <1>2, <1>5, <1>6, GroupHasMembers, FS_Subset
<1> HIDE DEF cells, templates
<1>8. /\ DOMAIN Realigned(cells, templates) = DOMAIN cells
      /\ \A c \in DOMAIN cells : Realigned(cells, templates)[c] \in Int
      /\ \A t \in templates, c \in DOMAIN cells \ templates :
            Realigned(cells, templates)[c] < Realigned(cells, templates)[t]
  BY <1>3, <1>6, <1>7, RealignedIsBehind
<1> QED
  BY <1>3, <1>4, <1>8 DEF cells, templates

\* Only the commit of an expansion changes a date, and only one is open.
LEMMA OnlyCommitsDate ==
    ASSUME DatabaseInv, [Next]_vars, battery_cell' # battery_cell
    PROVE  \E x \in Expanders :
              /\ pool[x].pc = "clone" /\ EndPool(x)
              /\ \A z \in Expanders : pool[z].pc = "clone" => z = x
              /\ battery_cell' = Realigned(Merged(pool[x].cells, battery_cell),
                                     Templates(pool[x].existing, pool[x].group))
<1>1. ~ SeedNext
  BY DEF SeedNext, StartSeed, LockSeed, ArchiveImages, UpsertImages, CountImages,
         CommitSeed, SeedDies, MigrateUp, CheckRollback, ApplyRollback, tables
<1>2. PICK x \in Expanders : FinishPool(x)
  BY <1>1 DEF Next, PoolNext, StartPool, LockPool, CloneCell, PoolDies, Capture,
              vars, tables
<1>3. /\ pool[x].pc = "clone" /\ EndPool(x)
      /\ battery_cell' = Realigned(Merged(pool[x].cells, battery_cell),
                             Templates(pool[x].existing, pool[x].group))
  BY <1>2 DEF FinishPool
<1>4. \A z \in Expanders : pool[z].pc = "clone" => z = x
  BY <1>3 DEF DatabaseInv, LocksInv
<1> QED
  BY <1>3, <1>4

\* The dates and the plan of an open expansion stay consistent in every step.
LEMMA DatesStep ==
    ASSUME TablesAssumption, DatabaseInv, DatesInv, [Next]_vars
    PROVE  DatesInv'
<1>0. DOMAIN pool = Expanders
  BY DEF DatabaseInv, LocksInv
<1>1. CASE battery_cell' # battery_cell
  <2> PICK x \in Expanders :
        /\ pool[x].pc = "clone" /\ EndPool(x)
        /\ \A z \in Expanders : pool[z].pc = "clone" => z = x
        /\ battery_cell' = Realigned(Merged(pool[x].cells, battery_cell),
                               Templates(pool[x].existing, pool[x].group))
    BY <1>1, OnlyCommitsDate
  <2>1. /\ DOMAIN battery_cell' \subseteq Cells
        /\ \A c \in DOMAIN battery_cell' : battery_cell'[c] \in Int
    BY RealignedDates
  <2>2. /\ pool'[x] = IdlePool
        /\ \A z \in Expanders \ {x} : pool'[z] = pool[z] /\ pool[z].pc # "clone"
    BY <1>0 DEF EndPool
  <2>3. DatesOf(x)'
    BY <2>2 DEF DatesOf, IdlePool, AllCells, TablesAssumption
  <2>4. \A z \in Expanders \ {x} : DatesOf(z)'
    BY <2>2 DEF DatesInv, DatesOf
  <2> QED
    BY <2>1, <2>3, <2>4 DEF DatesInv
<1>2. ASSUME battery_cell' = battery_cell, NEW x \in Expanders,
             \A z \in Expanders \ {x} : pool'[z] = pool[z], DatesOf(x)'
      PROVE  DatesInv'
  BY <1>2 DEF DatesInv, DatesOf
<1>3. ASSUME battery_cell' = battery_cell, NEW x \in Expanders, EndPool(x)
      PROVE  DatesInv'
  <2>1. pool'[x] = IdlePool /\ \A z \in Expanders \ {x} : pool'[z] = pool[z]
    BY <1>0, <1>3 DEF EndPool
  <2>2. DatesOf(x)'
    BY <2>1 DEF DatesOf, IdlePool, AllCells, TablesAssumption
  <2> QED
    BY <1>2, <1>3, <2>1, <2>2
<1>4. ASSUME battery_cell' = battery_cell, NEW x \in Expanders,
             NEW target \in 1..MaxCells, NEW group \in Groups,
             NEW execute \in BOOLEAN, StartPool(x, target, group, execute)
      PROVE  DatesInv'
  <2> DEFINE new == [IdlePool EXCEPT !.pc = "lock", !.target = target,
                                     !.group = group, !.execute = execute]
  <2>1. pool' = [pool EXCEPT ![x] = new]
    BY <1>4 DEF StartPool
  <2>2. /\ new.pc = "lock" /\ new.target \in 0..MaxCells /\ new.group \in Nat
        /\ DOMAIN new.cells = {}
    BY TransactionsAssumption, TablesAssumption DEF IdlePool, TablesAssumption
  <2> HIDE DEF new
  <2>3. pool'[x] = new /\ \A z \in Expanders \ {x} : pool'[z] = pool[z]
    BY <1>0, <2>1
  <2>4. DatesOf(x)'
    BY <2>2, <2>3 DEF DatesOf
  <2> QED
    BY <1>2, <1>4, <2>3, <2>4
<1>5. ASSUME battery_cell' = battery_cell, PoolNext
      PROVE  DatesInv'
  <2> PICK x \in Expanders :
        \/ \E target \in 1..MaxCells, group \in Groups, execute \in BOOLEAN :
              StartPool(x, target, group, execute)
        \/ LockPool(x) \/ CloneCell(x) \/ FinishPool(x) \/ PoolDies(x)
    BY <1>5 DEF PoolNext
  <2>1. FinishPool(x) \/ PoolDies(x) => EndPool(x)
    BY DEF FinishPool, PoolDies
  <2> QED
    BY <1>3, <1>4, <1>5, <2>1, LockPoolKeepsDates, CloneCellKeepsDates
<1>6. CASE UNCHANGED <<battery_cell, pool>>
  BY <1>6 DEF DatesInv, DatesOf
<1> QED
  BY <1>1, <1>5, <1>6 DEF Next, Capture, vars, tables

\* The invariant of the dates holds in every reachable state.
LEMMA DatesInvHolds == Spec => []DatesInv
<1>1. Init => DatesInv
  BY TablesAssumption, ProvisionedAssumption
  DEF Init, TablesInit, PoolInit, IdlePool, AllCells, DatesInv, DatesOf, Cells,
      TablesAssumption, ProvisionedAssumption
<1>2. DatabaseInv /\ DatesInv /\ [Next]_vars => DatesInv'
  BY TablesAssumption, DatesStep
<1> QED
  BY <1>1, <1>2, DatabaseInvHolds, PTL DEF Spec

\* "Clones must sort behind the cells they were copied from"
\* (expand-simulation-cell-pool.py:238-261): whatever an earlier run stamped,
\* and whichever transactions run beside it, a committed expansion leaves no
\* cell outside its template group as new as a template.
THEOREM ClonesAlwaysSortBehind == Spec => ClonesSortBehind
<1>1. DatabaseInv /\ DatesInv /\ [Next]_vars =>
          [\A x \in Expanders :
             pool[x].pc = "clone" /\ battery_cell' # battery_cell =>
                 LET templates == Templates(pool[x].existing, pool[x].group)
                 IN  \A t \in templates, c \in DOMAIN battery_cell' \ templates :
                         battery_cell'[c] < battery_cell'[t]]_vars
  <2> SUFFICES ASSUME DatabaseInv, DatesInv, [Next]_vars, NEW x \in Expanders,
                      pool[x].pc = "clone", battery_cell' # battery_cell
               PROVE  LET templates == Templates(pool[x].existing, pool[x].group)
                      IN  \A t \in templates, c \in DOMAIN battery_cell' \ templates :
                              battery_cell'[c] < battery_cell'[t]
    OBVIOUS
  <2>1. battery_cell' = Realigned(Merged(pool[x].cells, battery_cell),
                            Templates(pool[x].existing, pool[x].group))
    BY OnlyCommitsDate
  <2> QED
    BY <2>1, TablesAssumption, RealignedDates
<1> QED
  BY <1>1, DatabaseInvHolds, DatesInvHolds, PTL DEF Spec, ClonesSortBehind

\* A group as large as the seed holds every recorded cell: the cells below
\* number c are at most c - 1.
LEMMA RecordedAreTemplates ==
    ASSUME TablesAssumption, NEW existing, existing \subseteq Cells,
           Recorded \subseteq existing,
           NEW group \in Nat, group = AllCells \/ group >= GroupSize
    PROVE  Recorded \subseteq Templates(existing, group)
<1> SUFFICES ASSUME NEW c \in Recorded, group >= GroupSize
             PROVE  RankIn(existing, c) < group
  BY DEF Templates
<1> DEFINE below == {x \in existing : x < c}
<1>1. c \in Nat \ {0} /\ c <= GroupSize /\ GroupSize \in Nat
  BY DEF TablesAssumption, Recorded
<1>2. below \subseteq 1..(c - 1)
  <2> SUFFICES ASSUME NEW x \in existing, x < c PROVE x \in 1..(c - 1)
    OBVIOUS
  <2>1. x \in Nat \ {0}
    BY CellsAreNumbers
  <2> QED
    BY <1>1, <2>1
<1>3. IsFiniteSet(1..(c - 1)) /\ Cardinality(1..(c - 1)) = c - 1
  BY <1>1, FS_Interval
<1>4. Cardinality(below) \in Nat /\ Cardinality(below) <= c - 1
  BY <1>2, <1>3, FS_Subset, FS_CardinalityType
<1> QED
  BY <1>1, <1>4 DEF RankIn

\* "The recorded cells themselves are never modified"
\* (expand-simulation-cell-pool.py:9) as long as nobody passes a --group-size
\* that is smaller than the group of the seed, which is the one way in which
\* MCExpansionSmallGroup breaks it.
THEOREM LargeGroupsKeepRecorded ==
    ASSUME \A g \in Groups : g = AllCells \/ g >= GroupSize
    PROVE  Spec => RecordedKeepTheirDate
<1> DEFINE GroupsInv == \A x \in Expanders :
               pool[x].group = AllCells \/ pool[x].group >= GroupSize
<1>1. Init => GroupsInv
  BY DEF Init, PoolInit, IdlePool
<1>2. LocksInv /\ GroupsInv /\ [Next]_vars => GroupsInv'
  <2> SUFFICES ASSUME LocksInv, GroupsInv, [Next]_vars, NEW z \in Expanders,
                      pool'[z] # pool[z]
               PROVE  pool'[z].group = AllCells \/ pool'[z].group >= GroupSize
    OBVIOUS
  <2>1. PICK x \in Expanders :
           \/ \E target \in 1..MaxCells, group \in Groups, execute \in BOOLEAN :
                 StartPool(x, target, group, execute)
           \/ LockPool(x) \/ CloneCell(x) \/ EndPool(x)
    BY DEF Next, SeedNext, PoolNext, Capture, FinishPool, PoolDies, vars
  <2>2. DOMAIN pool = Expanders /\ DOMAIN pool[x] = PoolFields
    BY DEF LocksInv
  <2>3. CASE EndPool(x)
    BY <2>2, <2>3 DEF EndPool, IdlePool
  <2>4. CASE LockPool(x) \/ CloneCell(x)
    <3>1. pool'[z].group = pool[z].group
      BY <2>2, <2>4 DEF LockPool, CloneCell, PoolFields
    <3> QED
      BY <3>1
  <2>5. CASE \E target \in 1..MaxCells, group \in Groups, execute \in BOOLEAN :
                 StartPool(x, target, group, execute)
    <3> PICK target \in 1..MaxCells, group \in Groups, execute \in BOOLEAN :
            StartPool(x, target, group, execute)
      BY <2>5
    <3> DEFINE new == [IdlePool EXCEPT !.pc = "lock", !.target = target,
                                       !.group = group, !.execute = execute]
    <3>1. new.group = group /\ pool' = [pool EXCEPT ![x] = new]
      BY DEF StartPool, IdlePool
    <3> HIDE DEF new
    <3> QED
      BY <2>2, <3>1
  <2> QED
    BY <2>1, <2>3, <2>4, <2>5
<1>3. DatabaseInv /\ DatesInv /\ GroupsInv /\ [Next]_vars =>
          [\A c \in Recorded \cap DOMAIN battery_cell :
               battery_cell'[c] = battery_cell[c]]_vars
  <2> SUFFICES ASSUME DatabaseInv, DatesInv, GroupsInv, [Next]_vars,
                      battery_cell' # battery_cell, NEW c \in Recorded
               PROVE  battery_cell'[c] = battery_cell[c]
    OBVIOUS
  <2> PICK x \in Expanders :
        /\ pool[x].pc = "clone" /\ EndPool(x)
        /\ battery_cell' = Realigned(Merged(pool[x].cells, battery_cell),
                               Templates(pool[x].existing, pool[x].group))
    BY OnlyCommitsDate
  <2>1. KeysInv /\ CopiesOf(x) /\ DatesOf(x)
    BY DEF DatabaseInv, CopiesInv, DatesInv
  <2>2. /\ pool[x].existing = DOMAIN battery_cell
        /\ c \in DOMAIN battery_cell /\ c \notin DOMAIN pool[x].cells
    BY <2>1 DEF CopiesOf, KeysInv
  <2>3. c \in Templates(pool[x].existing, pool[x].group)
    BY <2>1, <2>2, RecordedAreTemplates, TablesAssumption
    DEF DatesInv, DatesOf, KeysInv
  <2>4. /\ c \in DOMAIN Merged(pool[x].cells, battery_cell)
        /\ Merged(pool[x].cells, battery_cell)[c] = battery_cell[c]
    BY <2>2 DEF Merged
  <2> QED
    BY <2>3, <2>4 DEF Realigned
<1>4. DatabaseInv => LocksInv
  BY DEF DatabaseInv
<1> QED
  BY <1>1, <1>2, <1>3, <1>4, DatabaseInvHolds, DatesInvHolds, PTL
  DEF Spec, RecordedKeepTheirDate
=============================================================================
