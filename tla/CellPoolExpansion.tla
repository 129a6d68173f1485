------------------------- MODULE CellPoolExpansion --------------------------
(***************************************************************************)
(* Cloning cells for runs of more than twenty: apply() of                  *)
(* scripts/expand-simulation-cell-pool.py.  It takes another lock than the *)
(* seed, so a seed may commit between any two of its statements.           *)
(***************************************************************************)
EXTENDS SimulationTables, ClonePlan

CONSTANTS Expanders,    \* transactions of expand-simulation-cell-pool.py
          Groups        \* values of --group-size; AllCells when left out

VARIABLE pool           \* expander -> where its transaction stands

IdlePool == [pc |-> "idle", target |-> 0, group |-> AllCells, execute |-> FALSE,
             existing |-> {}, plan |-> << >>, cells |-> << >>, images |-> << >>]

PoolInit == pool = [x \in Expanders |-> IdlePool]

EndPool(x) == pool' = [pool EXCEPT ![x] = IdlePool] /\ ReleaseAll(x)

StartPool(x, target, group, execute) ==
    /\ pool[x].pc = "idle"
    /\ pool' = [pool EXCEPT ![x] =
                   [IdlePool EXCEPT !.pc = "lock", !.target = target,
                                    !.group = group, !.execute = execute]]
    /\ UNCHANGED <<tables, holder>>

\* The plan is made once, from the cells that exist when the lock is taken.
LockPool(x) ==
    LET existing == DOMAIN battery_cell
    IN  /\ pool[x].pc = "lock"
        /\ existing # {}
        /\ Acquire(PoolLock, x)
        /\ pool' = [pool EXCEPT
                ![x].pc = "clone",
                ![x].existing = existing,
                ![x].plan = build_clone_plan(existing, pool[x].target, pool[x].group)]
        /\ UNCHANGED tables

ToCopy(x) == DOMAIN pool[x].plan \ DOMAIN pool[x].cells

\* Mutant: every copied row is stored as INITIAL, the default of the column.
CopiedImages_Default(template, clone) ==
    [r \in {<<clone, i[1]>> : i \in ActiveImages(battery_cell_image, template)}
        |-> "INITIAL"]

\* The active images of the template as they are committed now.
CopiedImages(template, clone) ==
    [r \in {<<clone, i[1]>> : i \in ActiveImages(battery_cell_image, template)}
        |-> battery_cell_image[<<template, r[2]>>]]

\* The next cell of the plan: the row of the cell, a day behind its template,
\* and one statement that copies the images.  Without the column it fails.
CloneCell(x) ==
    /\ pool[x].pc = "clone" /\ ToCopy(x) # {} /\ Migrated
    /\ LET n == CHOOSE c \in ToCopy(x) : \A d \in ToCopy(x) : c <= d
           t == pool[x].plan[n]
       IN  pool' = [pool EXCEPT
               ![x].cells = Merged([c \in {n} |-> battery_cell[t] - 1], @),
               ![x].images = Merged(CopiedImages(t, n), @)]
    /\ UNCHANGED <<tables, holder>>

Earliest(S) == CHOOSE d \in S : \A e \in S : d <= e

\* Mutant: a clone exactly as new as the oldest template stays.
Realigned_Strict(cells, templates) ==
    LET baseline == Earliest({cells[t] : t \in templates})
    IN  [c \in DOMAIN cells |->
            IF c \notin templates /\ cells[c] > baseline
            THEN baseline - 1 ELSE cells[c]]

\* Clones at least as new as the oldest template go a day behind it.
Realigned(cells, templates) ==
    LET baseline == Earliest({cells[t] : t \in templates})
    IN  [c \in DOMAIN cells |->
            IF c \notin templates /\ cells[c] >= baseline
            THEN baseline - 1 ELSE cells[c]]

\* Realign, count the cells, and commit unless this is a dry run, the column
\* is missing or the target was not reached.
FinishPool(x) ==
    LET cells == Realigned(Merged(pool[x].cells, battery_cell),
                           Templates(pool[x].existing, pool[x].group))
        commits == /\ Migrated /\ pool[x].execute
                   /\ Cardinality(DOMAIN cells) >= pool[x].target
    IN  /\ pool[x].pc = "clone"
        /\ ~ Migrated \/ ToCopy(x) = {}
        /\ \/ /\ commits
              /\ battery_cell' = cells
              /\ battery_cell_image' = Merged(pool[x].images, battery_cell_image)
           \/ /\ ~ commits
              /\ UNCHANGED <<battery_cell, battery_cell_image>>
        /\ EndPool(x)
        /\ UNCHANGED <<backup, ledger, captured, applied>>

PoolDies(x) ==
    /\ pool[x].pc # "idle"
    /\ EndPool(x)
    /\ UNCHANGED tables

PoolNext ==
    \E x \in Expanders :
        \/ \E target \in 1..MaxCells, group \in Groups, execute \in BOOLEAN :
              StartPool(x, target, group, execute)
        \/ LockPool(x) \/ CloneCell(x) \/ FinishPool(x) \/ PoolDies(x)
=============================================================================
