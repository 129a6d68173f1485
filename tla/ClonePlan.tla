----------------------------- MODULE ClonePlan ------------------------------
(***************************************************************************)
(* Which cells an expansion of the cell pool creates, and from which       *)
(* templates: template_serials and build_clone_plan of                     *)
(* scripts/expand-simulation-cell-pool.py.  A serial is its number.        *)
(***************************************************************************)
EXTENDS Naturals, FiniteSets

AllCells == 0     \* --group-size left out: every existing cell is a template

\* The place of n in the ascending order of S, counted from 0.
RankIn(S, n) == Cardinality({x \in S : x < n})

\* The lowest serials, as many as the group holds.
Templates(existing, group) ==
    {t \in existing : group = AllCells \/ RankIn(existing, t) < group}

\* The lowest free numbers, as many as are missing up to the target.
NewSerials(existing, target) ==
    LET free == (1..target) \ existing
    IN  {n \in free : RankIn(free, n) + Cardinality(existing) < target}

\* templates[(number - 1) % len(templates)]
TemplateOf(existing, group, n) ==
    LET templates == Templates(existing, group)
    IN  CHOOSE t \in templates :
            RankIn(templates, t) = (n - 1) % Cardinality(templates)

\* [(new_serial, template_serial)], as a function of the new serial.
build_clone_plan(existing, target, group) ==
    [n \in NewSerials(existing, target) |-> TemplateOf(existing, group, n)]
=============================================================================
