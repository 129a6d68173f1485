----------------------------- MODULE SourcePools -----------------------------
(***************************************************************************)
(* Taking source images from shuffled pools, in a round: Selector of       *)
(* scripts/build-v17-runtime-manifests.py, Pool and AxisPool of the two    *)
(* build-v18 scripts.  A state of the pools is a record of                 *)
(*   cursor      pool -> how many rows were visited so far                 *)
(*   used        image -> how often it was taken                           *)
(*   forbidden   images of the case at hand                                *)
(*   chosen      what was taken for it, in order                           *)
(*   failed      an exception was raised                                   *)
(***************************************************************************)
EXTENDS Naturals, FiniteSets, SequencesExt

FreshPools(pools, images) ==
    [cursor |-> [p \in pools |-> 0], used |-> [i \in images |-> 0],
     forbidden |-> {}, chosen |-> << >>, failed |-> FALSE]

NextCase(s) == [s EXCEPT !.forbidden = {}, !.chosen = << >>]

\* Mutant: a row that was used before is taken in the first round, too.
Usable_Any(s, image, reuse) == image \notin s.forbidden

\* One case never takes an image twice; the first round takes fresh ones.
Usable(s, image, reuse) ==
    image \notin s.forbidden /\ (reuse \/ s.used[image] = 0)

\* The row under the cursor is visited.
Visit(s, pool, rows, reuse) ==
    LET image == rows[1 + (s.cursor[pool] % Len(rows))]
        moved == [s EXCEPT !.cursor[pool] = @ + 1]
    IN  IF Usable(s, image, reuse)
        THEN [moved EXCEPT !.chosen = Append(@, image), !.used[image] = @ + 1,
                           !.forbidden = @ \cup {image}]
        ELSE moved

\* count more images of a pool: at most round visits for fresh ones, then as
\* many for used ones.
Selector_take(s, pool, rows, count, round) ==
    LET wanted == Len(s.chosen) + count
        after == FoldLeft(LAMBDA r, reuse : IF Len(r.chosen) = wanted THEN r
                                            ELSE Visit(r, pool, rows, reuse),
                          s, [visit \in 1..2 * round |-> visit > round])
    IN  [after EXCEPT !.failed = @ \/ Len(after.chosen) # wanted]
=============================================================================
