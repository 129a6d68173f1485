--------------------------- MODULE MCReplayService ---------------------------
(* Small instances of ReplayService for TLC.                               *)
EXTENDS ReplayService

CONSTANTS c1, c2, s1, s2, r1, r2, r3

CT   == {"CT"}
RGB  == {"RGB"}
Both == {"CT", "RGB"}

MCTypes == {"CT", "RGB"}
MCCells == {c1, c2, s1}
MCSlots == <<s1, s2>>

\* "CT" < "CT+RGB" < "RGB"
MCNameOrder == [m \in SUBSET MCTypes \ {{}} |->
                   CASE m = CT -> 1 [] m = Both -> 2 [] m = RGB -> 3]

\* s1 was recorded in both modalities, CT twice; s2 in CT only.
MCTakes == [s \in {s1, s2} |->
               IF s = s1 THEN [m \in {CT, RGB} |-> IF m = CT THEN 2 ELSE 1]
               ELSE [m \in {CT} |-> 1]]

Recorded(s, m, t) == [slot |-> s, modality |-> m, take |-> t]
Ask(c, m, e)      == [cell |-> c, types |-> m, recorded |-> e]

\* Two modalities of one unrecorded cell and one of another; the recorded
\* cell s1 by its own images.
MCPayloads == {Ask(c1, CT, NoEntry), Ask(c1, RGB, NoEntry),
               Ask(c2, RGB, NoEntry), Ask(s1, CT, Recorded(s1, CT, 1))}

\* The RGB recording of s1 cannot be turned into a callback.
MCUnbuildable == {Recorded(s1, RGB, 1)}

\* A smaller input for the runs about time and restarts.
MCFewPayloads == {Ask(c1, CT, NoEntry), Ask(c2, CT, NoEntry)}
MCFewUnbuildable == {Recorded(s1, CT, 2)}
MCReports == <<s2, s1>>
=============================================================================
