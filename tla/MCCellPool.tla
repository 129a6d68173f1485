----------------------------- MODULE MCCellPool -----------------------------
(* Small instances of CellPool for TLC.                                    *)
EXTENDS CellPool

CONSTANTS c1, c2, c3, c4, c5, s1, s2, s3

\* One of the requested serials, s2, is itself a recorded cell.
MCCells == {c1, c2, c3, c4, s2}
MCUnrecordedCells == {c1, c2, c3, c4, c5}
MCSlots == <<s1, s2, s3>>
\* The report fixture is recorded in another order and lacks nobody.
MCReportSlots == <<s3, s1, s2>>
\* Two recorded cells, both with a report, in the same order.
MCTwoSlots == <<s1, s2>>

\* The backend asks for a report only after the cell was analysed.
AnalysedFirstNext ==
    \/ \E c \in Cells : assign_pool_slot(c)
    \/ \E c \in Cells : cell_slots[c] # NoSlot /\ individual_report(c)
    \/ ForgetPool

AnalysedFirstSpec == PoolInit /\ [][AnalysedFirstNext]_poolVars
=============================================================================
