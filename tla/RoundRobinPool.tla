--------------------------- MODULE RoundRobinPool ---------------------------
(***************************************************************************)
(* What the cell pool of the replay service promises, without saying how:  *)
(* the recorded cells are dealt to the unrecorded ones in fixture order,   *)
(* one after the other, starting over after the last one, and a cell keeps *)
(* what it was dealt until the process loses its memory.  replay/README.md *)
(* states it as "the judgement mix repeats with the period of the group".  *)
(***************************************************************************)
EXTENDS Naturals, Sequences

CONSTANTS Cells,    \* serials that requests may carry
          Slots,    \* recorded cell serials, in fixture order
          NoSlot    \* not a recorded serial: the cell has been dealt nothing

VARIABLES dealt,    \* what each cell has been dealt
          position  \* where in the fixture the last dealt slot stands, 0: none

vars == <<dealt, position>>

Init == /\ dealt = [c \in Cells |-> NoSlot]
        /\ position = 0

After(p) == IF p = Len(Slots) THEN 1 ELSE p + 1

Deal(c) == /\ dealt[c] = NoSlot
           /\ position' = After(position)
           /\ dealt' = [dealt EXCEPT ![c] = Slots[After(position)]]

\* A restart of the process forgets the table and the position together.
Forget == /\ dealt' = [c \in Cells |-> NoSlot]
          /\ position' = 0

Next == Forget \/ \E c \in Cells : Deal(c)

Spec == Init /\ [][Next]_vars
=============================================================================
