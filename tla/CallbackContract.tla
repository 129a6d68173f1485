--------------------------- MODULE CallbackContract ---------------------------
(***************************************************************************)
(* What the backend may rely on when it posts an analysis request to       *)
(* /ai/cells/analyze, whoever answers it.  Until the service loses its     *)
(* memory: a request id is accepted once; at most MaxPending accepted      *)
(* requests are unsettled; a callback is tried at most MaxAttempts times   *)
(* and not given up earlier unless it cannot be built at all; what counts  *)
(* as delivered was received; and nothing is received of a settled one.    *)
(***************************************************************************)
EXTENDS Naturals, FiniteSets

CONSTANTS RequestIds, MaxPending, MaxAttempts

VARIABLES job,       \* job[id]: "new", "pending", "delivered" or "failed"
          tries,     \* callbacks tried for the id
          receipts   \* callbacks the backend received, never forgotten

vars == <<job, tries, receipts>>

Init == /\ job = [id \in RequestIds |-> "new"]
        /\ tries = [id \in RequestIds |-> 0]
        /\ receipts = [id \in RequestIds |-> 0]

Pending == {id \in RequestIds : job[id] = "pending"}

Accept(id) == /\ job[id] = "new"
              /\ Cardinality(Pending) < MaxPending
              /\ job' = [job EXCEPT ![id] = "pending"]
              /\ UNCHANGED <<tries, receipts>>

Received(id) == receipts' = [receipts EXCEPT ![id] = @ + 1]

\* One try: received and known to be; or its fate is unknown to the sender,
\* who tries again unless this was the last try.
Try(id) == /\ job[id] = "pending"
           /\ tries[id] < MaxAttempts
           /\ tries' = [tries EXCEPT ![id] = @ + 1]
           /\ \/ /\ Received(id)
                 /\ job' = [job EXCEPT ![id] = "delivered"]
              \/ /\ Received(id) \/ UNCHANGED receipts
                 /\ job' = [job EXCEPT ![id] =
                        IF tries'[id] = MaxAttempts THEN "failed" ELSE @]

\* There is nothing to send.
GiveUp(id) == /\ job[id] = "pending" /\ tries[id] = 0
              /\ job' = [job EXCEPT ![id] = "failed"]
              /\ UNCHANGED <<tries, receipts>>

Forget == /\ job' = [id \in RequestIds |-> "new"]
          /\ tries' = [id \in RequestIds |-> 0]
          /\ UNCHANGED receipts

Next == Forget \/ \E id \in RequestIds : Accept(id) \/ Try(id) \/ GiveUp(id)

Spec == Init /\ [][Next]_vars
=============================================================================
