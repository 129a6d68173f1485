-------------------------- MODULE MCHostDeployments --------------------------
(* Small instances of HostDeployments for TLC.                             *)
EXTENDS HostDeployments

CONSTANTS t1, t2, r1, r2, o1

MCServices == {"backend", "backend-ai"}
MCStack == <<"backend", "backend-ai">>
\* One service alone, and the backend stack.
MCOrders == {<<"backend-ai">>, MCStack}

\* Tags, and releases, are interchangeable: the host starts with the first.
MCInit == Init /\ disk["compose"] = r1 /\ \A s \in Services : env[s] = t1

MCSpec == MCInit /\ [][Next]_vars /\ Fairness

\* Bound: deployments of either kind.
ThreeRuns == launched + installed <= 3
=============================================================================
