------------------------ MODULE MCSimulationDatabase ------------------------
(* Two provisioned cells and up to two clones of them.                     *)
EXTENDS SimulationDatabase, TLC

CONSTANTS s1, x1, m1, m2, a, b, o, none

MCManifestRows ==
    (m1 :> ((<<1, a>> :> "INITIAL") @@ (<<2, b>> :> "INITIAL")
                                    @@ (<<2, a>> :> "RECAPTURE")))
 @@ (m2 :> ((<<1, b>> :> "INITIAL") @@ (<<2, a>> :> "INITIAL")))

\* m1 and m2 are two editions of one wave.
MCVersion == (m1 :> 1) @@ (m2 :> 1)

\* The cells as they were: alone, and beside a clone that an earlier expansion
\* stamped with the current time.
Before(cells) ==
    [cells  |-> cells,
     images |-> [r \in (DOMAIN cells) \X {o} |-> "INITIAL"]]
MCInitialTables ==
    {Before((1 :> 5) @@ (2 :> 6)),  Before((1 :> 5) @@ (2 :> 7) @@ (4 :> 9))}
=============================================================================
