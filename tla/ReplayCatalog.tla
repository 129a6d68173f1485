---------------------------- MODULE ReplayCatalog ----------------------------
(***************************************************************************)
(* The recorded fixture as the replay service looks it up                  *)
(* (replay/app/fixture.py, ReplayCatalog.entry_for).  A modality is the    *)
(* set of image types of a request or a recording; the code joins the      *)
(* sorted types with "+", and compares modalities as such strings where    *)
(* their order matters, which NameOrder stands for.                        *)
(***************************************************************************)
EXTENDS Naturals

CONSTANTS ImageTypes,   \* {"CT", "RGB"}
          Takes,        \* Takes[s][m]: recorded attempts of slot s in modality m
          NameOrder     \* the modalities' names in string order: m -> rank

Modalities == SUBSET ImageTypes \ {{}}

\* Every slot of the pool was recorded, in one modality at least, and an
\* index entry holds one attempt at least.
ASSUME CatalogAssumption ==
    /\ \A s \in DOMAIN Takes :
          /\ DOMAIN Takes[s] \in SUBSET Modalities \ {{}}
          /\ \A m \in DOMAIN Takes[s] : Takes[s][m] \in Nat \ {0}
    /\ NameOrder \in [Modalities -> Nat]
    /\ \A m, n \in Modalities : NameOrder[m] = NameOrder[n] => m = n

\* One recorded analysis: the take-th recorded attempt (from 1).
Entries == UNION {UNION {{[slot |-> s, modality |-> m, take |-> t] :
                             t \in 1..Takes[s][m]} :
                            m \in DOMAIN Takes[s]} :
                     s \in DOMAIN Takes}

Overlapping(s, m) == {k \in DOMAIN Takes[s] : k \cap m # {}}

\* entry_for raises FixtureMiss exactly when this is false.
HasRecording(s, m) == Overlapping(s, m) # {}

\* The recorded modality a request is served from: its own, or else the
\* first by name that shares an image type.
SourceModality(s, m) ==
    IF m \in DOMAIN Takes[s] THEN m
    ELSE CHOOSE k \in Overlapping(s, m) :
             \A l \in Overlapping(s, m) : NameOrder[k] <= NameOrder[l]

\* The recorded analysis of slot s for the index-th request (from 0): each
\* recorded attempt in turn, then the last one again and again.
entry_for(s, m, index) ==
    LET source == SourceModality(s, m)
        recorded == Takes[s][source]
    IN  [slot |-> s, modality |-> source,
         take |-> IF index < recorded THEN index + 1 ELSE recorded]
=============================================================================
