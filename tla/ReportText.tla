------------------------------ MODULE ReportText ------------------------------
(***************************************************************************)
(* How a recorded individual report becomes the report of another cell:    *)
(* ReportCatalog.individual_response (replay/app/fixture.py).  A text is a *)
(* sequence of tokens [kind, value]: a "serial" of a cell, a "label" that  *)
(* announces the representative inspection and is "bold" or "plain", a     *)
(* "number", or "words".  No letter follows a number at once.  A cell is   *)
(* [name, run]: the digits of its serial are a run too.  A run that begins *)
(* with a zero is no number, and is written here as a negative one:        *)
(* SIM-0100 has the run -100, SIM-1234 has 1234.                           *)
(* An entry is [cell, inspectionId, sources, content]; the daily report,   *)
(* which prints the figures of its request, is left out.                   *)
(***************************************************************************)
EXTENDS Integers, SequencesExt

Number(n) == [kind |-> "number", value |-> n]
Serial(cell) == [kind |-> "serial", value |-> cell]

\* _replace: every mention of the recorded cell names the current one.
replace_serial(text, old, new) ==
    [n \in DOMAIN text |-> IF text[n] = Serial(old) THEN Serial(new) ELSE text[n]]

\* What the pattern finds of an id: a whole run of digits, be it a number or
\* that of a serial.
HasRun(token, id) ==
    \/ token.kind = "number" /\ token.value = id
    \/ token.kind = "serial" /\ token.value.run = id

WithRun(token, id) ==
    IF token.kind = "serial" THEN Serial([token.value EXCEPT !.run = id]) ELSE Number(id)

\* Mutant: one id after the other.
replace_inspection_id_list_Chained(text, recorded, current) ==
    IF Len(recorded) # Len(current) THEN text
    ELSE FoldLeft(LAMBDA t, k : [n \in DOMAIN t |-> IF HasRun(t[n], recorded[k])
                                                    THEN WithRun(t[n], current[k]) ELSE t[n]],
                  text, [k \in DOMAIN recorded |-> k])

\* All recorded ids at once, and whole runs only; nothing when the request
\* has not as many as were recorded.
replace_inspection_id_list(text, recorded, current) ==
    IF Len(recorded) # Len(current) THEN text
    ELSE [n \in DOMAIN text |->
             IF \E k \in DOMAIN recorded : HasRun(text[n], recorded[k])
             THEN WithRun(text[n], current[CHOOSE k \in DOMAIN recorded :
                                               HasRun(text[n], recorded[k])])
             ELSE text[n]]

IsLabelled(text, n) ==
    n > 1 /\ text[n - 1].kind = "label" /\ text[n].kind = "number"

\* The recorded id right behind a label, in whatever case it is written and
\* bold or not.
replace_representative_inspection_id(text, recorded, current) ==
    [n \in DOMAIN text |->
        IF IsLabelled(text, n) /\ text[n] = Number(recorded)
        THEN Number(current) ELSE text[n]]

\* An entry that does not say which is the representative inspection is
\* asked for the number behind the first bold label; NoId when there is none.
NoId == 0

BoldLabelled(text) ==
    {n \in DOMAIN text : IsLabelled(text, n) /\ text[n - 1].value = "bold"}

OldId(entry, text) ==
    LET bold == BoldLabelled(text)
    IN  IF entry.inspectionId # NoId \/ bold = {} THEN entry.inspectionId
        ELSE text[CHOOSE n \in bold : \A m \in bold : n <= m].value

\* request: [cell, inspectionId, sources].
individual_content(entry, request) ==
    LET named == replace_serial(entry.content, entry.cell, request.cell)
        listed == replace_inspection_id_list(named, entry.sources, request.sources)
        old == OldId(entry, listed)
    IN  IF request.inspectionId = NoId \/ old = NoId THEN listed
        ELSE replace_representative_inspection_id(listed, old, request.inspectionId)
=============================================================================
