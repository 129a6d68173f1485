--------------------------- MODULE DataToolsProofs ---------------------------
(***************************************************************************)
(* What the data tools return, but for whether the seed loads a manifest:  *)
(* that is in ManifestProofs.                                              *)
(***************************************************************************)
EXTENDS DataTools, FiniteSetTheorems, TLAPS

NoStep(p, q, u, v, r, x) == r
NoneHolds(p, q, u, v, k, r) == TRUE
NaturalNumbers == INSTANCE Folding WITH Step <- NoStep, Holds <- NoneHolds

(***************************************************************************)
(* Sizes of sets.                                                          *)
(***************************************************************************)

\* What is one to one with a finite set is as large.
LEMMA SameSize ==
    ASSUME NEW S, IsFiniteSet(S), NEW T, NEW f \in [S -> T],
           \A x, y \in S : f[x] = f[y] => x = y, \A y \in T : \E x \in S : f[x] = y
    PROVE  IsFiniteSet(T) /\ Cardinality(T) = Cardinality(S)
<1>1. f \in Bijection(S, T)
  BY DEF Bijection, Injection, Surjection, IsInjective
<1> QED
  BY <1>1, FS_Bijection DEF ExistsBijection

\* Two parts without a common member.
LEMMA DisjointSize ==
    ASSUME NEW S, IsFiniteSet(S), NEW T, IsFiniteSet(T), S \cap T = {}
    PROVE  /\ IsFiniteSet(S \cup T)
           /\ Cardinality(S \cup T) = Cardinality(S) + Cardinality(T)
           /\ Cardinality(S) \in Nat /\ Cardinality(T) \in Nat
  BY FS_Union, FS_EmptySet, FS_CardinalityType

(***************************************************************************)
(* A call returns what its tool makes of the inputs, whatever becomes of   *)
(* the other calls: what is proved of a tool's operator is an invariant of *)
(* the specification.                                                      *)
(***************************************************************************)

ReturnedIs ==
    /\ task \in Tasks
    /\ \/ result = Missing
       \/ task.tool = "rebalance"
             /\ result = rebalance_fixture(task.fixture, task.target, task.failType)
       \/ task.tool = "answer"
             /\ result = build_callback(task.fixture, CHOOSE e \in task.fixture.index : TRUE,
                                        task.request)
       \/ task.tool = "analyse" /\ result = aggregate(Analyses)
       \/ task.tool = "report" /\ result = individual_content(task.entry, task.request)
       \/ task.tool = "build" /\ result = build(task.meta)
       \/ task.tool = "waves" /\ result = build_waves(task.dataset)
       \/ task.tool = "demo" /\ result = Calibrate(task.rows, task.results)

\* The result of a call is what its tool makes of the inputs.
LEMMA CallsReturn == Spec => []ReturnedIs
<1>1. Init => ReturnedIs
  BY DEF Init, ReturnedIs
<1>2. ReturnedIs /\ [Next]_vars => ReturnedIs'
  <2> SUFFICES ASSUME ReturnedIs, [Next]_vars PROVE ReturnedIs'
    OBVIOUS
  <2>1. CASE Rebalance
    BY <2>1 DEF ReturnedIs, Rebalance, Call
  <2>2. CASE Answer
    BY <2>2 DEF ReturnedIs, Answer, Call
  <2>3. CASE Analyse
    BY <2>3 DEF ReturnedIs, Analyse, Call, Analyses
  <2>4. CASE Report
    BY <2>4 DEF ReturnedIs, Report, Call
  <2>5. CASE BuildManifest
    BY <2>5 DEF ReturnedIs, BuildManifest, Call
  <2>6. CASE BuildWaves
    BY <2>6 DEF ReturnedIs, BuildWaves, Call
  <2>7. CASE BuildDemo
    BY <2>7 DEF ReturnedIs, BuildDemo, Call
  <2>8. CASE UNCHANGED vars
    BY <2>8 DEF ReturnedIs, vars, Analyses
  <2> QED
    BY <2>1, <2>2, <2>3, <2>4, <2>5, <2>6, <2>7, <2>8 DEF Next
<1> QED
  BY <1>1, <1>2, PTL DEF Spec

(***************************************************************************)
(* The text of a report.                                                   *)
(***************************************************************************)

\* A number is not a serial, and is that of one inspection.
LEMMA Numbers ==
    ASSUME NEW m, NEW n, NEW c
    PROVE  /\ Number(m) = Number(n) => m = n
           /\ Number(m) # Serial(c)
           /\ Number(m).kind = "number" /\ Number(m).value = m
           /\ Serial(c).kind = "serial" /\ Serial(c).value = c
<1>1. Number(m).kind = "number" /\ Number(m).value = m /\ Number(n).value = n
  BY DEF Number
<1>2. Serial(c).kind = "serial" /\ Serial(c).value = c
  BY DEF Serial
<1> QED
  BY <1>1, <1>2

\* What replacing the serial makes of a place.
LEMMA NamedText ==
    ASSUME NEW text, NEW old, NEW new, NEW n \in DOMAIN text
    PROVE  LET named == replace_serial(text, old, new)
           IN  /\ DOMAIN named = DOMAIN text
               /\ named[n].kind = text[n].kind
               /\ text[n] = Serial(old) => named[n] = Serial(new)
               /\ text[n] # Serial(old) => named[n] = text[n]
BY Numbers DEF replace_serial

\* What replacing the listed ids makes of a place: the k-th becomes the k-th.
LEMMA ListedText ==
    ASSUME NEW text, NEW recorded, NEW current, NEW n \in DOMAIN text
    PROVE  LET listed == replace_inspection_id_list(text, recorded, current)
               replaced(k) == Len(recorded) = Len(current) /\ HasRun(text[n], recorded[k])
           IN  /\ DOMAIN listed = DOMAIN text
               /\ (\A k \in DOMAIN recorded : ~ replaced(k)) => listed[n] = text[n]
               /\ (\E k \in DOMAIN recorded : replaced(k)) =>
                     \E k \in DOMAIN recorded :
                        replaced(k) /\ listed[n] = WithRun(text[n], current[k])
BY DEF replace_inspection_id_list

\* A number that is listed becomes a number, a serial remains one.
LEMMA ListedKinds ==
    ASSUME NEW text, NEW recorded, NEW current, NEW n \in DOMAIN text
    PROVE  LET listed == replace_inspection_id_list(text, recorded, current)
           IN  /\ listed[n].kind = text[n].kind
               /\ text[n].kind # "serial" =>
                     \/ listed[n] = text[n]
                     \/ Len(recorded) = Len(current)
                        /\ \E k \in DOMAIN recorded : text[n].value = recorded[k]
                                                      /\ listed[n] = Number(current[k])
<1> DEFINE listed == replace_inspection_id_list(text, recorded, current)
<1>1. \/ listed[n] = text[n]
      \/ /\ Len(recorded) = Len(current)
         /\ \E k \in DOMAIN recorded : /\ HasRun(text[n], recorded[k])
                                       /\ listed[n] = WithRun(text[n], current[k])
  BY ListedText
<1> HIDE DEF listed
<1>2. ASSUME NEW k \in DOMAIN recorded, HasRun(text[n], recorded[k]),
             listed[n] = WithRun(text[n], current[k])
      PROVE  \/ text[n].kind = "serial" /\ listed[n].kind = "serial"
             \/ /\ text[n].kind = "number" /\ text[n].value = recorded[k]
                /\ listed[n] = Number(current[k]) /\ listed[n].kind = "number"
  BY <1>2, Numbers DEF HasRun, WithRun
<1> QED
  BY <1>1, <1>2 DEF listed

\* What individual_content returns names the inspections of the request.
LEMMA ReportNames ==
    ASSUME NEW t \in Tasks, t.tool = "report"
    PROVE  LET text == t.entry.content
               recorded == t.entry.sources
               current == t.request.sources
               result1 == individual_content(t.entry, t.request)
               Cell(cell) == IF cell = t.entry.cell THEN t.request.cell ELSE cell
           IN  /\ DOMAIN result1 = DOMAIN text
               /\ \A n \in DOMAIN text :
                     /\ Len(recorded) = Len(current) =>
                           \A k \in DOMAIN recorded : text[n] = Number(recorded[k]) =>
                               result1[n] = Number(current[k])
                     /\ /\ IsLabelled(text, n) /\ t.request.inspectionId # NoId
                        /\ t.entry.inspectionId # NoId \/ BoldLabelled(text) # {}
                        => result1[n] = Number(t.request.inspectionId)
                     /\ text[n].kind = "number" /\ text[n].value \notin ToSet(recorded) =>
                           result1[n] = text[n] \/ IsLabelled(text, n)
                     /\ text[n].kind = "serial" =>
                           LET cell == Cell(text[n].value)
                           IN  cell.run \notin ToSet(recorded) => result1[n] = Serial(cell)
<1> DEFINE entry == t.entry
           request == t.request
           text == entry.content
           recorded == entry.sources
           current == request.sources
           Cell(cell) == IF cell = entry.cell THEN request.cell ELSE cell
           named == replace_serial(text, entry.cell, request.cell)
           listed == replace_inspection_id_list(named, recorded, current)
           old == OldId(entry, listed)
           final == individual_content(entry, request)
<1>1. /\ \A x \in {entry, request} :
            /\ x.sources \in Seq(Nat \ {NoId}) /\ IsInjective(x.sources)
            /\ x.inspectionId \in {NoId, Representative(x)}
      /\ DOMAIN text = 1..Len(text)
      /\ \A n \in DOMAIN text :
            /\ IsLabelled(text, n) => /\ Representative(entry) # NoId
                                      /\ text[n] = Number(Representative(entry))
            /\ text[n].kind = "number" => text[n] = Number(text[n].value)
            /\ text[n].kind = "serial" => text[n] = Serial(text[n].value)
  BY ReportsAssumption DEF IsLabelled
<1>2. /\ DOMAIN named = DOMAIN text
      /\ \A n \in DOMAIN text :
            /\ named[n].kind = text[n].kind
            /\ text[n].kind = "serial" => named[n] = Serial(Cell(text[n].value))
            /\ text[n].kind # "serial" => named[n] = text[n]
  <2>1. DOMAIN named = DOMAIN text
    BY DEF replace_serial
  <2>2. ASSUME NEW n \in DOMAIN text
        PROVE  /\ named[n].kind = text[n].kind
               /\ text[n].kind = "serial" => named[n] = Serial(Cell(text[n].value))
               /\ text[n].kind # "serial" => named[n] = text[n]
    <3>1. /\ named[n].kind = text[n].kind
          /\ text[n] = Serial(entry.cell) => named[n] = Serial(request.cell)
          /\ text[n] # Serial(entry.cell) => named[n] = text[n]
      BY NamedText
    <3> HIDE DEF named
    <3> QED
      BY <1>1, <3>1, Numbers
  <2> QED
    BY <2>1, <2>2
<1> HIDE DEF named
<1>3. DOMAIN listed = DOMAIN text
  BY <1>2 DEF replace_inspection_id_list
<1>14. \A n \in DOMAIN text :
          /\ listed[n].kind = text[n].kind
          /\ text[n].kind # "serial" =>
                \/ listed[n] = text[n]
                \/ Len(recorded) = Len(current)
                   /\ \E k \in DOMAIN recorded : text[n].value = recorded[k]
                                                 /\ listed[n] = Number(current[k])
  BY <1>2, ListedKinds
<1>15. \A n \in DOMAIN text :
          (\A k \in DOMAIN recorded :
               ~ (Len(recorded) = Len(current) /\ HasRun(named[n], recorded[k])))
             => listed[n] = named[n]
  BY <1>2, ListedText
<1>16. ASSUME NEW n \in DOMAIN text, text[n].kind = "number", Len(recorded) = Len(current),
              NEW k \in DOMAIN recorded, text[n].value = recorded[k]
       PROVE  \E j \in DOMAIN recorded : recorded[j] = recorded[k] /\ listed[n] = Number(current[j])
  <2>1. HasRun(named[n], recorded[k]) /\ named[n] = text[n]
    BY <1>2, <1>16 DEF HasRun
  <2>2. \E j \in DOMAIN recorded : /\ HasRun(named[n], recorded[j])
                                   /\ listed[n] = WithRun(named[n], current[j])
    BY <1>2, <1>16, <2>1, ListedText
  <2> HIDE DEF listed
  <2> QED
    BY <1>16, <2>1, <2>2 DEF HasRun, WithRun
<1>4. final = IF request.inspectionId = NoId \/ old = NoId THEN listed
              ELSE replace_representative_inspection_id(listed, old, request.inspectionId)
  BY DEF individual_content, named
<1> HIDE DEF listed, final
<1>5. \A n \in DOMAIN text : IsLabelled(listed, n) <=> IsLabelled(text, n)
  <2>1. \A n \in DOMAIN text : n > 1 => n - 1 \in DOMAIN text
    BY <1>1
  <2> QED
    BY <1>14, <2>1 DEF IsLabelled
<1>17. BoldLabelled(listed) = BoldLabelled(text)
  <2>1. ASSUME NEW n \in DOMAIN text, IsLabelled(text, n)
        PROVE  listed[n - 1] = text[n - 1]
    <3>1. n - 1 \in DOMAIN text /\ text[n - 1].kind = "label"
      BY <1>1, <2>1 DEF IsLabelled
    <3>2. named[n - 1] = text[n - 1]
      BY <1>2, <3>1
    <3>3. \A k \in DOMAIN recorded : ~ HasRun(named[n - 1], recorded[k])
      BY <3>1, <3>2 DEF HasRun
    <3> QED
      BY <1>15, <3>1, <3>2, <3>3
  <2> QED
    BY <1>3, <1>5, <2>1 DEF BoldLabelled
<1>6. /\ DOMAIN final = DOMAIN text
      /\ \A n \in DOMAIN text :
            \/ final[n] = listed[n]
            \/ /\ IsLabelled(text, n) /\ request.inspectionId # NoId
               /\ listed[n] = Number(old) /\ final[n] = Number(request.inspectionId)
  BY <1>3, <1>4, <1>5 DEF replace_representative_inspection_id
<1>7. \A n \in DOMAIN text :
         request.inspectionId # NoId /\ old # NoId /\ IsLabelled(text, n)
           /\ listed[n] = Number(old) => final[n] = Number(request.inspectionId)
  BY <1>3, <1>4, <1>5 DEF replace_representative_inspection_id
<1>13. \A i, k \in DOMAIN recorded : recorded[i] = recorded[k] => i = k
  BY <1>1 DEF IsInjective
<1>8. ASSUME NEW n \in DOMAIN text, Len(recorded) = Len(current),
             NEW k \in DOMAIN recorded, text[n] = Number(recorded[k])
      PROVE  /\ listed[n] = Number(current[k])
             /\ IsLabelled(text, n) => k = 1 /\ current # << >> /\ recorded # << >>
  <2>1. text[n].kind = "number" /\ text[n].value = recorded[k]
    BY <1>8, Numbers
  <2>2. PICK j \in DOMAIN recorded : recorded[j] = recorded[k]
                                   /\ listed[n] = Number(current[j])
    BY <1>8, <1>16, <2>1
  <2>4. ASSUME IsLabelled(text, n)
        PROVE  k = 1 /\ current # << >> /\ recorded # << >>
    <3>1. recorded # << >> /\ current # << >> /\ 1 \in DOMAIN recorded
      BY <1>1, <1>8
    <3>2. text[n] = Number(recorded[1])
      BY <1>1, <2>4, <3>1 DEF Representative
    <3>3. recorded[1] = recorded[k]
      <4> DEFINE a == recorded[1]
                 b == recorded[k]
      <4>1. Number(a) = Number(b)
        BY <1>8, <3>2
      <4> HIDE DEF a, b
      <4>2. a = b
        BY <4>1, Numbers, Zenon
      <4> QED
        BY <4>2 DEF a, b
    <3> QED
      BY <1>13, <3>1, <3>3
  <2> QED
    BY <1>13, <2>2, <2>4
<1>9. ASSUME NEW n \in DOMAIN text, Len(recorded) = Len(current),
             NEW k \in DOMAIN recorded, text[n] = Number(recorded[k])
      PROVE  final[n] = Number(current[k])
  <2>1. IsLabelled(text, n) /\ request.inspectionId # NoId =>
            request.inspectionId = current[k]
    BY <1>1, <1>8, <1>9 DEF Representative
  <2> QED
    BY <1>6, <1>8, <1>9, <2>1
<1>10. ASSUME NEW n \in DOMAIN text, IsLabelled(text, n), request.inspectionId # NoId,
              entry.inspectionId # NoId \/ BoldLabelled(text) # {}
       PROVE  final[n] = Number(request.inspectionId)
  <2>1. CASE Len(recorded) = Len(current) /\ recorded # << >>
    <3>1. 1 \in DOMAIN recorded /\ current # << >> /\ text[n] = Number(recorded[1])
      BY <1>1, <1>10, <2>1 DEF Representative
    <3>2. final[n] = Number(current[1])
      BY <1>9, <2>1, <3>1
    <3> QED
      BY <1>1, <1>10, <3>1, <3>2 DEF Representative
  <2>2. CASE Len(recorded) # Len(current) \/ recorded = << >>
    <3>1. \A m \in DOMAIN text : IsLabelled(text, m) =>
             listed[m] = Number(Representative(entry))
      <4>1. ~ (Len(recorded) = Len(current)
                 /\ \E k \in DOMAIN recorded : TRUE)
        BY <1>1, <2>2
      <4>2. \A m \in DOMAIN text : IsLabelled(text, m) => text[m].kind # "serial"
        BY DEF IsLabelled
      <4> QED
        BY <1>1, <1>14, <4>1, <4>2
    <3>2. old = Representative(entry)
      <4> DEFINE bold == BoldLabelled(listed)
      <4>1. CASE entry.inspectionId # NoId
        BY <1>1, <4>1 DEF OldId
      <4>2. CASE entry.inspectionId = NoId
        <5>1. bold # {} /\ bold \subseteq Nat
          BY <1>1, <1>10, <1>17, <4>2 DEF BoldLabelled
        <5>2. \E m \in bold : \A j \in bold : m <= j
          <6> HIDE DEF bold
          <6> QED
            BY <5>1, NaturalNumbers!LeastNumber
        <5>3. \A m \in bold : listed[m].value = Representative(entry)
          BY <1>17, <3>1, Numbers DEF BoldLabelled
        <5>4. old = listed[CHOOSE m \in bold : \A j \in bold : m <= j].value
          BY <4>2, <5>1 DEF OldId
        <5> HIDE DEF bold, old
        <5> QED
          BY <5>2, <5>3, <5>4
      <4> QED
        BY <4>1, <4>2
    <3>3. listed[n] = Number(old) /\ old # NoId
      BY <1>1, <1>10, <3>1, <3>2
    <3> HIDE DEF old
    <3> QED
      BY <1>7, <1>10, <3>3
  <2> QED
    BY <2>1, <2>2
<1>11. ASSUME NEW n \in DOMAIN text, text[n].kind = "number",
              text[n].value \notin ToSet(recorded)
       PROVE  final[n] = text[n] \/ IsLabelled(text, n)
  <2>1. \A k \in DOMAIN recorded : text[n].value # recorded[k]
    BY <1>1, <1>11 DEF ToSet
  <2>2. listed[n] = text[n]
    BY <1>11, <1>14, <2>1
  <2> QED
    BY <1>6, <2>2
<1>12. ASSUME NEW n \in DOMAIN text, text[n].kind = "serial",
              Cell(text[n].value).run \notin ToSet(recorded)
       PROVE  final[n] = Serial(Cell(text[n].value))
  <2> DEFINE cell == Cell(text[n].value)
  <2>1. named[n] = Serial(cell)
    BY <1>2, <1>12
  <2>2. \A k \in DOMAIN recorded : cell.run # recorded[k]
    BY <1>1, <1>12 DEF ToSet
  <2> HIDE DEF cell
  <2>3. \A k \in DOMAIN recorded : ~ HasRun(named[n], recorded[k])
    BY <2>1, <2>2, Numbers DEF HasRun
  <2>4. listed[n] = Serial(cell)
    BY <1>15, <2>1, <2>3
  <2>5. ~ IsLabelled(text, n)
    BY <1>12 DEF IsLabelled
  <2> QED
    BY <1>6, <2>4, <2>5 DEF cell
<1> HIDE DEF Cell
<1> QED
  BY <1>6, <1>9, <1>10, <1>11, <1>12 DEF final, Cell

\* Every report that is returned names the inspections of its request
\* (fixture.py:494-530, 572-614).
THEOREM ReportsNameTheRequest == Spec => []ReportNamesTheRequest
<1>1. ReturnedIs => ReportNamesTheRequest
  <2> SUFFICES ASSUME ReturnedIs, Returned("report") PROVE ReportNamesTheRequest
    BY DEF ReportNamesTheRequest
  <2>1. task \in Tasks /\ task.tool = "report"
        /\ result = individual_content(task.entry, task.request)
    BY DEF ReturnedIs, Returned
  <2> QED
    BY <2>1, ReportNames DEF ReportNamesTheRequest
<1> QED
  BY <1>1, CallsReturn, PTL

(***************************************************************************)
(* Putting in order.                                                       *)
(***************************************************************************)

\* The members of a finite set before one, by their keys.
Before(S, key, x) == {y \in S : key[y] < key[x]}

\* Every rank below the size of a set is that of a member.
LEMMA Ranks ==
    ASSUME NEW S, IsFiniteSet(S), NEW key \in [S -> Int],
           \A x, y \in S : key[x] = key[y] => x = y
    PROVE  /\ \A x \in S : Cardinality(Before(S, key, x)) \in 0..Cardinality(S) - 1
           /\ \A x, y \in S : Cardinality(Before(S, key, x)) = Cardinality(Before(S, key, y))
                                => x = y
           /\ \A n \in 1..Cardinality(S) :
                 \E x \in S : Cardinality(Before(S, key, x)) = n - 1
<1> DEFINE rank == [x \in S |-> Cardinality(Before(S, key, x))]
           size == Cardinality(S)
<1>1. \A x \in S : IsFiniteSet(Before(S, key, x)) /\ Cardinality(Before(S, key, x)) \in Nat
  BY FS_Subset, FS_CardinalityType DEF Before
<1>2. ASSUME NEW T, IsFiniteSet(T), NEW x \in S, x \notin Before(S, key, x),
             Before(S, key, x) \cup {x} \subseteq T
      PROVE  Cardinality(Before(S, key, x)) < Cardinality(T)
  <2>1. IsFiniteSet(Before(S, key, x) \cup {x})
        /\ Cardinality(Before(S, key, x) \cup {x}) = Cardinality(Before(S, key, x)) + 1
    BY <1>1, <1>2, FS_AddElement
  <2>2. Cardinality(Before(S, key, x) \cup {x}) <= Cardinality(T) /\ Cardinality(T) \in Nat
    BY <1>2, <2>1, FS_Subset, FS_CardinalityType
  <2> QED
    BY <1>1, <2>1, <2>2
<1>3. \A x \in S : x \notin Before(S, key, x)
  BY DEF Before
<1>4. size \in Nat
  BY FS_CardinalityType
<1>5. ASSUME NEW x \in S
      PROVE  rank[x] \in 0..size - 1
  <2>1. Before(S, key, x) \cup {x} \subseteq S
    BY DEF Before
  <2>2. Cardinality(Before(S, key, x)) < size
    BY <1>2, <1>3, <2>1
  <2> QED
    BY <1>1, <1>4, <2>2
<1>6. ASSUME NEW x \in S, NEW y \in S, key[x] < key[y]
      PROVE  rank[x] < rank[y]
  <2>1. Before(S, key, x) \cup {x} \subseteq Before(S, key, y)
    BY <1>6 DEF Before
  <2>2. Cardinality(Before(S, key, x)) < Cardinality(Before(S, key, y))
    BY <1>1, <1>2, <1>3, <2>1
  <2> QED
    BY <2>2
<1>7. \A x, y \in S : rank[x] = rank[y] => x = y
  <2> SUFFICES ASSUME NEW x \in S, NEW y \in S, x # y PROVE rank[x] # rank[y]
    OBVIOUS
  <2>1. key[x] < key[y] \/ key[y] < key[x]
    OBVIOUS
  <2>2. rank[x] \in Nat /\ rank[y] \in Nat
    BY <1>5
  <2> HIDE DEF rank
  <2> QED
    BY <1>6, <2>1, <2>2
<1>8. \A n \in 1..size : \E x \in S : rank[x] = n - 1
  <2>1. rank \in Injection(S, 0..size - 1)
    <3>1. rank \in [S -> 0..size - 1]
      BY <1>5
    <3> HIDE DEF rank
    <3> QED
      BY <1>7, <3>1 DEF Injection, IsInjective
  <2>2. IsFiniteSet(0..size - 1) /\ Cardinality(0..size - 1) = size
    BY <1>4, FS_Interval
  <2>3. rank \in Surjection(S, 0..size - 1)
    <3> HIDE DEF rank
    <3> QED
      BY <2>1, <2>2, FS_Injection
  <2>4. \A n \in 0..size - 1 : \E x \in S : rank[x] = n
    <3> HIDE DEF rank
    <3> QED
      BY <2>3 DEF Surjection
  <2> HIDE DEF rank
  <2> QED
    BY <1>4, <2>4
<1> QED
  BY <1>5, <1>7, <1>8

\* A set put in order is a sequence of its members, each once.
LEMMA Sorted ==
    ASSUME NEW S, IsFiniteSet(S), NEW key \in [S -> Int],
           \A x, y \in S : key[x] = key[y] => x = y
    PROVE  LET sequence == sorted(S, key)
           IN  /\ sequence \in [1..Cardinality(S) -> S]
               /\ sequence \in Seq(S) /\ Len(sequence) = Cardinality(S)
               /\ Cardinality(S) \in Nat
               /\ \A m, n \in 1..Cardinality(S) : sequence[m] = sequence[n] => m = n
               /\ \A x \in S : \E n \in 1..Cardinality(S) : sequence[n] = x
<1> DEFINE sequence == sorted(S, key)
           size == Cardinality(S)
           Rank(x) == Cardinality(Before(S, key, x))
<1>1. size \in Nat
  BY FS_CardinalityType
<1>2. /\ \A x \in S : Rank(x) \in 0..size - 1
      /\ \A x, y \in S : Rank(x) = Rank(y) => x = y
      /\ \A n \in 1..size : \E x \in S : Rank(x) = n - 1
  BY Ranks
<1>3. sequence = [n \in 1..size |-> CHOOSE x \in S : Rank(x) = n - 1]
  BY DEF sorted, Before
<1> HIDE DEF Rank, sequence
<1>4. \A n \in 1..size : sequence[n] \in S /\ Rank(sequence[n]) = n - 1
  BY <1>2, <1>3
<1>5. sequence \in [1..size -> S]
  BY <1>3, <1>4
<1>6. sequence \in Seq(S) /\ Len(sequence) = size
  BY <1>1, <1>5
<1>7. \A m, n \in 1..size : sequence[m] = sequence[n] => m = n
  BY <1>1, <1>4
<1>8. ASSUME NEW x \in S
      PROVE  \E n \in 1..size : sequence[n] = x
  <2>1. Rank(x) + 1 \in 1..size
    BY <1>1, <1>2
  <2>2. Rank(sequence[Rank(x) + 1]) = Rank(x) /\ sequence[Rank(x) + 1] \in S
    BY <1>1, <1>2, <1>4, <2>1
  <2> QED
    BY <1>2, <2>1, <2>2
<1> QED
  BY <1>1, <1>5, <1>6, <1>7, <1>8 DEF sequence

(***************************************************************************)
(* Taking in turn.                                                         *)
(***************************************************************************)

\* Division with remainder.
LEMMA Remainder ==
    ASSUME NEW L \in Nat, L > 0, NEW a \in Nat
    PROVE  /\ a % L \in 0..L - 1
           /\ a \div L \in Nat
           /\ a = L * (a \div L) + (a % L)
<1>1. a % L \in 0..L - 1 /\ a \div L \in Nat
  BY SMT
<1>2. a = L * (a \div L) + (a % L)
  BY Z3
<1> QED
  BY <1>1, <1>2

\* The remainder is unique.
LEMMA RemainderIs ==
    ASSUME NEW L \in Nat, L > 0, NEW q \in Int, NEW d \in 0..L - 1, NEW a \in Nat,
           a = L * q + d
    PROVE  a % L = d
  BY SMT

\* The last L visits of a pool of L rows were at all of them.
LEMMA RoundVisitsAll ==
    ASSUME NEW L \in Nat, L > 0, NEW c \in Nat, c >= L, NEW j \in 1..L
    PROVE  \E m \in 1..L : j = 1 + ((c - m) % L)
<1> DEFINE m == ((c - j) % L) + 1
           q == (c - j) \div L
<1>1. c - j \in Nat /\ q \in Nat /\ m \in 1..L
  BY Remainder
<1>2. c - j = L * q + (m - 1)
  BY <1>1, Remainder
<1>3. c - m = L * q + (j - 1) /\ c - m \in Nat
  <2> HIDE DEF m, q
  <2> QED
    BY <1>1, <1>2
<1>4. (c - m) % L = j - 1
  <2> DEFINE a == c - m
  <2>1. a \in Nat /\ a = L * q + (j - 1) /\ q \in Int /\ j - 1 \in 0..L - 1
    BY <1>1, <1>3
  <2> HIDE DEF a, q
  <2>2. a % L = j - 1
    BY <2>1, RemainderIs
  <2> USE DEF a
  <2> QED
    BY <2>2
<1> HIDE DEF m
<1>5. j = 1 + ((c - m) % L)
  <2> DEFINE d == (c - m) % L
  <2>1. d = j - 1 /\ j \in Nat
    BY <1>4
  <2> HIDE DEF d
  <2>2. j = 1 + d
    BY <2>1
  <2> QED
    BY <2>2 DEF d
<1> QED
  BY <1>1, <1>5

(***************************************************************************)
(* Answers for other images.                                               *)
(***************************************************************************)

\* The numbers below k with one remainder.
Residues(L, k, a) == {p \in 0..k - 1 : p % L = a}

\* What is one to one into a finite set is not larger.
LEMMA NotLarger ==
    ASSUME NEW S, IsFiniteSet(S), NEW T, IsFiniteSet(T), NEW f \in [S -> T],
           \A x, y \in S : f[x] = f[y] => x = y
    PROVE  Cardinality(S) <= Cardinality(T)
<1>1. Cardinality(S) \in Nat /\ Cardinality(T) \in Nat
  BY FS_CardinalityType
<1> SUFFICES ASSUME Cardinality(T) < Cardinality(S) PROVE FALSE
  BY <1>1
<1> QED
  BY FS_PigeonHole

\* Every remainder occurs as often as another, or once more or less.
LEMMA EvenResidues ==
    ASSUME NEW L \in Nat, L > 0, NEW k \in Nat, NEW a \in 0..L - 1, NEW b \in 0..L - 1
    PROVE  /\ IsFiniteSet(Residues(L, k, a)) /\ Cardinality(Residues(L, k, a)) \in Nat
           /\ Cardinality(Residues(L, k, a)) <= Cardinality(Residues(L, k, b)) + 1
<1>1. IsFiniteSet(0..k - 1)
  BY FS_Interval
<1>2. \A d \in 0..L - 1 : /\ IsFiniteSet(Residues(L, k, d))
                          /\ Cardinality(Residues(L, k, d)) \in Nat
  BY <1>1, FS_Subset, FS_CardinalityType DEF Residues
<1>3. \A p \in Residues(L, k, a) : \E q \in Nat : p = L * q + a
  BY Remainder DEF Residues
<1>4. ASSUME NEW p \in Nat, NEW q \in Nat, p = L * q + b, p < k
      PROVE  p \in Residues(L, k, b)
  BY <1>4, RemainderIs DEF Residues
<1>5. CASE a >= b
  <2> DEFINE f == [p \in Residues(L, k, a) |-> p - (a - b)]
  <2>1. ASSUME NEW p \in Residues(L, k, a)
        PROVE  p - (a - b) \in Residues(L, k, b)
    <3>1. PICK q \in Nat : p = L * q + a
      BY <1>3
    <3> DEFINE r == p - (a - b)
               m == L * q
    <3>2. m \in Nat /\ p \in 0..k - 1
      BY DEF Residues
    <3>3. p = m + a
      BY <3>1
    <3>4. r = m + b /\ r \in Nat /\ r < k
      <4> HIDE DEF m
      <4> QED
        BY <1>5, <3>2, <3>3
    <3> HIDE DEF r
    <3>5. r \in Residues(L, k, b)
      BY <1>4, <3>4
    <3> QED
      BY <3>5 DEF r
  <2>2. f \in [Residues(L, k, a) -> Residues(L, k, b)]
    BY <2>1
  <2>3. \A x, y \in Residues(L, k, a) : f[x] = f[y] => x = y
    BY DEF Residues
  <2> HIDE DEF f
  <2>4. Cardinality(Residues(L, k, a)) <= Cardinality(Residues(L, k, b))
    BY <1>2, <2>2, <2>3, NotLarger
  <2> QED
    BY <1>2, <2>4
<1>6. CASE a < b
  <2> DEFINE later == Residues(L, k, a) \ {a}
             f == [p \in later |-> p - (L - (b - a))]
  <2>1. ASSUME NEW p \in later
        PROVE  p - (L - (b - a)) \in Residues(L, k, b)
    <3>1. PICK q \in Nat : p = L * q + a
      BY <1>3
    <3>2. q # 0
      BY <3>1
    <3> DEFINE r == p - (L - (b - a))
               m == L * (q - 1)
    <3>3. q - 1 \in Nat /\ L * q = m + L /\ m \in Nat /\ p \in 0..k - 1
      BY <3>2 DEF Residues
    <3>4. p = m + L + a
      BY <3>1, <3>3
    <3>5. r = m + b /\ r \in Nat /\ r < k
      <4> HIDE DEF m
      <4> QED
        BY <1>6, <3>3, <3>4
    <3> HIDE DEF r
    <3>6. r \in Residues(L, k, b)
      BY <1>4, <3>3, <3>5
    <3> QED
      BY <3>6 DEF r
  <2>2. f \in [later -> Residues(L, k, b)]
    BY <2>1
  <2>3. \A x, y \in later : f[x] = f[y] => x = y
    BY DEF Residues
  <2>4. IsFiniteSet(later) /\ Cardinality(Residues(L, k, a)) <= Cardinality(later) + 1
        /\ Cardinality(later) \in Nat
    <3> DEFINE R == Residues(L, k, a)
    <3>1. IsFiniteSet(R) /\ Cardinality(R) \in Nat
      BY <1>2
    <3> HIDE DEF R
    <3>2. IsFiniteSet(R \ {a})
          /\ Cardinality(R \ {a}) = IF a \in R THEN Cardinality(R) - 1 ELSE Cardinality(R)
      BY <3>1, FS_RemoveElement
    <3>3. Cardinality(R \ {a}) \in Nat
      BY <3>2, FS_CardinalityType
    <3>4. Cardinality(R) <= Cardinality(R \ {a}) + 1
      BY <3>1, <3>2, <3>3
    <3> QED
      BY <3>2, <3>3, <3>4 DEF R
  <2> HIDE DEF f, later
  <2>5. Cardinality(later) <= Cardinality(Residues(L, k, b))
    BY <1>2, <2>2, <2>3, <2>4, NotLarger
  <2> QED
    BY <1>2, <2>4, <2>5
<1> QED
  BY <1>2, <1>5, <1>6

\* Numbers from zero for the members of a set, and a list of them all.
Ranking(S, rank) ==
    /\ rank \in [S -> 0..Cardinality(S) - 1]
    /\ \A x, y \in S : rank[x] = rank[y] => x = y
    /\ \A n \in 1..Cardinality(S) : \E x \in S : rank[x] = n - 1
Listing(P, L, sequence) ==
    /\ L \in Nat /\ L > 0 /\ sequence \in [1..L -> P]
    /\ \A m, n \in 1..L : sequence[m] = sequence[n] => m = n
    /\ \A i \in P : \E n \in 1..L : sequence[n] = i

\* The ranks of a set by keys.
LEMMA RanksNumber ==
    ASSUME NEW S, IsFiniteSet(S), NEW key \in [S -> Int],
           \A x, y \in S : key[x] = key[y] => x = y
    PROVE  Ranking(S, [x \in S |-> Cardinality(Before(S, key, x))])
<1> DEFINE rank == [x \in S |-> Cardinality(Before(S, key, x))]
<1>1. /\ \A x \in S : rank[x] \in 0..Cardinality(S) - 1
      /\ \A x, y \in S : rank[x] = rank[y] => x = y
      /\ \A n \in 1..Cardinality(S) : \E x \in S : rank[x] = n - 1
  BY Ranks
<1>2. rank \in [S -> 0..Cardinality(S) - 1]
  BY <1>1
<1> HIDE DEF rank
<1>3. Ranking(S, rank)
  BY <1>1, <1>2 DEF Ranking
<1> QED
  BY <1>3 DEF rank

\* What is taken from a sequence in turn, by members of a set that have ranks,
\* is taken as often as anything else in it, or once more or less.
LEMMA TakenInTurn ==
    ASSUME NEW S, IsFiniteSet(S), NEW rank, Ranking(S, rank),
           NEW P, NEW L, NEW sequence, Listing(P, L, sequence), NEW i \in P, NEW j \in P
    PROVE  Cardinality({x \in S : sequence[1 + (rank[x] % L)] = i})
             <= Cardinality({x \in S : sequence[1 + (rank[x] % L)] = j}) + 1
<1> DEFINE k == Cardinality(S)
           Takers(h) == {x \in S : sequence[1 + (rank[x] % L)] = h}
<1> USE DEF Ranking, Listing
<1>1. k \in Nat
  BY FS_CardinalityType
<1>2. ASSUME NEW h \in P
      PROVE  \E a \in 0..L - 1 : Cardinality(Takers(h)) = Cardinality(Residues(L, k, a))
  <2>1. PICK n \in 1..L : sequence[n] = h
    OBVIOUS
  <2> DEFINE a == n - 1
             R == Residues(L, k, a)
             f == [p \in R |-> CHOOSE x \in S : rank[x] = p]
  <2>2. a \in 0..L - 1 /\ n = a + 1
    OBVIOUS
  <2>3. \A x \in S : rank[x] \in Nat /\ rank[x] \in 0..k - 1 /\ rank[x] % L \in 0..L - 1
    <3>1. \A x \in S : rank[x] \in Nat /\ rank[x] \in 0..k - 1
      BY <1>1
    <3> QED
      BY <3>1, Remainder
  <2>4. \A x \in S : x \in Takers(h) <=> rank[x] \in R
    <3> SUFFICES ASSUME NEW x \in S PROVE x \in Takers(h) <=> rank[x] \in R
      OBVIOUS
    <3> DEFINE d == rank[x] % L
    <3>1. d \in 0..L - 1 /\ 1 + d \in 1..L /\ rank[x] \in 0..k - 1
      BY <2>3
    <3>2. x \in Takers(h) <=> sequence[1 + d] = h
      OBVIOUS
    <3>3. rank[x] \in R <=> d = a
      BY <3>1 DEF Residues
    <3> HIDE DEF d
    <3>4. sequence[1 + d] = h <=> d = a
      BY <2>1, <2>2, <3>1
    <3> QED
      BY <3>2, <3>3, <3>4
  <2>5. \A p \in R : \E x \in S : rank[x] = p
    <3> SUFFICES ASSUME NEW p \in R PROVE \E x \in S : rank[x] = p
      OBVIOUS
    <3>1. p \in 0..k - 1
      BY DEF Residues
    <3>2. p + 1 \in 1..k /\ (p + 1) - 1 = p
      BY <1>1, <3>1
    <3> QED
      BY <3>2
  <2> HIDE DEF R, a
  <2>6. \A p \in R : f[p] \in S /\ rank[f[p]] = p
    BY <2>5
  <2> HIDE DEF f
  <2>7. IsFiniteSet(R)
    BY <1>1, <2>2, EvenResidues DEF R
  <2>8. f \in [R -> Takers(h)]
    <3>1. \A p \in R : f[p] \in Takers(h)
      BY <2>4, <2>6
    <3>2. f = [p \in R |-> f[p]]
      BY DEF f
    <3> HIDE DEF Takers
    <3> QED
      BY <3>1, <3>2
  <2>9. \A x, y \in R : f[x] = f[y] => x = y
    BY <2>6
  <2>10. \A y \in Takers(h) : \E p \in R : f[p] = y
    <3> SUFFICES ASSUME NEW y \in Takers(h) PROVE f[rank[y]] = y /\ rank[y] \in R
      OBVIOUS
    <3>1. y \in S /\ rank[y] \in R
      BY <2>4
    <3> QED
      BY <2>6, <3>1
  <2> HIDE DEF Takers
  <2>11. Cardinality(Takers(h)) = Cardinality(R)
    BY <2>7, <2>8, <2>9, <2>10, SameSize
  <2> QED
    BY <2>2, <2>11 DEF R
<1>3. PICK a \in 0..L - 1 : Cardinality(Takers(i)) = Cardinality(Residues(L, k, a))
  BY <1>2
<1>4. PICK b \in 0..L - 1 : Cardinality(Takers(j)) = Cardinality(Residues(L, k, b))
  BY <1>2
<1>5. Cardinality(Residues(L, k, a)) <= Cardinality(Residues(L, k, b)) + 1
  BY <1>1, EvenResidues
<1>6. Cardinality(Takers(i)) <= Cardinality(Takers(j)) + 1
  BY <1>3, <1>4, <1>5
<1> QED
  BY <1>6

IsRecording(f) ==
    /\ f.index = replay_index(f)
    /\ IsFiniteSet(DOMAIN f.images)
    /\ \A i \in DOMAIN f.images : f.images[i].key \in Int
    /\ Loads(f)

OwnImages(f, entry) == ImagesOf(f, entry.inspection, entry.attempt)
PoolOf(f, entry, type) ==
    LET typed == {i \in OwnImages(f, entry) : f.images[i].type = type}
    IN  IF typed # {} THEN typed ELSE OwnImages(f, entry)

\* The images of a recording have keys of their own.
LEMMA KeysOfImages ==
    ASSUME NEW f, IsRecording(f), NEW entry \in f.index
    PROVE  /\ OwnImages(f, entry) # {} /\ IsFiniteSet(OwnImages(f, entry))
           /\ entry.fingerprint = Keys(f, OwnImages(f, entry))
           /\ \A i \in OwnImages(f, entry) : f.images[i].key \in Int
           /\ \A i, j \in OwnImages(f, entry) : f.images[i].key = f.images[j].key => i = j
<1> DEFINE own == OwnImages(f, entry)
           key == [i \in own |-> f.images[i].key]
<1>1. own \subseteq DOMAIN f.images /\ IsFiniteSet(own)
  <2>1. own \subseteq DOMAIN f.images
    BY DEF OwnImages, ImagesOf
  <2> QED
    BY <2>1, FS_Subset DEF IsRecording
<1>2. own # {}
  <2>1. PICK i \in DOMAIN f.images : /\ entry.inspection = f.images[i].inspection
                                    /\ entry.attempt = f.images[i].attempt
    BY DEF IsRecording, replay_index
  <2>2. i \in own
    BY <2>1 DEF OwnImages, ImagesOf
  <2> QED
    BY <2>2
<1>3. Cardinality(own) = Cardinality(Keys(f, own)) /\ Keys(f, own) = entry.fingerprint
  BY DEF IsRecording, Loads, OwnImages
<1>4. \A i \in own : f.images[i].key \in Int
  BY <1>1 DEF IsRecording
<1> HIDE DEF own
<1>5. key \in Surjection(own, Keys(f, own))
  <2>1. key \in [own -> Keys(f, own)]
    BY DEF Keys
  <2>2. \A k \in Keys(f, own) : \E i \in own : key[i] = k
    BY DEF Keys
  <2> HIDE DEF key
  <2> QED
    BY <2>1, <2>2 DEF Surjection
<1>6. key \in Injection(own, Keys(f, own))
  <2> HIDE DEF key
  <2> QED
    BY <1>1, <1>3, <1>5, FS_Surjection
<1>7. \A i, j \in own : key[i] = key[j] => i = j
  <2> HIDE DEF key
  <2> QED
    BY <1>6 DEF Injection, IsInjective
<1>8. \A i, j \in own : f.images[i].key = f.images[j].key => i = j
  BY <1>7
<1> QED
  BY <1>1, <1>2, <1>3, <1>4, <1>8 DEF own

\* The candidates of a type are the images of its pool, each once.
LEMMA CandidatesAre ==
    ASSUME NEW f, IsRecording(f), NEW entry \in f.index, NEW type
    PROVE  LET pool == PoolOf(f, entry, type)
               candidates == Candidates(f, entry, type)
               L == Len(candidates)
           IN  pool \subseteq OwnImages(f, entry) /\ Listing(pool, L, candidates)
<1> DEFINE pool == PoolOf(f, entry, type)
           candidates == Candidates(f, entry, type)
           key == [i \in pool |-> f.images[i].key]
<1>1. pool \subseteq OwnImages(f, entry) /\ pool # {}
  BY KeysOfImages DEF PoolOf
<1>2. candidates = sorted(pool, key)
  BY DEF Candidates, PoolOf, OwnImages
<1> HIDE DEF pool
<1>3. IsFiniteSet(pool)
  BY <1>1, KeysOfImages, FS_Subset
<1>4. key \in [pool -> Int] /\ \A i, j \in pool : key[i] = key[j] => i = j
  BY <1>1, KeysOfImages
<1> HIDE DEF key, candidates
<1>5. Cardinality(pool) \in Nat /\ Cardinality(pool) > 0
  BY <1>1, <1>3, FS_CardinalityType, FS_EmptySet
<1> DEFINE size == Cardinality(pool)
<1>6. /\ candidates \in [1..size -> pool] /\ Len(candidates) = size
      /\ \A m, n \in 1..size : candidates[m] = candidates[n] => m = n
      /\ \A i \in pool : \E n \in 1..size : candidates[n] = i
  BY <1>2, <1>3, <1>4, Sorted
<1> HIDE DEF size
<1>7. /\ candidates \in [1..Len(candidates) -> pool]
      /\ \A m, n \in 1..Len(candidates) : candidates[m] = candidates[n] => m = n
      /\ \A i \in pool : \E n \in 1..Len(candidates) : candidates[n] = i
  BY <1>6
<1>8. Len(candidates) \in Nat /\ Len(candidates) > 0
  BY <1>5, <1>6 DEF size
<1> QED
  BY <1>1, <1>7, <1>8 DEF pool, candidates, Listing

\* The n-th image of a request is answered by SourceImage, of its pool; those
\* of one type that were not recorded take turns.
LEMMA SourcesTakeTurns ==
    ASSUME NEW f, IsRecording(f), NEW entry \in f.index, NEW S, NEW request \in Seq(S), NEW type
    PROVE  LET others == {n \in DOMAIN request : ~ IsRecorded(entry, request[n])}
               ofType == {n \in others : request[n].type = type}
               Source(n) == SourceImage(f, entry, request, n)
               pool == PoolOf(f, entry, type)
           IN  /\ \A n \in ofType : Source(n) \in pool
               /\ \A i, j \in pool : Cardinality({n \in ofType : Source(n) = i})
                                       <= Cardinality({n \in ofType : Source(n) = j}) + 1
<1> DEFINE others == {n \in DOMAIN request : ~ IsRecorded(entry, request[n])}
           ofType == {n \in others : request[n].type = type}
           Source(n) == SourceImage(f, entry, request, n)
           pool == PoolOf(f, entry, type)
           candidates == Candidates(f, entry, type)
           L == Len(candidates)
           number == [n \in ofType |-> n]
           rank == [n \in ofType |-> Position(entry, request, n)]
<1>1. DOMAIN request = 1..Len(request) /\ Len(request) \in Nat
  OBVIOUS
<1>2. ofType \subseteq 1..Len(request) /\ IsFiniteSet(ofType)
  <2>1. ofType \subseteq 1..Len(request)
    BY <1>1
  <2> HIDE DEF ofType
  <2>2. IsFiniteSet(1..Len(request))
    BY <1>1, FS_Interval
  <2> QED
    BY <2>1, <2>2, FS_Subset
<1>3. Listing(pool, L, candidates) /\ L \in Nat /\ L > 0 /\ candidates \in [1..L -> pool]
  BY CandidatesAre DEF Listing
<1>4. \A n \in ofType : rank[n] = Cardinality(Before(ofType, number, n))
  <2> SUFFICES ASSUME NEW n \in ofType
               PROVE  Position(entry, request, n) = Cardinality(Before(ofType, number, n))
    OBVIOUS
  <2>1. n \in 1..Len(request) /\ request[n].type = type
    BY <1>1
  <2>2. {m \in 1..n - 1 : request[m].type = request[n].type /\ ~ IsRecorded(entry, request[m])}
          \subseteq Before(ofType, number, n)
    BY <1>1, <2>1 DEF Before
  <2>3. Before(ofType, number, n) \subseteq
          {m \in 1..n - 1 : request[m].type = request[n].type /\ ~ IsRecorded(entry, request[m])}
    BY <1>1, <2>1 DEF Before
  <2>4. {m \in 1..n - 1 : request[m].type = request[n].type /\ ~ IsRecorded(entry, request[m])}
          = Before(ofType, number, n)
    BY <2>2, <2>3
  <2> QED
    BY <2>4 DEF Position
<1>5. \A n \in ofType : Source(n) = candidates[1 + (rank[n] % L)]
  BY DEF SourceImage
<1>6. DOMAIN rank = ofType /\ rank = [n \in ofType |-> rank[n]]
  OBVIOUS
<1> HIDE DEF rank, Source, pool, candidates
<1>7. number \in [ofType -> Int] /\ \A m, n \in ofType : number[m] = number[n] => m = n
  BY <1>2
<1> HIDE DEF number, ofType
<1>8. Ranking(ofType, [n \in ofType |-> Cardinality(Before(ofType, number, n))])
  BY <1>2, <1>7, RanksNumber
<1>9. Ranking(ofType, rank)
  <2>1. rank = [n \in ofType |-> Cardinality(Before(ofType, number, n))]
    BY <1>4, <1>6
  <2> QED
    BY <1>8, <2>1
<1>10. ASSUME NEW n \in ofType
       PROVE  Source(n) \in pool
  <2>1. Cardinality(ofType) \in Nat /\ rank[n] \in 0..Cardinality(ofType) - 1
    BY <1>2, <1>9, FS_CardinalityType DEF Ranking
  <2>2. rank[n] \in Nat
    BY <2>1
  <2>3. 1 + (rank[n] % L) \in 1..L
    BY <1>3, <2>2, Remainder
  <2> QED
    BY <1>3, <1>5, <2>3
<1>11. ASSUME NEW i \in pool, NEW j \in pool
       PROVE  Cardinality({n \in ofType : Source(n) = i})
                <= Cardinality({n \in ofType : Source(n) = j}) + 1
  <2>1. Cardinality({n \in ofType : candidates[1 + (rank[n] % L)] = i})
          <= Cardinality({n \in ofType : candidates[1 + (rank[n] % L)] = j}) + 1
    <3> HIDE DEF L
    <3> QED
      BY <1>2, <1>3, <1>9, TakenInTurn
  <2>2. \A h : {n \in ofType : Source(n) = h} = {n \in ofType : candidates[1 + (rank[n] % L)] = h}
    BY <1>5, Zenon
  <2> QED
    BY <2>1, <2>2, Zenon
<1> QED
  BY <1>10, <1>11 DEF ofType, Source, pool

\* An image of a request that was recorded is answered by its own results, the
\* others in turn by recorded images of their type (fixture.py:288-374).
THEOREM AnswersSpread == Spec => []AnswersAreSpread
<1>1. ReturnedIs => AnswersAreSpread
  <2> SUFFICES ASSUME ReturnedIs, Returned("answer"), Loads(task.fixture)
               PROVE  AnswersAreSpread
    BY DEF AnswersAreSpread
  <2> DEFINE f == task.fixture
             request == task.request
             entry == CHOOSE e \in f.index : TRUE
             own == OwnImages(f, entry)
             others == {n \in DOMAIN request : ~ IsRecorded(entry, request[n])}
             Source(n) == SourceImage(f, entry, request, n)
             Pool(t) == PoolOf(f, entry, t)
             Uses(source, t, i) ==
                Cardinality({n \in others : request[n].type = t /\ source[n] = i})
  <2>1. task \in Tasks /\ task.tool = "answer" /\ result = build_callback(f, entry, request)
        /\ result # Missing
    BY DEF ReturnedIs, Returned
  <2>2. IsRecording(f) /\ request \in Seq({request[n] : n \in DOMAIN request})
    BY <2>1, RecordingsAssumption DEF IsRecording
  <2>3. entry \in f.index
    BY DEF Loads
  <2>4. result.results = [n \in DOMAIN request |-> image_result(f, Source(n))]
    BY <2>1 DEF build_callback
  <2> HIDE DEF f, request, entry, Source
  <2>5. DOMAIN request = 1..Len(request) /\ Len(request) \in Nat
    BY <2>2
  <2>6. /\ \A n \in DOMAIN request : result.results[n] = image_result(f, Source(n))
        /\ Len(result.results) = Len(request)
    BY <2>4, <2>5
  <2>7. ASSUME NEW n \in DOMAIN request \ others
        PROVE  \E i \in own : /\ f.images[i].key = request[n].key
                              /\ result.results[n] = image_result(f, i)
    <3>1. request[n].key \in Keys(f, own) /\ IsRecorded(entry, request[n])
      BY <2>2, <2>3, KeysOfImages DEF IsRecorded
    <3>2. \E i \in own : f.images[i].key = request[n].key
      BY <3>1 DEF Keys
    <3>3. Source(n) \in own /\ f.images[Source(n)].key = request[n].key
      BY <3>1, <3>2 DEF Source, SourceImage, OwnImages
    <3> QED
      BY <2>6, <3>3
  <2> DEFINE source == [n \in others |-> Source(n)]
  <2>8. ASSUME NEW t
        PROVE  /\ \A n \in others : request[n].type = t => Source(n) \in Pool(t)
               /\ \A i, j \in Pool(t) : Uses(source, t, i) <= Uses(source, t, j) + 1
    <3> DEFINE ofType == {n \in others : request[n].type = t}
    <3>1. /\ \A n \in ofType : Source(n) \in Pool(t)
          /\ \A i, j \in Pool(t) : Cardinality({n \in ofType : Source(n) = i})
                                    <= Cardinality({n \in ofType : Source(n) = j}) + 1
      BY <2>2, <2>3, SourcesTakeTurns DEF Source
    <3>2. ASSUME NEW i
          PROVE  {n \in ofType : Source(n) = i}
                    = {n \in others : request[n].type = t /\ source[n] = i}
      <4> HIDE DEF others
      <4> QED
        OBVIOUS
    <3> QED
      BY <3>1, <3>2, Zenon
  <2>9. \A t : Pool(t) \subseteq own
    BY <2>2, <2>3, CandidatesAre
  <2>10. source \in [others -> own]
    <3>1. \A n \in others : Source(n) \in own
      BY <2>8, <2>9
    <3> HIDE DEF others, own
    <3> QED
      BY <3>1
  <2>11. \A n \in others :
            LET t == request[n].type
            IN  /\ source[n] \in Pool(t)
                /\ result.results[n] = image_result(f, source[n])
                /\ \A i, j \in Pool(t) : Uses(source, t, i) <= Uses(source, t, j) + 1
    <3> SUFFICES ASSUME NEW n \in others
                 PROVE  LET t == request[n].type
                        IN  /\ source[n] \in Pool(t)
                            /\ result.results[n] = image_result(f, source[n])
                            /\ \A i, j \in Pool(t) :
                                  Uses(source, t, i) <= Uses(source, t, j) + 1
      OBVIOUS
    <3>1. source[n] = Source(n) /\ n \in DOMAIN request
      OBVIOUS
    <3> HIDE DEF source, others, Uses, Pool
    <3> QED
      BY <2>6, <2>8, <3>1
  <2> HIDE DEF source
  <2>12. \E s \in [others -> own] :
            \A n \in others :
               LET t == request[n].type
               IN  /\ s[n] \in Pool(t)
                   /\ result.results[n] = image_result(f, s[n])
                   /\ \A i, j \in Pool(t) : Uses(s, t, i) <= Uses(s, t, j) + 1
    BY <2>10, <2>11
  <2> QED
    BY <2>6, <2>7, <2>12, Zenon
       DEF AnswersAreSpread, OwnImages, PoolOf, f, request, entry
<1> QED
  BY <1>1, CallsReturn, PTL

(***************************************************************************)
(* Ascending order, and the least of some places.                          *)
(***************************************************************************)

\* The keys of a set put in order increase.
LEMMA SortedGrows ==
    ASSUME NEW S, IsFiniteSet(S), NEW key \in [S -> Int],
           \A x, y \in S : key[x] = key[y] => x = y,
           NEW m \in 1..Cardinality(S), NEW n \in 1..Cardinality(S), m < n
    PROVE  key[sorted(S, key)[m]] < key[sorted(S, key)[n]]
<1> DEFINE sequence == sorted(S, key)
           Rank(x) == Cardinality(Before(S, key, x))
<1>1. /\ Cardinality(S) \in Nat
      /\ \A k \in 1..Cardinality(S) : \E x \in S : Rank(x) = k - 1
      /\ \A x \in S : Rank(x) \in 0..Cardinality(S) - 1
  BY Ranks, FS_CardinalityType
<1>2. sequence = [k \in 1..Cardinality(S) |-> CHOOSE x \in S : Rank(x) = k - 1]
  BY DEF sorted, Before
<1>3. \A x, y \in S : key[x] <= key[y] => Rank(x) <= Rank(y)
  <2> SUFFICES ASSUME NEW x \in S, NEW y \in S, key[x] <= key[y]
               PROVE  Rank(x) <= Rank(y)
    OBVIOUS
  <2>1. Before(S, key, x) \subseteq Before(S, key, y)
    <3> SUFFICES ASSUME NEW z \in S, key[z] < key[x] PROVE key[z] < key[y]
      BY DEF Before
    <3>1. key[x] \in Int /\ key[y] \in Int /\ key[z] \in Int
      OBVIOUS
    <3> QED
      BY <3>1
  <2>2. IsFiniteSet(Before(S, key, y))
    <3>1. Before(S, key, y) \subseteq S
      BY DEF Before
    <3> QED
      BY <3>1, FS_Subset
  <2> QED
    BY <2>1, <2>2, FS_Subset
<1> HIDE DEF Rank, sequence
<1>4. \A k \in 1..Cardinality(S) : sequence[k] \in S /\ Rank(sequence[k]) = k - 1
  BY <1>1, <1>2
<1>5. sequence[m] \in S /\ Rank(sequence[m]) = m - 1 /\ sequence[n] \in S /\ Rank(sequence[n]) = n - 1
  BY <1>4
<1>6. ~ (key[sequence[n]] <= key[sequence[m]])
  <2> SUFFICES ASSUME key[sequence[n]] <= key[sequence[m]] PROVE FALSE
    OBVIOUS
  <2>1. Rank(sequence[n]) <= Rank(sequence[m])
    BY <1>3, <1>5
  <2> QED
    BY <1>1, <1>5, <2>1
<1>7. key[sequence[m]] \in Int /\ key[sequence[n]] \in Int
  BY <1>5
<1>8. key[sequence[m]] < key[sequence[n]]
  BY <1>6, <1>7
<1> QED
  BY <1>8 DEF sequence

\* Every member has a place.
LEMMA SortedReaches ==
    ASSUME NEW S, IsFiniteSet(S), NEW key \in [S -> Int],
           \A x, y \in S : key[x] = key[y] => x = y
    PROVE  \A x \in S : \E n \in 1..Cardinality(S) : sorted(S, key)[n] = x
  BY Sorted

\* Numbers in ascending order.
LEMMA Ascending ==
    ASSUME NEW S, IsFiniteSet(S), S \subseteq Int
    PROVE  LET sequence == ascending(S)
           IN  /\ sequence \in Seq(S) /\ Len(sequence) \in Nat
               /\ DOMAIN sequence = 1..Len(sequence)
               /\ \A n \in 1..Len(sequence) : sequence[n] \in S
               /\ \A m, n \in 1..Len(sequence) : m < n => sequence[m] < sequence[n]
               /\ \A x \in S : \E n \in 1..Len(sequence) : sequence[n] = x
<1> DEFINE key == [x \in S |-> x]
           sequence == sorted(S, key)
           size == Cardinality(S)
<1>1. /\ key \in [S -> Int] /\ \A x, y \in S : key[x] = key[y] => x = y
      /\ \A x \in S : key[x] = x
  OBVIOUS
<1>4. ascending(S) = sequence
  BY DEF ascending
<1>5. sequence = sorted(S, key)
  OBVIOUS
<1> HIDE DEF key, sequence
<1>2. /\ sequence \in [1..size -> S] /\ sequence \in Seq(S) /\ Len(sequence) = size
      /\ size \in Nat
      /\ \A m, n \in 1..size : sequence[m] = sequence[n] => m = n
      /\ \A x \in S : \E n \in 1..size : sequence[n] = x
  <2>1. key \in [S -> Int]
    BY <1>1
  <2>2. \A x, y \in S : key[x] = key[y] => x = y
    BY <1>1
  <2>3. sequence \in [1..size -> S] /\ sequence \in Seq(S)
    BY <1>5, <2>1, <2>2, Sorted
  <2>4. Len(sequence) = size /\ size \in Nat
    BY <1>5, <2>1, <2>2, Sorted
  <2>5. \A m, n \in 1..size : sequence[m] = sequence[n] => m = n
    BY <1>5, <2>1, <2>2, Sorted
  <2>6. \A x \in S : \E n \in 1..Cardinality(S) : sorted(S, key)[n] = x
    BY <2>1, <2>2, SortedReaches, Zenon
  <2> QED
    BY <1>5, <2>3, <2>4, <2>5, <2>6
<1>3. \A m, n \in 1..size : m < n => key[sequence[m]] < key[sequence[n]]
  BY <1>1, <1>5, SortedGrows
<1> HIDE DEF size
<1>6. \A m, n \in 1..size : m < n => sequence[m] < sequence[n]
  <2> SUFFICES ASSUME NEW m \in 1..size, NEW n \in 1..size, m < n
               PROVE  sequence[m] < sequence[n]
    OBVIOUS
  <2>1. sequence[m] \in S /\ sequence[n] \in S
    BY <1>2
  <2>2. key[sequence[m]] < key[sequence[n]]
    BY <1>3
  <2> QED
    BY <1>1, <2>1, <2>2
<1> QED
  BY <1>2, <1>4, <1>6

\* Places have a least one.
LEMMA LeastPlace ==
    ASSUME NEW T, T \subseteq Nat, T # {}
    PROVE  Min(T) \in T /\ \A y \in T : Min(T) <= y
<1>1. \E x \in T : \A y \in T : x <= y
  BY NaturalNumbers!LeastNumber
<1> QED
  BY <1>1 DEF Min

\* It is the only one.
LEMMA LeastIs ==
    ASSUME NEW T, T \subseteq Nat, NEW x \in T, \A y \in T : x <= y
    PROVE  Min(T) = x
<1>1. Min(T) \in T /\ Min(T) <= x
  BY LeastPlace
<1>2. x <= Min(T) /\ x \in Nat /\ Min(T) \in Nat
  BY <1>1
<1> QED
  BY <1>1, <1>2

(***************************************************************************)
(* What the rows of an image show.                                         *)
(***************************************************************************)

\* What image_result reads: the first of the image's rows, and their defects.
Shows(rows, i, first, defects) ==
    /\ \E n \in DOMAIN rows :
          /\ rows[n].image = i /\ rows[n] = first
          /\ \A m \in DOMAIN rows : rows[m].image = i => n <= m
    /\ {rows[n].defect : n \in {m \in DOMAIN rows : rows[m].image = i}} = defects

Interpreted(first, defects) ==
    LET listed == defects \ {Missing}
    IN  [label |-> IF first.raw = Missing THEN first.label
                   ELSE Or(first.raw.label, first.label),
         defects |-> IF first.raw = Missing THEN listed
                     ELSE Or(first.raw.defects, listed)]

FirstOf(f, i) == f.rows[Min(RowsOf(f, i))]
DefectsOf(f, i) == {f.rows[n].defect : n \in RowsOf(f, i)}

IsSequence(s) == /\ Len(s) \in Nat /\ DOMAIN s = 1..Len(s)
                 /\ s = [n \in 1..Len(s) |-> s[n]]

\* The result of an image is what its rows show.
LEMMA ShownIsResult ==
    ASSUME NEW f, IsSequence(f.rows), NEW i, NEW first, NEW defects,
           Shows(f.rows, i, first, defects)
    PROVE  RowsOf(f, i) # {} /\ image_result(f, i) = Interpreted(first, defects)
<1>1. RowsOf(f, i) = {m \in DOMAIN f.rows : f.rows[m].image = i}
  BY DEF RowsOf
<1>2. PICK n \in DOMAIN f.rows :
        /\ f.rows[n].image = i /\ f.rows[n] = first
        /\ \A m \in DOMAIN f.rows : f.rows[m].image = i => n <= m
  BY DEF Shows
<1>3. RowsOf(f, i) \subseteq Nat /\ n \in RowsOf(f, i) /\ \A m \in RowsOf(f, i) : n <= m
  BY <1>1, <1>2 DEF IsSequence
<1>4. Min(RowsOf(f, i)) = n
  BY <1>3, LeastIs
<1>5. {f.rows[m].defect : m \in RowsOf(f, i)} = defects
  BY <1>1 DEF Shows
<1>6. f.rows[Min(RowsOf(f, i))] = first
  BY <1>2, <1>4
<1> QED
  BY <1>3, <1>5, <1>6 DEF image_result, Interpreted

\* The rows of an image show the first of them and their defects.
LEMMA RowsShow ==
    ASSUME NEW f, IsSequence(f.rows), NEW i, RowsOf(f, i) # {}
    PROVE  /\ Shows(f.rows, i, FirstOf(f, i), DefectsOf(f, i))
           /\ Min(RowsOf(f, i)) \in RowsOf(f, i)
           /\ \A m \in RowsOf(f, i) : Min(RowsOf(f, i)) <= m
<1> DEFINE n == Min(RowsOf(f, i))
<1>1. RowsOf(f, i) \subseteq Nat
  BY DEF RowsOf, IsSequence
<1>2. n \in RowsOf(f, i) /\ \A m \in RowsOf(f, i) : n <= m
  BY <1>1, LeastPlace
<1>3. FirstOf(f, i) = f.rows[n]
  BY DEF FirstOf
<1> HIDE DEF n
<1>4. \E k \in DOMAIN f.rows :
        /\ f.rows[k].image = i /\ f.rows[k] = FirstOf(f, i)
        /\ \A m \in DOMAIN f.rows : f.rows[m].image = i => k <= m
  BY <1>2, <1>3 DEF RowsOf
<1>5. {f.rows[m].defect : m \in {k \in DOMAIN f.rows : f.rows[k].image = i}} = DefectsOf(f, i)
  BY DEF DefectsOf, RowsOf
<1> QED
  BY <1>2, <1>4, <1>5 DEF Shows, n

\* Rows of other images behind the rows of an image make no difference.
LEMMA ShowsBefore ==
    ASSUME NEW rows, IsSequence(rows), NEW more, IsSequence(more),
           NEW i, NEW first, NEW defects,
           Shows(rows, i, first, defects), \A n \in DOMAIN more : more[n].image # i
    PROVE  Shows(rows \o more, i, first, defects)
<1> DEFINE all == rows \o more
           own == {m \in DOMAIN rows : rows[m].image = i}
           now == {m \in DOMAIN all : all[m].image = i}
<1>1. /\ DOMAIN all = 1..Len(rows) + Len(more)
      /\ \A n \in DOMAIN rows : n \in DOMAIN all /\ all[n] = rows[n]
      /\ \A n \in DOMAIN all \ DOMAIN rows :
            n - Len(rows) \in DOMAIN more /\ all[n] = more[n - Len(rows)]
  BY DEF IsSequence
<1> HIDE DEF all
<1>2. now = own
  BY <1>1
<1>3. PICK n \in DOMAIN rows :
        /\ rows[n].image = i /\ rows[n] = first
        /\ \A m \in DOMAIN rows : rows[m].image = i => n <= m
  BY DEF Shows
<1>4. \A m \in DOMAIN all : all[m].image = i => n <= m
  BY <1>2, <1>3
<1>5. n \in DOMAIN all /\ all[n].image = i /\ all[n] = first
  BY <1>1, <1>3
<1>6. {all[m].defect : m \in now} = defects
  <2>1. {all[m].defect : m \in now} = {rows[m].defect : m \in own}
    BY <1>1, <1>2
  <2> QED
    BY <2>1 DEF Shows
<1> QED
  BY <1>4, <1>5, <1>6 DEF Shows, all

\* Nor before them.
LEMMA ShowsBehind ==
    ASSUME NEW rows, IsSequence(rows), NEW more, IsSequence(more),
           NEW i, NEW first, NEW defects,
           Shows(more, i, first, defects), \A n \in DOMAIN rows : rows[n].image # i
    PROVE  Shows(rows \o more, i, first, defects)
<1> DEFINE all == rows \o more
           L == Len(rows)
           own == {m \in DOMAIN more : more[m].image = i}
           now == {m \in DOMAIN all : all[m].image = i}
<1>1. /\ DOMAIN all = 1..L + Len(more) /\ L \in Nat
      /\ \A n \in DOMAIN rows : n \in DOMAIN all /\ all[n] = rows[n]
      /\ \A n \in DOMAIN more : n + L \in DOMAIN all /\ all[n + L] = more[n]
      /\ \A n \in DOMAIN all \ DOMAIN rows :
            n - L \in DOMAIN more /\ all[n] = more[n - L] /\ n = (n - L) + L
      /\ \A n \in DOMAIN more : n \in Nat
  BY DEF IsSequence
<1> HIDE DEF all, L
<1>2. \A n \in now : n - L \in own /\ all[n] = more[n - L] /\ n = (n - L) + L /\ n \in Int
  BY <1>1
<1>3. \A n \in own : n + L \in now /\ all[n + L] = more[n]
  BY <1>1
<1>4. PICK n \in DOMAIN more :
        /\ more[n].image = i /\ more[n] = first
        /\ \A m \in DOMAIN more : more[m].image = i => n <= m
  BY DEF Shows
<1>5. n + L \in DOMAIN all /\ all[n + L].image = i /\ all[n + L] = first
  BY <1>1, <1>4
<1>6. \A m \in DOMAIN all : all[m].image = i => n + L <= m
  <2> SUFFICES ASSUME NEW m \in now PROVE n + L <= m
    OBVIOUS
  <2>1. n <= m - L
    BY <1>2, <1>4
  <2> QED
    BY <1>1, <1>2, <2>1
<1>7. {all[m].defect : m \in now} = {more[m].defect : m \in own}
  <2>1. \A m \in now : all[m].defect \in {more[k].defect : k \in own}
    BY <1>2
  <2>2. \A m \in own : more[m].defect \in {all[k].defect : k \in now}
    BY <1>3
  <2> HIDE DEF now, own
  <2> QED
    BY <2>1, <2>2
<1>8. {more[m].defect : m \in own} = defects
  BY DEF Shows
<1>9. {all[m].defect : m \in now} = defects
  BY <1>7, <1>8
<1> QED
  BY <1>5, <1>6, <1>9 DEF Shows, all

(***************************************************************************)
(* The rows of one inspection afterwards.                                  *)
(***************************************************************************)

\* Of a rebalance task's fixture, what FixturesAssumption says.
IsFixture(f) ==
    /\ f = export_fixture(f.inspections, f.images, f.rows)
    /\ IsFiniteSet(DOMAIN f.images)
    /\ DOMAIN f.images \subseteq Int /\ Missing \notin DOMAIN f.images
    /\ \A id \in DOMAIN f.inspections :
          DOMAIN f.inspections[id] = {"cell", "type", "status", "final", "failure"}
    /\ f.rows \in Seq({f.rows[n] : n \in DOMAIN f.rows})
    /\ \A n \in DOMAIN f.rows :
          /\ DOMAIN f.rows[n] = {"inspection", "image", "label", "defect", "raw"}
          /\ f.rows[n].inspection \in DOMAIN f.inspections
          /\ f.rows[n].image # Missing =>
                /\ f.rows[n].image \in DOMAIN f.images
                /\ f.images[f.rows[n].image].inspection = f.rows[n].inspection
          /\ f.rows[n].raw # Missing /\ f.rows[n].label = "PASS" /\ f.rows[n].defect = Missing =>
                /\ f.rows[n].raw.label \in {Missing, "PASS"}
                /\ f.rows[n].raw.defects \in {Missing, {}}

\* What the rows of a tool's output show of an image, by the fate of its inspection.
ShowsAfter(f, fate, i, rows) ==
    CASE fate = "fail" -> Shows(rows, i, clean_result(FirstOf(f, i), "FAIL"), {Missing})
      [] fate = "pass" -> Shows(rows, i, clean_result(FirstOf(f, i), "PASS"), {Missing})
      [] OTHER -> Shows(rows, i, FirstOf(f, i), DefectsOf(f, i))

OfInspection(f, id) == {i \in DOMAIN f.images : f.images[i].inspection = id}

\* A clean row is one of its image, without a defect.
LEMMA CleanRow ==
    ASSUME NEW row, DOMAIN row = {"inspection", "image", "label", "defect", "raw"}, NEW label
    PROVE  LET clean == clean_result(row, label)
           IN  /\ clean.image = row.image /\ clean.defect = Missing
               /\ clean.label = label /\ clean.raw = [label |-> label, defects |-> {}]
  BY DEF clean_result, patch_raw_response

\* Where the rows of an inspection and of its images are.
LEMMA PlacesOfInspection ==
    ASSUME NEW f, IsFixture(f), NEW id
    PROVE  /\ IsSequence(f.rows)
           /\ RowsOfInspection(f, id) \subseteq DOMAIN f.rows
           /\ RowsOfInspection(f, id) \subseteq Nat
           /\ IsFiniteSet(RowsOfInspection(f, id))
           /\ \A i \in OfInspection(f, id) :
                 RowsOf(f, i) = {n \in RowsOfInspection(f, id) : f.rows[n].image = i}
<1>1. IsSequence(f.rows)
  BY DEF IsFixture, IsSequence
<1>2. RowsOfInspection(f, id) \subseteq DOMAIN f.rows
  BY DEF RowsOfInspection
<1>3. RowsOfInspection(f, id) \subseteq Nat
  BY <1>1, <1>2 DEF IsSequence
<1>4. IsFiniteSet(RowsOfInspection(f, id))
  <2>1. IsFiniteSet(1..Len(f.rows)) /\ DOMAIN f.rows = 1..Len(f.rows)
    BY <1>1, FS_Interval DEF IsSequence
  <2> QED
    BY <1>2, <2>1, FS_Subset
<1>5. ASSUME NEW i \in OfInspection(f, id)
      PROVE  RowsOf(f, i) = {n \in RowsOfInspection(f, id) : f.rows[n].image = i}
  <2>1. i \in DOMAIN f.images /\ f.images[i].inspection = id /\ i # Missing
    BY DEF OfInspection, IsFixture
  <2>2. \A n \in RowsOf(f, i) : n \in RowsOfInspection(f, id) /\ f.rows[n].image = i
    BY <2>1 DEF RowsOf, RowsOfInspection, IsFixture
  <2>3. \A n \in RowsOfInspection(f, id) : f.rows[n].image = i => n \in RowsOf(f, i)
    BY DEF RowsOf, RowsOfInspection
  <2> QED
    BY <2>2, <2>3
<1> QED
  BY <1>1, <1>2, <1>3, <1>4, <1>5

\* Rows that are kept show what they showed.
LEMMA KeptRowsShow ==
    ASSUME NEW f, IsFixture(f), NEW id
    PROVE  LET kept == ascending(RowsOfInspection(f, id))
               block == [k \in DOMAIN kept |-> f.rows[kept[k]]]
           IN  /\ IsSequence(block)
               /\ \A n \in DOMAIN block :
                     block[n].image = Missing \/ block[n].image \in OfInspection(f, id)
               /\ \A i \in OfInspection(f, id) : RowsOf(f, i) # {} =>
                     Shows(block, i, FirstOf(f, i), DefectsOf(f, i))
<1> DEFINE places == RowsOfInspection(f, id)
           kept == ascending(places)
           block == [k \in DOMAIN kept |-> f.rows[kept[k]]]
<1>1. /\ IsSequence(f.rows) /\ places \subseteq DOMAIN f.rows
      /\ places \subseteq Nat /\ IsFiniteSet(places) /\ places \subseteq Int
      /\ \A i \in OfInspection(f, id) : RowsOf(f, i) = {n \in places : f.rows[n].image = i}
  BY PlacesOfInspection
<1>2. /\ Len(kept) \in Nat /\ DOMAIN kept = 1..Len(kept)
      /\ \A n \in 1..Len(kept) : kept[n] \in places
      /\ \A m, n \in 1..Len(kept) : m < n => kept[m] < kept[n]
      /\ \A x \in places : \E n \in 1..Len(kept) : kept[n] = x
  <2> HIDE DEF places
  <2> QED
    BY <1>1, Ascending
<1>3. \A n \in places : f.rows[n].image = Missing \/ f.rows[n].image \in OfInspection(f, id)
  BY DEF RowsOfInspection, OfInspection, IsFixture
<1> HIDE DEF places, kept
<1>4. IsSequence(block)
  BY <1>2 DEF IsSequence
<1>5. \A n \in DOMAIN block :
         block[n].image = Missing \/ block[n].image \in OfInspection(f, id)
  BY <1>2, <1>3
<1>6. ASSUME NEW i \in OfInspection(f, id), RowsOf(f, i) # {}
      PROVE  Shows(block, i, FirstOf(f, i), DefectsOf(f, i))
  <2> DEFINE least == Min(RowsOf(f, i))
             own == {m \in DOMAIN block : block[m].image = i}
  <2>1. least \in RowsOf(f, i) /\ \A m \in RowsOf(f, i) : least <= m
    BY <1>1, <1>6, RowsShow
  <2>2. FirstOf(f, i) = f.rows[least]
    BY DEF FirstOf
  <2> HIDE DEF least
  <2>3. PICK n \in 1..Len(kept) : kept[n] = least
    BY <1>1, <1>2, <2>1
  <2>4. n \in DOMAIN block /\ block[n] = FirstOf(f, i) /\ block[n].image = i
    BY <1>1, <1>2, <2>1, <2>2, <2>3
  <2>5. \A m \in own : kept[m] \in RowsOf(f, i) /\ block[m] = f.rows[kept[m]] /\ m \in 1..Len(kept)
    BY <1>1, <1>2
  <2>6. \A m \in own : n <= m
    <3> SUFFICES ASSUME NEW m \in own, m < n PROVE FALSE
      BY <1>2, <2>5
    <3>1. kept[m] < least /\ least <= kept[m] /\ kept[m] \in Nat /\ least \in Nat
      BY <1>1, <1>2, <2>1, <2>3, <2>5
    <3> QED
      BY <3>1
  <2>7. \A x \in RowsOf(f, i) : \E m \in own : block[m] = f.rows[x]
    BY <1>1, <1>2
  <2>8. {block[m].defect : m \in own} = DefectsOf(f, i)
    <3>1. \A m \in own : block[m].defect \in DefectsOf(f, i)
      BY <2>5 DEF DefectsOf
    <3>2. \A d \in DefectsOf(f, i) : d \in {block[m].defect : m \in own}
      BY <2>7 DEF DefectsOf
    <3> HIDE DEF own, block
    <3> QED
      BY <3>1, <3>2
  <2> HIDE DEF block
  <2> QED
    BY <2>4, <2>6, <2>8 DEF Shows
<1> QED
  BY <1>4, <1>5, <1>6 DEF block, kept, places

\* Rows that are replaced show a clean image.
LEMMA ReplacedRowsShow ==
    ASSUME NEW f, IsFixture(f), NEW id, NEW label,
           Missing \notin ImagesAt(f, RowsOfInspection(f, id))
    PROVE  LET block == replace_inspection_results(f, RowsOfInspection(f, id), label)
           IN  /\ IsSequence(block)
               /\ \A n \in DOMAIN block : block[n].image \in OfInspection(f, id)
               /\ \A i \in OfInspection(f, id) : RowsOf(f, i) # {} =>
                     Shows(block, i, clean_result(FirstOf(f, i), label), {Missing})
<1> DEFINE places == RowsOfInspection(f, id)
           images == ascending(ImagesAt(f, places))
           block == replace_inspection_results(f, places, label)
<1>1. /\ IsSequence(f.rows) /\ places \subseteq DOMAIN f.rows
      /\ places \subseteq Nat /\ IsFiniteSet(places)
      /\ \A i \in OfInspection(f, id) : RowsOf(f, i) = {n \in places : f.rows[n].image = i}
  BY PlacesOfInspection
<1>2. ImagesAt(f, places) \subseteq OfInspection(f, id)
  BY DEF ImagesAt, RowsOfInspection, OfInspection, IsFixture
<1>3. OfInspection(f, id) \subseteq Int /\ IsFiniteSet(OfInspection(f, id))
  BY FS_Subset DEF OfInspection, IsFixture
<1> HIDE DEF places
<1>4. ImagesAt(f, places) \subseteq Int /\ IsFiniteSet(ImagesAt(f, places))
  BY <1>2, <1>3, FS_Subset
<1>5. /\ Len(images) \in Nat /\ DOMAIN images = 1..Len(images)
      /\ \A n \in 1..Len(images) : images[n] \in ImagesAt(f, places)
      /\ \A m, n \in 1..Len(images) : m < n => images[m] < images[n]
      /\ \A x \in ImagesAt(f, places) : \E n \in 1..Len(images) : images[n] = x
  BY <1>4, Ascending
<1>6. block = [n \in DOMAIN images |->
         clean_result(f.rows[Min({m \in places : f.rows[m].image = images[n]})], label)]
  BY DEF replace_inspection_results
<1> HIDE DEF images, block
<1>7. \A i \in ImagesAt(f, places) : RowsOf(f, i) # {}
  BY <1>1, <1>2 DEF ImagesAt
<1>8. \A n \in 1..Len(images) :
         images[n] \in OfInspection(f, id) /\ RowsOf(f, images[n]) # {}
  BY <1>2, <1>5, <1>7
<1>9. ASSUME NEW i \in OfInspection(f, id), RowsOf(f, i) # {}
      PROVE  /\ DOMAIN FirstOf(f, i) = {"inspection", "image", "label", "defect", "raw"}
             /\ FirstOf(f, i).image = i
  <2>1. Min(RowsOf(f, i)) \in RowsOf(f, i)
    BY <1>1, <1>9, RowsShow
  <2> QED
    BY <2>1 DEF FirstOf, RowsOf, IsFixture
<1>10. ASSUME NEW n \in 1..Len(images)
       PROVE  /\ block[n] = clean_result(FirstOf(f, images[n]), label)
              /\ block[n].image = images[n] /\ block[n].defect = Missing
  <2>1. RowsOf(f, images[n]) = {m \in places : f.rows[m].image = images[n]}
    BY <1>1, <1>8
  <2>2. block[n] = clean_result(FirstOf(f, images[n]), label)
    BY <1>5, <1>6, <2>1 DEF FirstOf
  <2> DEFINE first == FirstOf(f, images[n])
  <2>3. /\ DOMAIN first = {"inspection", "image", "label", "defect", "raw"}
        /\ first.image = images[n]
    BY <1>8, <1>9
  <2> HIDE DEF first
  <2>4. /\ clean_result(first, label).image = images[n]
        /\ clean_result(first, label).defect = Missing
    BY <2>3, CleanRow
  <2> QED
    BY <2>2, <2>4 DEF first
<1>11. DOMAIN block = 1..Len(images) /\ Len(block) = Len(images) /\ IsSequence(block)
  <2>1. DOMAIN block = 1..Len(images)
    BY <1>5, <1>6
  <2>2. Len(block) = Len(images)
    BY <1>5, <2>1
  <2>3. block = [n \in 1..Len(images) |-> block[n]]
    BY <1>5, <1>6
  <2> QED
    BY <1>5, <2>1, <2>2, <2>3 DEF IsSequence
<1>12. ASSUME NEW i \in OfInspection(f, id), RowsOf(f, i) # {}
       PROVE  Shows(block, i, clean_result(FirstOf(f, i), label), {Missing})
  <2>1. i \in ImagesAt(f, places)
    BY <1>1, <1>12 DEF ImagesAt
  <2>2. PICK n \in 1..Len(images) : images[n] = i
    BY <1>5, <2>1
  <2>3. \A m \in 1..Len(images) : images[m] = i => m = n
    <3> SUFFICES ASSUME NEW m \in 1..Len(images), images[m] = i, m # n PROVE FALSE
      OBVIOUS
    <3>1. images[m] < images[n] \/ images[n] < images[m]
      BY <1>5
    <3>2. images[m] \in Int
      BY <1>4, <1>5
    <3> QED
      BY <2>2, <3>1, <3>2
  <2>4. \A m \in DOMAIN block : block[m].image = i <=> m = n
    BY <1>10, <1>11, <2>2, <2>3
  <2>5. {block[m].defect : m \in {k \in DOMAIN block : block[k].image = i}} = {Missing}
    BY <1>10, <1>11, <2>2, <2>4
  <2> QED
    BY <1>10, <1>11, <2>2, <2>4, <2>5 DEF Shows
<1> QED
  BY <1>2, <1>5, <1>10, <1>11, <1>12 DEF block, places

\* What becomes of an inspection.
LEMMA FatesAre ==
    ASSUME NEW f, NEW target, NEW failType, NEW id
    PROVE  Fate(f, target, failType, id) \in {"keep", "fail", "pass"}
  BY DEF Fate

\* The rows an inspection has afterwards are of its images, and show them as its fate
\* wants it.
LEMMA ReplacementShows ==
    ASSUME NEW f, IsFixture(f), NEW target, NEW failType, CanRebalance(f, target, failType),
           NEW id \in DOMAIN f.inspections
    PROVE  LET block == Replacement(f, target, failType, id)
               fate == Fate(f, target, failType, id)
           IN  /\ IsSequence(block)
               /\ \A n \in DOMAIN block :
                     block[n].image = Missing \/ block[n].image \in OfInspection(f, id)
               /\ \A i \in OfInspection(f, id) : RowsOf(f, i) # {} =>
                     ShowsAfter(f, fate, i, block)
<1> DEFINE block == Replacement(f, target, failType, id)
           fate == Fate(f, target, failType, id)
           places == RowsOfInspection(f, id)
<1>1. fate = "keep" \/ Missing \notin ImagesAt(f, places)
  BY DEF CanRebalance
<1>2. fate \in {"keep", "fail", "pass"}
  BY FatesAre
<1>3. CASE fate = "keep"
  <2>1. block = [k \in DOMAIN ascending(places) |-> f.rows[ascending(places)[k]]]
    BY <1>3 DEF Replacement, Picked
  <2>2. \A i : ShowsAfter(f, fate, i, block)
                 <=> Shows(block, i, FirstOf(f, i), DefectsOf(f, i))
    BY <1>3 DEF ShowsAfter
  <2> HIDE DEF fate, block
  <2> QED
    BY <2>1, <2>2, KeptRowsShow DEF block, fate
<1>4. ASSUME NEW label, (fate = "fail" /\ label = "FAIL") \/ (fate = "pass" /\ label = "PASS")
      PROVE  /\ IsSequence(block)
             /\ \A n \in DOMAIN block : block[n].image \in OfInspection(f, id)
             /\ \A i \in OfInspection(f, id) : RowsOf(f, i) # {} => ShowsAfter(f, fate, i, block)
  <2>1. block = replace_inspection_results(f, places, label)
    BY <1>4 DEF Replacement
  <2>2. \A i : ShowsAfter(f, fate, i, block)
                 <=> Shows(block, i, clean_result(FirstOf(f, i), label), {Missing})
    BY <1>4 DEF ShowsAfter
  <2>3. Missing \notin ImagesAt(f, places)
    BY <1>1, <1>4
  <2> HIDE DEF fate, block
  <2> QED
    BY <2>1, <2>2, <2>3, ReplacedRowsShow
<1> HIDE DEF fate, block
<1>5. CASE fate = "fail"
  BY <1>5, <1>4 DEF fate, block
<1>6. CASE fate = "pass"
  BY <1>6, <1>4 DEF fate, block
<1> QED
  BY <1>2, <1>3, <1>5, <1>6 DEF fate, block

(***************************************************************************)
(* The rows of all inspections, one after the other.                       *)
(***************************************************************************)

InspectionAt(f, n) == f.rows[ascending(FirstRows(f))[n]].inspection

\* The inspections whose rows come first.
Emitted(f, k) == {InspectionAt(f, n) : n \in 1..k}

StepRows(f, target, failType, v, rows, n) ==
    rows \o Replacement(f, target, failType, f.rows[n].inspection)

HoldsRows(f, target, failType, v, k, rows) ==
    /\ IsSequence(rows)
    /\ \A n \in DOMAIN rows :
          rows[n].image = Missing \/ \E id \in Emitted(f, k) : rows[n].image \in OfInspection(f, id)
    /\ \A id \in Emitted(f, k) : \A i \in OfInspection(f, id) : RowsOf(f, i) # {} =>
          ShowsAfter(f, Fate(f, target, failType, id), i, rows)

Rows == INSTANCE Folding WITH Step <- StepRows, Holds <- HoldsRows

\* Two sequences make one.
LEMMA RowsJoined ==
    ASSUME NEW rows, IsSequence(rows), NEW more, IsSequence(more)
    PROVE  /\ IsSequence(rows \o more)
           /\ \A n \in DOMAIN (rows \o more) :
                 \/ n \in DOMAIN rows /\ (rows \o more)[n] = rows[n]
                 \/ n - Len(rows) \in DOMAIN more /\ (rows \o more)[n] = more[n - Len(rows)]
<1> DEFINE all == rows \o more
           U == {rows[n] : n \in DOMAIN rows} \cup {more[n] : n \in DOMAIN more}
<1>1. rows \in Seq(U) /\ more \in Seq(U)
  <2>1. /\ \A n \in 1..Len(rows) : rows[n] \in U
        /\ \A n \in 1..Len(more) : more[n] \in U
    BY DEF IsSequence
  <2> HIDE DEF U
  <2>2. rows \in [1..Len(rows) -> U] /\ more \in [1..Len(more) -> U]
    BY <2>1 DEF IsSequence
  <2> QED
    BY <2>2 DEF IsSequence
<1> HIDE DEF U
<1>2. all \in Seq(U) /\ Len(all) = Len(rows) + Len(more)
  BY <1>1
<1>3. /\ DOMAIN all = 1..Len(rows) + Len(more)
      /\ \A n \in 1..Len(rows) : all[n] = rows[n]
      /\ \A n \in DOMAIN all \ (1..Len(rows)) :
            n - Len(rows) \in 1..Len(more) /\ all[n] = more[n - Len(rows)]
  BY <1>1 DEF IsSequence
<1> HIDE DEF all
<1>4. IsSequence(all)
  BY <1>2 DEF IsSequence
<1>5. \A n \in DOMAIN all :
         \/ n \in DOMAIN rows /\ all[n] = rows[n]
         \/ n - Len(rows) \in DOMAIN more /\ all[n] = more[n - Len(rows)]
  BY <1>3 DEF IsSequence
<1> QED
  BY <1>4, <1>5 DEF all

\* The first rows of the inspections, in order: every inspection that has rows, once.
LEMMA FirstRowsAre ==
    ASSUME NEW f, IsFixture(f)
    PROVE  LET order == ascending(FirstRows(f))
           IN  /\ order \in Seq(FirstRows(f)) /\ Len(order) \in Nat
               /\ \A k \in 1..Len(order) :
                     /\ order[k] \in DOMAIN f.rows
                     /\ InspectionAt(f, k) \in DOMAIN f.inspections
                     /\ InspectionAt(f, k) \notin Emitted(f, k - 1)
                     /\ Emitted(f, k) = Emitted(f, k - 1) \cup {InspectionAt(f, k)}
               /\ Emitted(f, 0) = {}
               /\ \A id : RowsOfInspection(f, id) # {} => id \in Emitted(f, Len(order))
<1> DEFINE order == ascending(FirstRows(f))
<1>1. IsSequence(f.rows)
  BY PlacesOfInspection
<1>2. FirstRows(f) \subseteq DOMAIN f.rows /\ FirstRows(f) \subseteq Nat
      /\ FirstRows(f) \subseteq Int /\ IsFiniteSet(FirstRows(f))
  <2>1. FirstRows(f) \subseteq DOMAIN f.rows
    BY DEF FirstRows
  <2>2. DOMAIN f.rows = 1..Len(f.rows) /\ Len(f.rows) \in Nat
    BY <1>1 DEF IsSequence
  <2>3. DOMAIN f.rows \subseteq Nat /\ IsFiniteSet(1..Len(f.rows))
    BY <2>2, FS_Interval
  <2> QED
    BY <2>1, <2>2, <2>3, FS_Subset
<1>3. /\ order \in Seq(FirstRows(f)) /\ Len(order) \in Nat
      /\ \A n \in 1..Len(order) : order[n] \in FirstRows(f)
      /\ \A m, n \in 1..Len(order) : m < n => order[m] < order[n]
      /\ \A x \in FirstRows(f) : \E n \in 1..Len(order) : order[n] = x
  BY <1>2, Ascending
<1>4. \A k : InspectionAt(f, k) = f.rows[order[k]].inspection
  BY DEF InspectionAt
<1> HIDE DEF order
<1>5. ASSUME NEW k \in 1..Len(order)
      PROVE  /\ order[k] \in DOMAIN f.rows
             /\ InspectionAt(f, k) \in DOMAIN f.inspections
             /\ InspectionAt(f, k) \notin Emitted(f, k - 1)
             /\ Emitted(f, k) = Emitted(f, k - 1) \cup {InspectionAt(f, k)}
  <2>1. order[k] \in DOMAIN f.rows /\ order[k] \in FirstRows(f)
    BY <1>2, <1>3
  <2>2. InspectionAt(f, k) \in DOMAIN f.inspections
    BY <1>4, <2>1 DEF IsFixture
  <2>3. ASSUME NEW m \in 1..k - 1
        PROVE  InspectionAt(f, m) # InspectionAt(f, k)
    <3>1. m \in 1..Len(order) /\ m < k
      BY <1>3
    <3>2. order[m] < order[k] /\ order[m] \in DOMAIN f.rows
      BY <1>2, <1>3, <3>1
    <3> QED
      BY <1>4, <2>1, <3>2 DEF FirstRows
  <2>4. 1..k = (1..k - 1) \cup {k}
    OBVIOUS
  <2> QED
    BY <2>1, <2>2, <2>3, <2>4 DEF Emitted
<1>6. Emitted(f, 0) = {}
  BY DEF Emitted
<1>7. ASSUME NEW id, RowsOfInspection(f, id) # {}
      PROVE  id \in Emitted(f, Len(order))
  <2> DEFINE first == Min(RowsOfInspection(f, id))
  <2>1. RowsOfInspection(f, id) \subseteq Nat
    BY PlacesOfInspection
  <2>2. first \in RowsOfInspection(f, id) /\ \A n \in RowsOfInspection(f, id) : first <= n
    BY <1>7, <2>1, LeastPlace
  <2> HIDE DEF first
  <2>3. first \in DOMAIN f.rows /\ f.rows[first].inspection = id /\ first \in Nat
    BY <2>1, <2>2 DEF RowsOfInspection
  <2>4. \A m \in DOMAIN f.rows : m < first => f.rows[m].inspection # id
    <3> SUFFICES ASSUME NEW m \in DOMAIN f.rows, m < first, f.rows[m].inspection = id
                 PROVE  FALSE
      OBVIOUS
    <3>1. m \in RowsOfInspection(f, id) /\ m \in Nat
      BY <1>1 DEF RowsOfInspection, IsSequence
    <3> QED
      BY <2>2, <2>3, <3>1
  <2>5. first \in FirstRows(f)
    BY <2>3, <2>4 DEF FirstRows
  <2>6. PICK n \in 1..Len(order) : order[n] = first
    BY <1>3, <2>5
  <2> QED
    BY <1>4, <2>3, <2>6 DEF Emitted
<1> QED
  BY <1>3, <1>5, <1>6, <1>7 DEF order

\* The rows of all inspections together show of every image what its fate wants.
LEMMA AllRowsShow ==
    ASSUME NEW f, IsFixture(f), NEW target, NEW failType, CanRebalance(f, target, failType)
    PROVE  LET order == ascending(FirstRows(f))
               rows == Rows!Folded(f, target, failType, 0, << >>, order)
           IN  /\ IsSequence(rows)
               /\ \A id \in DOMAIN f.inspections : \A i \in OfInspection(f, id) :
                     RowsOf(f, i) # {} => ShowsAfter(f, Fate(f, target, failType, id), i, rows)
<1> DEFINE order == ascending(FirstRows(f))
           rows == Rows!Folded(f, target, failType, 0, << >>, order)
           Holds(k, r) == HoldsRows(f, target, failType, 0, k, r)
<1>1. /\ order \in Seq(FirstRows(f)) /\ Len(order) \in Nat
      /\ \A k \in 1..Len(order) :
            /\ order[k] \in DOMAIN f.rows
            /\ InspectionAt(f, k) \in DOMAIN f.inspections
            /\ InspectionAt(f, k) \notin Emitted(f, k - 1)
            /\ Emitted(f, k) = Emitted(f, k - 1) \cup {InspectionAt(f, k)}
      /\ Emitted(f, 0) = {}
      /\ \A id : RowsOfInspection(f, id) # {} => id \in Emitted(f, Len(order))
  BY FirstRowsAre
<1>2. \A k : InspectionAt(f, k) = f.rows[order[k]].inspection
  BY DEF InspectionAt
<1> HIDE DEF order
<1>3. Holds(0, << >>)
  BY <1>1 DEF HoldsRows, IsSequence
<1>4. ASSUME NEW k \in 1..Len(order), NEW r, Holds(k - 1, r)
      PROVE  Holds(k, StepRows(f, target, failType, 0, r, order[k]))
  <2> DEFINE id == InspectionAt(f, k)
             more == Replacement(f, target, failType, id)
             all == r \o more
  <2>1. /\ id \in DOMAIN f.inspections /\ id \notin Emitted(f, k - 1)
        /\ Emitted(f, k) = Emitted(f, k - 1) \cup {id}
    BY <1>1
  <2>2. StepRows(f, target, failType, 0, r, order[k]) = all
    BY <1>2 DEF StepRows
  <2>3. /\ IsSequence(more)
        /\ \A n \in DOMAIN more :
              more[n].image = Missing \/ more[n].image \in OfInspection(f, id)
        /\ \A i \in OfInspection(f, id) : RowsOf(f, i) # {} =>
              ShowsAfter(f, Fate(f, target, failType, id), i, more)
    BY <2>1, ReplacementShows
  <2>4. /\ IsSequence(r)
        /\ \A n \in DOMAIN r : \/ r[n].image = Missing
                               \/ \E d \in Emitted(f, k - 1) : r[n].image \in OfInspection(f, d)
        /\ \A d \in Emitted(f, k - 1) : \A i \in OfInspection(f, d) : RowsOf(f, i) # {} =>
              ShowsAfter(f, Fate(f, target, failType, d), i, r)
    BY <1>4 DEF HoldsRows
  <2> HIDE DEF more, id
  <2>5. /\ IsSequence(all)
        /\ \A n \in DOMAIN all :
              \/ n \in DOMAIN r /\ all[n] = r[n]
              \/ n - Len(r) \in DOMAIN more /\ all[n] = more[n - Len(r)]
    BY <2>3, <2>4, RowsJoined
  <2>6. \A d, i : i \in OfInspection(f, d) =>
           /\ i # Missing
           /\ \A other : i \in OfInspection(f, other) => other = d
    BY DEF OfInspection, IsFixture
  <2> HIDE DEF all
  <2>7. ASSUME NEW n \in DOMAIN all
        PROVE  \/ all[n].image = Missing
               \/ \E d \in Emitted(f, k) : all[n].image \in OfInspection(f, d)
    <3>1. CASE n \in DOMAIN r /\ all[n] = r[n]
      BY <2>1, <2>4, <3>1
    <3>2. CASE n - Len(r) \in DOMAIN more /\ all[n] = more[n - Len(r)]
      <4>1. all[n].image = Missing \/ all[n].image \in OfInspection(f, id)
        BY <2>3, <3>2
      <4> QED
        BY <2>1, <4>1
    <3> QED
      BY <2>5, <3>1, <3>2
  <2>8. ASSUME NEW d \in Emitted(f, k), NEW i \in OfInspection(f, d), RowsOf(f, i) # {}
        PROVE  ShowsAfter(f, Fate(f, target, failType, d), i, all)
    <3>1. CASE d = id
      <4>1. \A n \in DOMAIN r : r[n].image # i
        BY <2>1, <2>4, <2>6, <3>1
      <4>2. ShowsAfter(f, Fate(f, target, failType, d), i, more)
        BY <2>3, <2>8, <3>1
      <4>3. \A first, defects : Shows(more, i, first, defects) => Shows(all, i, first, defects)
        BY <2>3, <2>4, <4>1, ShowsBehind DEF all
      <4> QED
        BY <4>2, <4>3 DEF ShowsAfter
    <3>2. CASE d \in Emitted(f, k - 1)
      <4>1. \A n \in DOMAIN more : more[n].image # i
        BY <2>1, <2>3, <2>6, <3>2
      <4>2. ShowsAfter(f, Fate(f, target, failType, d), i, r)
        BY <2>4, <2>8, <3>2
      <4>3. \A first, defects : Shows(r, i, first, defects) => Shows(all, i, first, defects)
        BY <2>3, <2>4, <4>1, ShowsBefore DEF all
      <4> QED
        BY <4>2, <4>3 DEF ShowsAfter
    <3> QED
      BY <2>1, <3>1, <3>2
  <2> QED
    BY <2>2, <2>5, <2>7, <2>8 DEF HoldsRows
<1>5. Holds(Len(order), rows)
  <2>1. HoldsRows(f, target, failType, 0, 0, << >>)
    BY <1>3
  <2>2. \A k \in 1..Len(order) : \A r : HoldsRows(f, target, failType, 0, k - 1, r) =>
           HoldsRows(f, target, failType, 0, k, StepRows(f, target, failType, 0, r, order[k]))
    BY <1>4
  <2> QED
    BY <1>1, <2>1, <2>2, Rows!FoldKeeps, SMT
<1> HIDE DEF rows
<1>6. ASSUME NEW id \in DOMAIN f.inspections
      PROVE  id \in Emitted(f, Len(order))
  BY <1>1 DEF CanRebalance
<1> QED
  BY <1>5, <1>6 DEF HoldsRows, rows, order

\* What the tool returns: the same index and images, and inspections and rows by fate.
LEMMA RebalancedIs ==
    ASSUME NEW f, IsFixture(f), NEW target, NEW failType, NEW g,
           g = rebalance_fixture(f, target, failType), g # Refused
    PROVE  /\ CanRebalance(f, target, failType)
           /\ g.index = f.index /\ g.images = f.images
           /\ DOMAIN g.inspections = DOMAIN f.inspections
           /\ \A id \in DOMAIN f.inspections :
                 g.inspections[id] = Rebalanced(f, target, failType, id)
           /\ IsSequence(g.rows)
           /\ \A id \in DOMAIN f.inspections : \A i \in OfInspection(f, id) :
                 RowsOf(f, i) # {} => ShowsAfter(f, Fate(f, target, failType, id), i, g.rows)
<1> DEFINE inspections == [id \in DOMAIN f.inspections |-> Rebalanced(f, target, failType, id)]
           order == ascending(FirstRows(f))
           rows == Rows!Folded(f, target, failType, 0, << >>, order)
           changed == [f EXCEPT !.inspections = inspections, !.rows = rows]
<1>1. g = changed /\ CanRebalance(f, target, failType)
  <2>1. rebalance_fixture(f, target, failType)
          = IF ~ CanRebalance(f, target, failType) THEN Refused
            ELSE IF HowManyBecome([c \in Cells(f) |-> cell_outcome(changed, c)], Cells(f))
                       # HowManyBecome(target, Cells(f)) THEN Refused
            ELSE changed
    BY Zenon DEF rebalance_fixture, StepRows, Rows!Folded, Rows!Iterates,
                 Rows!Unfolds, Rows!Greatest, FoldLeft, MapThenFoldSet, Max
  <2> HIDE DEF changed
  <2> QED
    BY <2>1
<1>2. DOMAIN f = {"index", "inspections", "images", "rows"}
  BY DEF IsFixture, export_fixture
<1>3. /\ IsSequence(rows)
      /\ \A id \in DOMAIN f.inspections : \A i \in OfInspection(f, id) :
            RowsOf(f, i) # {} => ShowsAfter(f, Fate(f, target, failType, id), i, rows)
  BY <1>1, AllRowsShow
<1> HIDE DEF rows
<1>4. /\ g.index = f.index /\ g.images = f.images
      /\ g.inspections = inspections /\ g.rows = rows
  BY <1>1, <1>2
<1> QED
  BY <1>1, <1>3, <1>4

(***************************************************************************)
(* What is served of a rebalanced fixture.                                 *)
(***************************************************************************)

\* An inspection has become what its fate says; what is kept was rejected, or was clean.
LEMMA InspectionsBecome ==
    ASSUME NEW f, IsFixture(f), NEW target, NEW failType, NEW id \in DOMAIN f.inspections
    PROVE  LET fate == Fate(f, target, failType, id)
               before == f.inspections[id]
               after == Rebalanced(f, target, failType, id)
           IN  /\ after.cell = before.cell
               /\ fate = "fail" => /\ after.status = "FAILED" /\ after.final = "FAIL"
                                   /\ after.failure = "AI"
                                   /\ target[before.cell] = "FAIL"
               /\ fate = "pass" => after.status = "COMPLETED" /\ after.final = "PASS"
               /\ fate = "keep" =>
                    /\ after = before /\ after.status = "COMPLETED"
                    /\ \/ after.final = "REJECT" /\ target[before.cell] = "REJECT"
                       \/ after.final = "PASS" /\ inspection_is_clean_pass(f, id)
<1> DEFINE fate == Fate(f, target, failType, id)
           before == f.inspections[id]
           after == Rebalanced(f, target, failType, id)
<1>1. DOMAIN before = {"cell", "type", "status", "final", "failure"}
  BY DEF IsFixture
<1>2. CASE fate = "fail"
  <2>1. after = [before EXCEPT !.status = "FAILED", !.final = "FAIL", !.failure = "AI"]
    BY <1>2 DEF Rebalanced
  <2>2. target[before.cell] = "FAIL"
    BY <1>2 DEF Fate
  <2> HIDE DEF fate, before, after
  <2> QED
    BY <1>1, <1>2, <2>1, <2>2 DEF fate, before, after
<1>3. CASE fate = "pass"
  <2>1. after = [before EXCEPT !.status = "COMPLETED", !.final = "PASS", !.failure = Missing]
    BY <1>3 DEF Rebalanced
  <2> HIDE DEF fate, before, after
  <2> QED
    BY <1>1, <1>3, <2>1 DEF fate, before, after
<1>4. CASE fate = "keep"
  <2>1. after = before
    BY <1>4 DEF Rebalanced
  <2>2. \/ target[before.cell] = "REJECT" /\ IsRejected(before)
        \/ inspection_is_clean_pass(f, id)
    BY <1>4 DEF Fate
  <2> QED
    BY <1>4, <2>1, <2>2 DEF IsRejected, inspection_is_clean_pass
<1> QED
  BY <1>2, <1>3, <1>4, FatesAre

\* Every cell ends as it is listed.
LEMMA OutcomesAreTheTarget ==
    ASSUME NEW f, IsFixture(f), NEW target, NEW failType, NEW g,
           g = rebalance_fixture(f, target, failType), g # Refused,
           \A c \in DOMAIN target : target[c] \in {"PASS", "REJECT", "FAIL"},
           NEW c \in Cells(g)
    PROVE  cell_outcome(g, c) = target[c]
<1> DEFINE own == InspectionsOf(g, c)
           Label(id) == IF g.inspections[id].status = "FAILED" THEN "FAIL"
                        ELSE g.inspections[id].final
           labels == {Label(id) : id \in own}
<1>1. /\ CanRebalance(f, target, failType)
      /\ DOMAIN g.inspections = DOMAIN f.inspections
      /\ \A id \in DOMAIN f.inspections :
            g.inspections[id] = Rebalanced(f, target, failType, id)
  BY RebalancedIs
<1>2. \A id \in DOMAIN f.inspections :
         /\ g.inspections[id].cell = f.inspections[id].cell
         /\ Fate(f, target, failType, id) \in {"keep", "fail", "pass"}
  BY <1>1, InspectionsBecome, FatesAre
<1>3. c \in Cells(f) /\ own = InspectionsOf(f, c) /\ own \subseteq DOMAIN f.inspections
  <2>1. c \in Cells(f)
    BY <1>1, <1>2 DEF Cells
  <2>2. \A id : id \in own <=> id \in InspectionsOf(f, c)
    BY <1>1, <1>2 DEF InspectionsOf
  <2> QED
    BY <2>1, <2>2 DEF InspectionsOf
<1>4. target[c] \in {"PASS", "REJECT", "FAIL"}
  BY <1>1, <1>3 DEF CanRebalance
<1>5. ASSUME NEW id \in own
      PROVE  /\ Fate(f, target, failType, id) = "fail" => Label(id) = "FAIL" /\ target[c] = "FAIL"
             /\ Fate(f, target, failType, id) = "pass" => Label(id) = "PASS"
             /\ Fate(f, target, failType, id) = "keep" =>
                   \/ Label(id) = "REJECT" /\ target[c] = "REJECT"
                   \/ Label(id) = "PASS"
  <2>1. id \in DOMAIN f.inspections /\ f.inspections[id].cell = c
    BY <1>3 DEF InspectionsOf
  <2> QED
    BY <1>1, <2>1, InspectionsBecome
<1>6. cell_outcome(g, c) = CASE "FAIL" \in labels -> "FAIL"
                             [] "FAIL" \notin labels /\ "REJECT" \in labels -> "REJECT"
                             [] OTHER -> "PASS"
  BY DEF cell_outcome
<1> HIDE DEF Label
<1>7. CASE target[c] = "FAIL"
  <2>1. Cardinality({id \in own : f.inspections[id].type = failType}) = 1
    BY <1>1, <1>3, <1>7 DEF CanRebalance
  <2>2. PICK id \in own : f.inspections[id].type = failType
    BY <2>1, FS_EmptySet
  <2>3. f.inspections[id].cell = c
    BY <1>3 DEF InspectionsOf
  <2>4. Fate(f, target, failType, id) = "fail"
    BY <1>7, <2>2, <2>3 DEF Fate
  <2>5. "FAIL" \in labels
    BY <1>5, <2>2, <2>4
  <2> QED
    BY <1>6, <1>7, <2>5
<1>8. CASE target[c] = "REJECT"
  <2>1. PICK id \in own : IsRejected(f.inspections[id])
    BY <1>1, <1>3, <1>8 DEF CanRebalance
  <2>2. f.inspections[id].cell = c /\ id \in DOMAIN f.inspections
    BY <1>3 DEF InspectionsOf
  <2>3. Fate(f, target, failType, id) = "keep"
    BY <1>8, <2>1, <2>2 DEF Fate
  <2>4. g.inspections[id].status = "COMPLETED" /\ g.inspections[id].final = "REJECT"
    BY <1>1, <2>1, <2>2, <2>3, InspectionsBecome DEF IsRejected
  <2>5. "REJECT" \in labels
    BY <2>1, <2>4 DEF Label
  <2>6. "FAIL" \notin labels
    BY <1>2, <1>3, <1>5, <1>8
  <2> QED
    BY <1>6, <1>8, <2>5, <2>6
<1>9. CASE target[c] = "PASS"
  <2>1. \A id \in own : Label(id) = "PASS"
    BY <1>2, <1>3, <1>5, <1>9
  <2>2. "FAIL" \notin labels /\ "REJECT" \notin labels
    BY <2>1
  <2> QED
    BY <1>6, <1>9, <2>2
<1> QED
  BY <1>4, <1>7, <1>8, <1>9

\* The images of an entry of the index, with rows, and the request that was recorded.
LEMMA EntryIsRequested ==
    ASSUME NEW f, IsFixture(f), Loads(f), NEW e \in f.index
    PROVE  LET own == ImagesOf(f, e.inspection, e.attempt)
               request == RecordedRequest(f, e)
           IN  /\ e.inspection \in DOMAIN f.inspections
               /\ own \subseteq OfInspection(f, e.inspection)
               /\ \A i \in own : RowsOf(f, i) # {}
               /\ \A n \in DOMAIN request : SourceImage(f, e, request, n) \in own
<1> DEFINE own == ImagesOf(f, e.inspection, e.attempt)
           images == ascending(own)
           request == RecordedRequest(f, e)
<1>1. /\ e.inspection \in DOMAIN f.inspections
      /\ Keys(f, own) = e.fingerprint
      /\ \A i \in own : RowsOf(f, i) # {}
  BY DEF Loads
<1>2. own \subseteq DOMAIN f.images /\ own \subseteq OfInspection(f, e.inspection)
  BY DEF ImagesOf, OfInspection
<1>3. own \subseteq Int /\ IsFiniteSet(own)
  BY <1>2, FS_Subset DEF IsFixture
<1> HIDE DEF own
<1>4. DOMAIN images = 1..Len(images) /\ \A n \in 1..Len(images) : images[n] \in own
  BY <1>3, Ascending
<1>5. request = [n \in DOMAIN images |-> [type |-> f.images[images[n]].type,
                                          key |-> f.images[images[n]].key]]
  BY DEF RecordedRequest, own
<1> HIDE DEF images, request
<1>6. ASSUME NEW n \in DOMAIN request
      PROVE  SourceImage(f, e, request, n) \in own
  <2>1. images[n] \in own /\ request[n].key = f.images[images[n]].key
    BY <1>4, <1>5
  <2>2. IsRecorded(e, request[n])
    BY <1>1, <2>1 DEF IsRecorded, Keys
  <2>3. SourceImage(f, e, request, n) = CHOOSE i \in own : f.images[i].key = request[n].key
    BY <2>2 DEF SourceImage, own
  <2> QED
    BY <2>1, <2>3
<1> QED
  BY <1>1, <1>2, <1>6 DEF own, request

\* What only depends on the index and the images is the same for both fixtures.
LEMMA SameIndexAndImages ==
    ASSUME NEW f, NEW g, g.index = f.index, g.images = f.images
    PROVE  /\ \A id, attempt : ImagesOf(g, id, attempt) = ImagesOf(f, id, attempt)
           /\ \A images : Keys(g, images) = Keys(f, images)
           /\ \A e : RecordedRequest(g, e) = RecordedRequest(f, e)
           /\ \A e, request, n : SourceImage(g, e, request, n) = SourceImage(f, e, request, n)
<1>1. /\ \A id, attempt : ImagesOf(g, id, attempt) = ImagesOf(f, id, attempt)
      /\ \A images : Keys(g, images) = Keys(f, images)
  BY DEF ImagesOf, Keys
<1>2. \A e : RecordedRequest(g, e) = RecordedRequest(f, e)
  BY <1>1, Zenon DEF RecordedRequest
<1>3. \A e, type : Candidates(g, e, type) = Candidates(f, e, type)
  BY <1>1, Zenon DEF Candidates
<1>4. \A e, request, n : SourceImage(g, e, request, n) = SourceImage(f, e, request, n)
  <2> SUFFICES ASSUME NEW e, NEW request, NEW n
               PROVE  SourceImage(g, e, request, n) = SourceImage(f, e, request, n)
    OBVIOUS
  <2> DEFINE own == ImagesOf(f, e.inspection, e.attempt)
             key == request[n].key
  <2>1. ImagesOf(g, e.inspection, e.attempt) = own
    BY <1>1
  <2>2. (CHOOSE i \in ImagesOf(g, e.inspection, e.attempt) : g.images[i].key = key)
          = CHOOSE i \in own : f.images[i].key = key
    <3> HIDE DEF own, key
    <3>1. g.images = f.images
      OBVIOUS
    <3> QED
      BY <2>1, <3>1, Zenon
  <2>3. Candidates(g, e, request[n].type) = Candidates(f, e, request[n].type)
    BY <1>3
  <2>4. CASE IsRecorded(e, request[n])
    <3>1. /\ SourceImage(g, e, request, n)
               = CHOOSE i \in ImagesOf(g, e.inspection, e.attempt) : g.images[i].key = key
          /\ SourceImage(f, e, request, n) = CHOOSE i \in own : f.images[i].key = key
      BY <2>4 DEF SourceImage
    <3> QED
      BY <2>2, <3>1, Zenon
  <2>5. CASE ~ IsRecorded(e, request[n])
    BY <2>3, <2>5 DEF SourceImage
  <2> QED
    BY <2>4, <2>5
<1> QED
  BY <1>1, <1>2, <1>4

\* An image of an inspection that has become PASS shows PASS and no defect.
LEMMA PassedShowsNone ==
    ASSUME NEW f, IsFixture(f), NEW target, NEW failType, NEW g,
           g = rebalance_fixture(f, target, failType), g # Refused,
           NEW id \in DOMAIN f.inspections, NEW i \in OfInspection(f, id), RowsOf(f, i) # {},
           g.inspections[id].status # "FAILED", g.inspections[id].final = "PASS"
    PROVE  image_result(g, i) = [label |-> "PASS", defects |-> {}]
<1> DEFINE fate == Fate(f, target, failType, id)
           first == FirstOf(f, i)
           clean == clean_result(first, "PASS")
<1>1. /\ g.inspections[id] = Rebalanced(f, target, failType, id)
      /\ IsSequence(g.rows) /\ ShowsAfter(f, fate, i, g.rows)
  BY RebalancedIs
<1>2. fate = "pass" \/ (fate = "keep" /\ inspection_is_clean_pass(f, id))
  BY <1>1, InspectionsBecome, FatesAre
<1>3. /\ Min(RowsOf(f, i)) \in RowsOf(f, i)
      /\ RowsOf(f, i) \subseteq RowsOfInspection(f, id) /\ RowsOf(f, i) \subseteq DOMAIN f.rows
  <2>1. IsSequence(f.rows)
        /\ RowsOf(f, i) = {n \in RowsOfInspection(f, id) : f.rows[n].image = i}
    BY PlacesOfInspection
  <2>2. Min(RowsOf(f, i)) \in RowsOf(f, i)
    BY <2>1, RowsShow, Zenon
  <2> QED
    BY <2>1, <2>2 DEF RowsOf
<1>4. DOMAIN first = {"inspection", "image", "label", "defect", "raw"}
  BY <1>3 DEF FirstOf, IsFixture
<1> HIDE DEF fate, first
<1>5. CASE fate = "pass"
  <2>1. Shows(g.rows, i, clean, {Missing})
    BY <1>1, <1>5 DEF ShowsAfter, first
  <2>2. image_result(g, i) = Interpreted(clean, {Missing})
    BY <1>1, <2>1, ShownIsResult
  <2>3. clean.label = "PASS" /\ clean.raw = [label |-> "PASS", defects |-> {}]
    BY <1>4, CleanRow
  <2>4. clean.raw.label = "PASS" /\ clean.raw.defects = {} /\ {Missing} \ {Missing} = {}
    BY <2>3
  <2> HIDE DEF clean
  <2>5. Interpreted(clean, {Missing}) = [label |-> "PASS", defects |-> {}]
    BY <2>3, <2>4, Zenon DEF Interpreted, Or
  <2> QED
    BY <2>2, <2>5
<1>6. CASE fate = "keep" /\ inspection_is_clean_pass(f, id)
  <2>1. Shows(g.rows, i, first, DefectsOf(f, i))
    BY <1>1, <1>6 DEF ShowsAfter, first
  <2>2. image_result(g, i) = Interpreted(first, DefectsOf(f, i))
    BY <1>1, <2>1, ShownIsResult
  <2>3. \A n \in RowsOf(f, i) : f.rows[n].label = "PASS" /\ f.rows[n].defect = Missing
    BY <1>3, <1>6 DEF inspection_is_clean_pass
  <2>4. DefectsOf(f, i) \ {Missing} = {}
    BY <2>3 DEF DefectsOf
  <2>5. /\ first.label = "PASS"
        /\ first.raw # Missing => /\ first.raw.label \in {Missing, "PASS"}
                                  /\ first.raw.defects \in {Missing, {}}
    BY <1>3, <2>3 DEF first, FirstOf, IsFixture
  <2>6. Interpreted(first, DefectsOf(f, i)) = [label |-> "PASS", defects |-> {}]
    BY <2>4, <2>5 DEF Interpreted, Or
  <2> QED
    BY <2>2, <2>6
<1> QED
  BY <1>2, <1>5, <1>6

\* A rebalanced fixture loads when the recorded one did.
LEMMA RebalancedLoads ==
    ASSUME NEW f, IsFixture(f), Loads(f), NEW target, NEW failType, NEW g,
           g = rebalance_fixture(f, target, failType), g # Refused
    PROVE  Loads(g)
<1>1. /\ g.index = f.index /\ g.images = f.images
      /\ DOMAIN g.inspections = DOMAIN f.inspections
      /\ IsSequence(g.rows)
      /\ \A id \in DOMAIN f.inspections : \A i \in OfInspection(f, id) :
            RowsOf(f, i) # {} => ShowsAfter(f, Fate(f, target, failType, id), i, g.rows)
  BY RebalancedIs
<1>2. /\ \A id, attempt : ImagesOf(g, id, attempt) = ImagesOf(f, id, attempt)
      /\ \A images : Keys(g, images) = Keys(f, images)
  BY <1>1, SameIndexAndImages
<1>3. ASSUME NEW e \in f.index, NEW i \in ImagesOf(f, e.inspection, e.attempt)
      PROVE  RowsOf(g, i) # {}
  <2>1. /\ e.inspection \in DOMAIN f.inspections
        /\ i \in OfInspection(f, e.inspection) /\ RowsOf(f, i) # {}
    BY EntryIsRequested
  <2>2. ShowsAfter(f, Fate(f, target, failType, e.inspection), i, g.rows)
    BY <1>1, <2>1
  <2>3. \E first, defects : Shows(g.rows, i, first, defects)
    BY <2>2 DEF ShowsAfter
  <2> QED
    BY <1>1, <2>3, ShownIsResult
<1> QED
  BY <1>1, <1>2, <1>3 DEF Loads

\* The callback of a rebalanced recording meets the contract, shows no defect with a
\* PASS, and is the recorded one with a REJECT.
LEMMA CallbacksAreServed ==
    ASSUME NEW f, IsFixture(f), Loads(f), NEW target, NEW failType, NEW g,
           g = rebalance_fixture(f, target, failType), g # Refused, NEW e \in g.index
    PROVE  LET request == RecordedRequest(g, e)
               callback == build_callback(g, e, request)
           IN  /\ CanBuild(g, e) /\ MeetsContract(callback)
               /\ callback.final = "PASS" =>
                     \A n \in DOMAIN request :
                         callback.results[n] = [label |-> "PASS", defects |-> {}]
               /\ callback.final = "REJECT" => callback = build_callback(f, e, request)
<1> DEFINE id == e.inspection
           fate == Fate(f, target, failType, id)
           after == g.inspections[id]
           request == RecordedRequest(g, e)
           callback == build_callback(g, e, request)
           Source(n) == SourceImage(f, e, request, n)
<1>1. /\ g.index = f.index /\ g.images = f.images /\ e \in f.index
      /\ \A d \in DOMAIN f.inspections : g.inspections[d] = Rebalanced(f, target, failType, d)
      /\ IsSequence(g.rows)
      /\ \A d \in DOMAIN f.inspections : \A i \in OfInspection(f, d) :
            RowsOf(f, i) # {} => ShowsAfter(f, Fate(f, target, failType, d), i, g.rows)
  BY RebalancedIs
<1>2. request = RecordedRequest(f, e) /\ \A n : SourceImage(g, e, request, n) = Source(n)
  BY <1>1, SameIndexAndImages
<1>3. /\ id \in DOMAIN f.inspections
      /\ \A n \in DOMAIN request : /\ Source(n) \in OfInspection(f, id)
                                   /\ RowsOf(f, Source(n)) # {}
  BY <1>1, <1>2, EntryIsRequested
<1>4. /\ fate \in {"keep", "fail", "pass"} /\ after = Rebalanced(f, target, failType, id)
      /\ fate = "fail" => /\ after.status = "FAILED" /\ after.final = "FAIL"
                          /\ after.failure = "AI"
      /\ fate = "pass" => after.status = "COMPLETED" /\ after.final = "PASS"
      /\ fate = "keep" => /\ after = f.inspections[id] /\ after.status = "COMPLETED"
                          /\ after.final \in {"REJECT", "PASS"}
  BY <1>1, <1>3, InspectionsBecome, FatesAre
<1>5. CanBuild(g, e)
  BY <1>4 DEF CanBuild
<1>6. callback = [status |-> IF after.status = "FAILED" THEN "FAILED" ELSE "COMPLETED",
                  final |-> IF after.status = "FAILED" THEN Missing ELSE after.final,
                  failure |-> IF after.status # "FAILED" THEN Missing
                              ELSE IF after.failure = "CAPTURE" THEN "CAPTURE" ELSE "AI",
                  results |-> [n \in DOMAIN request |-> image_result(g, Source(n))]]
  <2>1. \A n : image_result(g, SourceImage(g, e, request, n)) = image_result(g, Source(n))
    BY <1>2
  <2> HIDE DEF request, Source
  <2> QED
    BY <1>5, <2>1 DEF build_callback
<1>7. Missing # "PASS" /\ Missing # "REJECT" /\ Missing # "CAPTURE" /\ Missing # "AI"
  BY MissingAssumption
<1> HIDE DEF after, request, callback, Source, fate, id
<1>8. MeetsContract(callback)
  BY <1>4, <1>6, <1>7 DEF MeetsContract
<1>9. ASSUME callback.final = "PASS", NEW n \in DOMAIN request
      PROVE  callback.results[n] = [label |-> "PASS", defects |-> {}]
  <2>1. after.status # "FAILED" /\ after.final = "PASS"
    BY <1>6, <1>7, <1>9
  <2>2. image_result(g, Source(n)) = [label |-> "PASS", defects |-> {}]
    BY <1>3, <2>1, PassedShowsNone DEF after
  <2> QED
    BY <1>6, <1>9, <2>2
<1>10. ASSUME callback.final = "REJECT"
       PROVE  callback = build_callback(f, e, request)
  <2>1. after.status # "FAILED" /\ after.final = "REJECT"
    BY <1>6, <1>7, <1>10
  <2>2. fate = "keep" /\ after = f.inspections[id]
    BY <1>4, <2>1
  <2>3. ASSUME NEW n \in DOMAIN request
        PROVE  image_result(g, Source(n)) = image_result(f, Source(n))
    <3> DEFINE i == Source(n)
    <3>1. IsSequence(f.rows)
      BY PlacesOfInspection
    <3>2. ShowsAfter(f, fate, i, g.rows) /\ RowsOf(f, i) # {}
      BY <1>1, <1>3 DEF fate
    <3> HIDE DEF i
    <3>3. Shows(g.rows, i, FirstOf(f, i), DefectsOf(f, i))
      BY <2>2, <3>2 DEF ShowsAfter
    <3>4. Shows(f.rows, i, FirstOf(f, i), DefectsOf(f, i))
      BY <3>1, <3>2, RowsShow
    <3>5. image_result(g, i) = image_result(f, i)
      BY <1>1, <3>1, <3>3, <3>4, ShownIsResult
    <3> QED
      BY <3>5 DEF i
  <2>4. CanBuild(f, e)
    BY <2>1, <2>2 DEF CanBuild, id
  <2>5. build_callback(f, e, request)
          = [status |-> IF after.status = "FAILED" THEN "FAILED" ELSE "COMPLETED",
             final |-> IF after.status = "FAILED" THEN Missing ELSE after.final,
             failure |-> IF after.status # "FAILED" THEN Missing
                         ELSE IF after.failure = "CAPTURE" THEN "CAPTURE" ELSE "AI",
             results |-> [n \in DOMAIN request |-> image_result(f, Source(n))]]
    BY <2>2, <2>4 DEF build_callback, Source, id
  <2>6. [n \in DOMAIN request |-> image_result(g, Source(n))]
          = [n \in DOMAIN request |-> image_result(f, Source(n))]
    BY <2>3
  <2> QED
    BY <1>6, <2>5, <2>6, Zenon
<1> QED
  BY <1>5, <1>8, <1>9, <1>10 DEF callback, request

\* A rebalanced fixture is loaded and served: it loads when the recorded one did, every
\* cell has the outcome it is listed under, and its callbacks show what the outcome
\* promises (rebalance-replay-fixture.py:57-145, 169-271; fixture.py:158-241, 398-441).
THEOREM RebalancedStaysServed == Spec => []RebalancedIsServed
<1>1. ReturnedIs => RebalancedIsServed
  <2> SUFFICES ASSUME ReturnedIs, Returned("rebalance"), Loads(task.fixture)
               PROVE  RebalancedIsServed
    BY DEF RebalancedIsServed
  <2> DEFINE f == task.fixture
             target == task.target
             failType == task.failType
  <2>1. /\ task \in Tasks /\ task.tool = "rebalance"
        /\ result = rebalance_fixture(f, target, failType) /\ result # Refused
    BY DEF ReturnedIs, Returned
  <2>2. IsFixture(f) /\ \A c \in DOMAIN target : target[c] \in {"PASS", "REJECT", "FAIL"}
    BY <2>1, FixturesAssumption DEF IsFixture
  <2> HIDE DEF f, target, failType
  <2>3. Loads(f)
    BY DEF f
  <2>4. Loads(result)
    BY <2>1, <2>2, <2>3, RebalancedLoads
  <2>5. \A c \in Cells(result) : cell_outcome(result, c) = target[c]
    BY <2>1, <2>2, OutcomesAreTheTarget
  <2>6. \A e \in result.index :
           LET request == RecordedRequest(result, e)
               callback == build_callback(result, e, request)
           IN  /\ CanBuild(result, e) /\ MeetsContract(callback)
               /\ callback.final = "PASS" =>
                     \A n \in DOMAIN request :
                         callback.results[n] = [label |-> "PASS", defects |-> {}]
               /\ callback.final = "REJECT" => callback = build_callback(f, e, request)
    BY <2>1, <2>2, <2>3, CallbacksAreServed
  <2> QED
    BY <2>4, <2>5, <2>6, Zenon DEF RebalancedIsServed, f, target
<1> QED
  BY <1>1, CallsReturn, PTL


\* A step of a sum: the counters that every analysis has under a name.
AddCounts(name, q, u, v, sum, a) == add_confusion(sum, a[name])

\* What the inspections of the first k waves have for keys; an inspection is
\* a pair of its wave and its id.
Upto(keys, k) == [x \in {y \in DOMAIN keys : y[1] <= k} |-> keys[x]]

\* The sum, after k waves, counts the keys of their inspections.
CountedUpto(name, keys, u, v, k, sum) ==
    IsFiniteSet(DOMAIN Upto(keys, k)) /\ sum = Tally(Upto(keys, k))

Sums == INSTANCE Folding WITH Step <- AddCounts, Holds <- CountedUpto

(***************************************************************************)
(* Counters.                                                               *)
(***************************************************************************)

\* A counter of values has counted each as often as it is one.
LEMMA CountOfTally ==
    ASSUME NEW f, IsFiniteSet(DOMAIN f), NEW v
    PROVE  /\ Count(v, Tally(f)) = Cardinality({x \in DOMAIN f : f[x] = v})
           /\ Count(v, Tally(f)) \in Nat
           /\ v \in DOMAIN Tally(f) => Tally(f)[v] = Count(v, Tally(f))
           /\ v \in DOMAIN Tally(f) <=> \E x \in DOMAIN f : f[x] = v
<1>1. v \in DOMAIN Tally(f) <=> \E x \in DOMAIN f : f[x] = v
  BY DEF Tally, Range
<1>2. v \in DOMAIN Tally(f) => Tally(f)[v] = Cardinality({x \in DOMAIN f : f[x] = v})
  BY DEF Tally
<1>3. v \notin DOMAIN Tally(f) => {x \in DOMAIN f : f[x] = v} = {}
  BY <1>1
<1>4. IsFiniteSet({x \in DOMAIN f : f[x] = v})
  BY FS_Subset
<1>5. Cardinality({x \in DOMAIN f : f[x] = v}) \in Nat
  BY <1>4, FS_CardinalityType
<1> QED
  BY <1>1, <1>2, <1>3, <1>5, FS_EmptySet DEF Count

\* A function h is f and, with its arguments tagged by w, g.
Joins(f, g, w, h) ==
    LET tagged == {<<w, i>> : i \in DOMAIN g}
    IN  /\ DOMAIN h = DOMAIN f \cup tagged /\ DOMAIN f \cap tagged = {}
        /\ \A x \in DOMAIN f : h[x] = f[x]
        /\ \A i \in DOMAIN g : h[<<w, i>>] = g[i]

\* The counters of the parts of a function make that of the whole.
LEMMA TallyOfParts ==
    ASSUME NEW f, IsFiniteSet(DOMAIN f), NEW g, IsFiniteSet(DOMAIN g), NEW w, NEW h,
           Joins(f, g, w, h)
    PROVE  IsFiniteSet(DOMAIN h) /\ Tally(h) = Tally(f) (+) Tally(g)
<1> USE DEF Joins
<1> DEFINE Tagged(S) == {<<w, i>> : i \in S}
<1>1. ASSUME NEW S, IsFiniteSet(S)
      PROVE  IsFiniteSet(Tagged(S)) /\ Cardinality(Tagged(S)) = Cardinality(S)
  <2> DEFINE tag == [i \in S |-> <<w, i>>]
  <2>1. tag \in [S -> Tagged(S)] /\ (\A x, y \in S : tag[x] = tag[y] => x = y)
        /\ \A y \in Tagged(S) : \E x \in S : tag[x] = y
    OBVIOUS
  <2> HIDE DEF tag, Tagged
  <2> QED
    BY <1>1, <2>1, SameSize
<1>2. IsFiniteSet(DOMAIN h)
  <2>1. IsFiniteSet(Tagged(DOMAIN g))
    BY <1>1
  <2>2. IsFiniteSet(DOMAIN f \cup Tagged(DOMAIN g))
    <3> HIDE DEF Tagged
    <3> QED
      BY <2>1, FS_Union, Zenon
  <2> QED
    BY <2>2
<1>3. ASSUME NEW v
      PROVE  Cardinality({x \in DOMAIN h : h[x] = v})
                = Count(v, Tally(f)) + Count(v, Tally(g))
  <2> DEFINE F == {x \in DOMAIN f : f[x] = v}
             G == {i \in DOMAIN g : g[i] = v}
  <2>1. {x \in DOMAIN h : h[x] = v} = F \cup Tagged(G) /\ F \cap Tagged(G) = {}
    OBVIOUS
  <2>2. IsFiniteSet(F) /\ IsFiniteSet(G)
    BY FS_Subset
  <2>3. IsFiniteSet(Tagged(G)) /\ Cardinality(Tagged(G)) = Cardinality(G)
    BY <1>1, <2>2
  <2>4. Cardinality(F \cup Tagged(G)) = Cardinality(F) + Cardinality(Tagged(G))
    <3> HIDE DEF F, G, Tagged
    <3> QED
      BY <2>1, <2>2, <2>3, DisjointSize
  <2>5. Cardinality(F) = Count(v, Tally(f)) /\ Cardinality(G) = Count(v, Tally(g))
    BY CountOfTally
  <2> HIDE DEF F, G, Tagged
  <2> QED
    BY <2>1, <2>3, <2>4, <2>5
<1>4. Range(h) = Range(f) \cup Range(g)
  <2>1. \A v \in Range(h) : v \in Range(f) \cup Range(g)
    BY DEF Range
  <2>2. \A v \in Range(f) : v \in Range(h)
    BY DEF Range
  <2>3. \A i \in DOMAIN g : <<w, i>> \in DOMAIN h
    OBVIOUS
  <2>4. \A v \in Range(g) : v \in Range(h)
    BY <2>3, Zenon DEF Range
  <2> QED
    BY <2>1, <2>2, <2>4
<1>5. DOMAIN Tally(f) = Range(f) /\ DOMAIN Tally(g) = Range(g)
      /\ Tally(h) = [v \in Range(h) |-> Cardinality({x \in DOMAIN h : h[x] = v})]
  BY DEF Tally
<1>6. Tally(f) (+) Tally(g) = [v \in Range(f) \cup Range(g) |->
                                  Count(v, Tally(f)) + Count(v, Tally(g))]
  BY <1>5 DEF (+), Count
<1> QED
  BY <1>2, <1>3, <1>4, <1>5, <1>6

\* A counter of values has counted as many as there are.
LEMMA SizeOfTally ==
    ASSUME NEW f, IsFiniteSet(DOMAIN f)
    PROVE  Size(Tally(f)) = Cardinality(DOMAIN f)
<1> DEFINE Group(v) == {x \in DOMAIN f : f[x] = v}
           Numbering(v) == CHOOSE b : b \in Bijection(1..Cardinality(Group(v)), Group(v))
           copies == UNION {{v} \X (1..Tally(f)[v]) : v \in DOMAIN Tally(f)}
           named == [c \in copies |-> Numbering(c[1])[c[2]]]
<1>1. ASSUME NEW v
      PROVE  /\ IsFiniteSet(Group(v))
             /\ Numbering(v) \in Bijection(1..Cardinality(Group(v)), Group(v))
  <2>1. IsFiniteSet(Group(v))
    BY FS_Subset
  <2> HIDE DEF Group
  <2> QED
    BY <2>1, FS_CardinalityType DEF ExistsBijection
<1>2. \A v \in DOMAIN Tally(f) : Tally(f)[v] = Cardinality(Group(v))
  BY DEF Tally
<1>3. \A x \in DOMAIN f : f[x] \in DOMAIN Tally(f)
  BY CountOfTally
<1> HIDE DEF Numbering
<1>4. \A c \in copies : /\ c = <<c[1], c[2]>> /\ c[1] \in DOMAIN Tally(f)
                        /\ c[2] \in 1..Cardinality(Group(c[1]))
  BY <1>2
<1>5. \A v, n : v \in DOMAIN Tally(f) /\ n \in 1..Cardinality(Group(v)) =>
                    <<v, n>> \in copies
  BY <1>2
<1> HIDE DEF copies
<1>6. named \in [copies -> DOMAIN f]
  BY <1>1, <1>4 DEF Bijection, Injection
<1>7. \A c \in copies : f[named[c]] = c[1]
  BY <1>1, <1>4 DEF Bijection, Injection
<1>8. ASSUME NEW c \in copies, NEW d \in copies, named[c] = named[d]
      PROVE  c = d
  <2>1. c[1] = d[1]
    BY <1>7, <1>8
  <2>2. /\ c[2] \in 1..Cardinality(Group(c[1])) /\ d[2] \in 1..Cardinality(Group(c[1]))
        /\ Numbering(c[1])[c[2]] = Numbering(c[1])[d[2]]
    BY <1>4, <1>8, <2>1
  <2>3. c[2] = d[2]
    <3> DEFINE b == Numbering(c[1])
               m == Cardinality(Group(c[1]))
    <3>1. b \in Bijection(1..m, Group(c[1]))
      BY <1>1
    <3>2. \A j, k \in 1..m : b[j] = b[k] => j = k
      <4> HIDE DEF b, m, Group
      <4> QED
        BY <3>1 DEF Bijection, Injection, IsInjective
    <3> QED
      BY <2>2, <3>2
  <2> QED
    BY <1>4, <2>1, <2>3
<1>9. ASSUME NEW x \in DOMAIN f
      PROVE  \E c \in copies : named[c] = x
  <2>1. x \in Group(f[x])
    OBVIOUS
  <2>2. PICK n \in 1..Cardinality(Group(f[x])) : Numbering(f[x])[n] = x
    BY <1>1, <2>1 DEF Bijection, Surjection
  <2>3. <<f[x], n>> \in copies
    BY <1>3, <1>5
  <2> QED
    BY <2>2, <2>3
<1>10. IsFiniteSet(copies)
  <2>1. \A x \in DOMAIN f : \E c \in copies : named[c] = x
    BY <1>9
  <2> DEFINE back == [x \in DOMAIN f |-> CHOOSE c \in copies : named[c] = x]
  <2>2. back \in [DOMAIN f -> copies] /\ \A x \in DOMAIN f : named[back[x]] = x
    BY <2>1
  <2>3. \A c \in copies : back[named[c]] = c
    BY <1>6, <1>8, <2>2
  <2>4. \A x, y \in DOMAIN f : back[x] = back[y] => x = y
    BY <2>2
  <2>5. \A c \in copies : \E x \in DOMAIN f : back[x] = c
    BY <1>6, <2>3
  <2> HIDE DEF back, named
  <2> QED
    BY <2>2, <2>4, <2>5, SameSize
<1>11. Cardinality(DOMAIN f) = Cardinality(copies)
  <2> HIDE DEF named
  <2> QED
    BY <1>6, <1>8, <1>9, <1>10, SameSize
<1> QED
  BY <1>11 DEF Size, copies

(***************************************************************************)
(* The sums of all waves.                                                  *)
(***************************************************************************)

\* The counters that are summed.
Counters == {"inspectionOutcomes", "captureQualityCellConfusion", "defectAnyImageConfusion",
             "defectCellConfusion", "defectCellNotEvaluated"}

\* Every sum of the aggregate is a fold over the analyses.
LEMMA AggregateFolds ==
    ASSUME NEW analyses, NEW keys, NEW name \in Counters
    PROVE  aggregate(analyses)[name] = Sums!Folded(name, keys, 0, 0, EmptyBag, analyses)
<1> DEFINE whole == aggregate(analyses)
           Sum(f) == Sums!Folded(f, keys, 0, 0, EmptyBag, analyses)
<1>1. /\ whole.inspectionOutcomes = Sum("inspectionOutcomes")
      /\ whole.captureQualityCellConfusion = Sum("captureQualityCellConfusion")
      /\ whole.defectAnyImageConfusion = Sum("defectAnyImageConfusion")
      /\ whole.defectCellConfusion = Sum("defectCellConfusion")
      /\ whole.defectCellNotEvaluated = Sum("defectCellNotEvaluated")
  BY Zenon DEF aggregate, AddCounts, Sums!Folded, Sums!Iterates, Sums!Unfolds, Sums!Greatest,
               FoldLeft, MapThenFoldSet, Max
<1> HIDE DEF whole
<1>2. whole[name] = Sum(name)
  <2> HIDE DEF Sum
  <2> QED
    BY <1>1 DEF Counters
<1> QED
  BY <1>2 DEF whole

\* The keys are those of the inspections, ids[n] in wave n, and each analysis
\* has under the name the counter of those of its wave.
CountsKeys(name, keys, ids, analyses) ==
    /\ DOMAIN keys = UNION {{<<n, i>> : i \in ids[n]} : n \in 1..Len(analyses)}
    /\ \A n \in 1..Len(analyses) :
          /\ IsFiniteSet(ids[n])
          /\ analyses[n][name] = Tally([i \in ids[n] |-> keys[<<n, i>>]])

\* When the analysis of each wave counts the keys of its inspections, the sum
\* counts those of all inspections.
LEMMA SumOfWaves ==
    ASSUME NEW name, NEW keys, NEW ids, NEW S, NEW analyses \in Seq(S),
           CountsKeys(name, keys, ids, analyses)
    PROVE  /\ IsFiniteSet(DOMAIN keys)
           /\ Sums!Folded(name, keys, 0, 0, EmptyBag, analyses) = Tally(keys)
<1> DEFINE count == Len(analyses)
           sum == Sums!Folded(name, keys, 0, 0, EmptyBag, analyses)
<1> USE DEF CountsKeys
<1>1. count \in Nat
  OBVIOUS
<1>2. \A x \in DOMAIN keys : \E n \in 1..count : \E i \in ids[n] : x = <<n, i>>
  OBVIOUS
<1>3. \A n \in 1..count : \A i \in ids[n] : <<n, i>> \in DOMAIN keys
  OBVIOUS
<1>4. CountedUpto(name, keys, 0, 0, 0, EmptyBag)
  <2>1. DOMAIN Upto(keys, 0) = {}
    BY <1>1, <1>2 DEF Upto
  <2>2. Tally(Upto(keys, 0)) = EmptyBag
    BY <2>1 DEF Tally, EmptyBag, SetToBag, Range
  <2> QED
    BY <2>1, <2>2, FS_EmptySet DEF CountedUpto
<1>5. ASSUME NEW k \in 1..count, NEW r, CountedUpto(name, keys, 0, 0, k - 1, r)
      PROVE  CountedUpto(name, keys, 0, 0, k, AddCounts(name, keys, 0, 0, r, analyses[k]))
  <2> DEFINE before == Upto(keys, k - 1)
             own == [i \in ids[k] |-> keys[<<k, i>>]]
             after == Upto(keys, k)
             tagged == {<<k, i>> : i \in DOMAIN own}
  <2>1. r = Tally(before) /\ IsFiniteSet(DOMAIN before)
    BY <1>5 DEF CountedUpto
  <2>2. IsFiniteSet(DOMAIN own) /\ analyses[k][name] = Tally(own)
    OBVIOUS
  <2>3. /\ DOMAIN before = {x \in DOMAIN keys : x[1] <= k - 1}
        /\ DOMAIN after = {x \in DOMAIN keys : x[1] <= k}
        /\ \A x \in DOMAIN before : before[x] = keys[x]
        /\ \A x \in DOMAIN after : after[x] = keys[x]
    BY DEF Upto
  <2>4. DOMAIN after = DOMAIN before \cup tagged
    <3>1. \A x \in DOMAIN after : x \in DOMAIN before \/ x \in tagged
      BY <1>1, <1>2, <2>3
    <3>2. \A x \in DOMAIN before : x \in DOMAIN after
      BY <1>1, <1>2, <2>3
    <3>3. \A x \in tagged : x \in DOMAIN after
      BY <1>1, <1>3, <2>3
    <3> QED
      BY <3>1, <3>2, <3>3
  <2>5. DOMAIN before \cap tagged = {}
    BY <1>1, <2>3
  <2>6. \A x \in DOMAIN before : after[x] = before[x]
    BY <2>3, <2>4
  <2>7. \A i \in DOMAIN own : after[<<k, i>>] = own[i]
    BY <2>3, <2>4
  <2>8. Joins(before, own, k, after)
    <3> HIDE DEF before, own, after
    <3> QED
      BY <2>4, <2>5, <2>6, <2>7 DEF Joins
  <2> HIDE DEF before, own, after
  <2>9. IsFiniteSet(DOMAIN after) /\ Tally(after) = Tally(before) (+) Tally(own)
    BY <2>1, <2>2, <2>8, TallyOfParts
  <2> QED
    BY <2>1, <2>2, <2>9 DEF CountedUpto, AddCounts, add_confusion, after
<1>6. CountedUpto(name, keys, 0, 0, count, sum)
  <2> HIDE DEF sum
  <2>1. \A k \in 1..count : \A r : CountedUpto(name, keys, 0, 0, k - 1, r) =>
            CountedUpto(name, keys, 0, 0, k, AddCounts(name, keys, 0, 0, r, analyses[k]))
    BY <1>5
  <2> QED
    BY <1>4, <2>1, Sums!FoldKeeps, SMT DEF sum
<1>7. Upto(keys, count) = [x \in DOMAIN keys |-> keys[x]]
  <2>1. {x \in DOMAIN keys : x[1] <= count} = DOMAIN keys
    BY <1>1, <1>2
  <2> QED
    BY <2>1 DEF Upto
<1>8. Tally([x \in DOMAIN keys |-> keys[x]]) = Tally(keys)
  <2> DEFINE same == [x \in DOMAIN keys |-> keys[x]]
  <2>1. DOMAIN same = DOMAIN keys /\ \A x \in DOMAIN keys : same[x] = keys[x]
    OBVIOUS
  <2> HIDE DEF same
  <2>2. /\ Range(same) = Range(keys)
        /\ \A v : {x \in DOMAIN same : same[x] = v} = {x \in DOMAIN keys : keys[x] = v}
    BY <2>1 DEF Range
  <2>3. Tally(same) = Tally(keys)
    BY <2>2 DEF Tally
  <2> QED
    BY <2>3 DEF same
<1> QED
  BY <1>6, <1>7, <1>8 DEF CountedUpto

\* Which inspections a counter counts, and under which key.
Counts(name, x) ==
    CASE name = "defectCellConfusion" -> Evaluated(x)
      [] name = "defectCellNotEvaluated" -> ~ Evaluated(x)
      [] OTHER -> TRUE

CountedAs(name, x) ==
    CASE name = "inspectionOutcomes" -> <<x.type, x.status, x.final, x.failure>>
      [] name = "captureQualityCellConfusion" ->
            <<x.type, CaptureFails(x.truth), Observed(x)>>
      [] name = "defectAnyImageConfusion" -> <<x.type, x.defective, AnyReject(x)>>
      [] name = "defectCellConfusion" -> <<x.type, x.defective, x.final = "REJECT">>
      [] name = "defectCellNotEvaluated" -> x.type

KeysOf(name, I) == [i \in {i \in DOMAIN I : Counts(name, I[i])} |-> CountedAs(name, I[i])]

\* The counters of one analysis.
LEMMA AnalyzeCounts ==
    ASSUME NEW n, NEW I, NEW name \in Counters
    PROVE  analyze(n, I)[name] = Tally(KeysOf(name, I))
<1> DEFINE all == DOMAIN I
           over == {i \in all : Evaluated(I[i])}
<1>1. CASE name = "inspectionOutcomes"
  <2>1. KeysOf(name, I) = [i \in all |-> <<I[i].type, I[i].status, I[i].final, I[i].failure>>]
    BY <1>1 DEF KeysOf, CountedAs, Counts
  <2> QED
    BY <1>1, <2>1 DEF analyze
<1>2. CASE name = "captureQualityCellConfusion"
  <2>1. KeysOf(name, I) =
           [i \in all |-> <<I[i].type, CaptureFails(I[i].truth), Observed(I[i])>>]
    BY <1>2 DEF KeysOf, CountedAs, Counts
  <2> QED
    BY <1>2, <2>1 DEF analyze
<1>3. CASE name = "defectAnyImageConfusion"
  <2>1. KeysOf(name, I) = [i \in all |-> <<I[i].type, I[i].defective, AnyReject(I[i])>>]
    BY <1>3 DEF KeysOf, CountedAs, Counts
  <2> QED
    BY <1>3, <2>1 DEF analyze
<1>4. CASE name = "defectCellConfusion"
  <2>1. KeysOf(name, I) =
           [i \in over |-> <<I[i].type, I[i].defective, I[i].final = "REJECT">>]
    BY <1>4 DEF KeysOf, CountedAs, Counts
  <2> QED
    BY <1>4, <2>1 DEF analyze
<1>5. CASE name = "defectCellNotEvaluated"
  <2>1. KeysOf(name, I) = [i \in all \ over |-> I[i].type]
    BY <1>5 DEF KeysOf, CountedAs, Counts
  <2> QED
    BY <1>5, <2>1 DEF analyze
<1> QED
  BY <1>1, <1>2, <1>3, <1>4, <1>5 DEF Counters

\* All inspections of a call, and what an analysis of them all would be of.
AllOf(W) == UNION {{<<w, i>> : i \in DOMAIN W[w]} : w \in DOMAIN W}
Joined(W) == [x \in AllOf(W) |-> W[x[1]][x[2]]]
AnalysesOf(W) == [n \in DOMAIN W |-> analyze(n, W[n])]

\* The inspections of all waves, one after the other.
LEMMA JoinedWaves ==
    ASSUME NEW S, NEW W \in Seq(S)
    PROVE  /\ DOMAIN W = 1..Len(W) /\ Len(W) \in Nat
           /\ AnalysesOf(W) \in Seq({AnalysesOf(W)[n] : n \in 1..Len(W)})
           /\ Len(AnalysesOf(W)) = Len(W)
           /\ \A n \in 1..Len(W) : AnalysesOf(W)[n] = analyze(n, W[n])
           /\ DOMAIN Joined(W) = AllOf(W)
           /\ \A x : x \in AllOf(W) <=>
                  \E n \in 1..Len(W) : \E i \in DOMAIN W[n] : x = <<n, i>>
           /\ \A n \in 1..Len(W) : \A i \in DOMAIN W[n] : Joined(W)[<<n, i>>] = W[n][i]
  BY DEF AnalysesOf, AllOf, Joined

\* Every matrix of the aggregate is that of the analysis of all inspections.
LEMMA MatricesAddUp ==
    ASSUME NEW S, NEW W \in Seq(S), \A n \in 1..Len(W) : IsFiniteSet(DOMAIN W[n]),
           NEW name \in Counters
    PROVE  /\ aggregate(AnalysesOf(W))[name] = analyze(1, Joined(W))[name]
           /\ aggregate(AnalysesOf(W))[name] = Tally(KeysOf(name, Joined(W)))
           /\ IsFiniteSet(DOMAIN KeysOf(name, Joined(W)))
<1> DEFINE keys == KeysOf(name, Joined(W))
           ids == [n \in 1..Len(W) |-> {i \in DOMAIN W[n] : Counts(name, W[n][i])}]
           parts == AnalysesOf(W)
<1>0. /\ \A n \in 1..Len(W) : parts[n] = analyze(n, W[n])
      /\ DOMAIN Joined(W) = AllOf(W)
      /\ \A x : x \in AllOf(W) <=> \E n \in 1..Len(W) : \E i \in DOMAIN W[n] : x = <<n, i>>
      /\ \A n \in 1..Len(W) : \A i \in DOMAIN W[n] : Joined(W)[<<n, i>>] = W[n][i]
  BY JoinedWaves
<1>1. parts \in Seq({parts[n] : n \in 1..Len(W)}) /\ Len(parts) = Len(W)
  BY JoinedWaves
<1>2. DOMAIN keys = UNION {{<<n, i>> : i \in ids[n]} : n \in 1..Len(parts)}
  <2>1. \A x : x \in DOMAIN keys <=> x \in AllOf(W) /\ Counts(name, Joined(W)[x])
    BY <1>0 DEF KeysOf
  <2>2. \A x : x \in DOMAIN keys <=> \E n \in 1..Len(W) : \E i \in ids[n] : x = <<n, i>>
    <3> HIDE DEF keys
    <3>1. ASSUME NEW x \in DOMAIN keys
          PROVE  \E n \in 1..Len(W) : \E i \in ids[n] : x = <<n, i>>
      <4>1. PICK n \in 1..Len(W) : \E i \in DOMAIN W[n] : x = <<n, i>>
        BY <1>0, <2>1
      <4>2. PICK i \in DOMAIN W[n] : x = <<n, i>>
        BY <4>1
      <4>3. i \in ids[n]
        BY <1>0, <2>1, <4>2
      <4> QED
        BY <4>2, <4>3
    <3>2. ASSUME NEW n \in 1..Len(W), NEW i \in ids[n]
          PROVE  <<n, i>> \in DOMAIN keys
      BY <1>0, <2>1
    <3> QED
      BY <3>1, <3>2
  <2> HIDE DEF keys, ids, parts
  <2>3. DOMAIN keys = UNION {{<<n, i>> : i \in ids[n]} : n \in 1..Len(W)}
    <3>1. ASSUME NEW x \in DOMAIN keys
          PROVE  x \in UNION {{<<n, i>> : i \in ids[n]} : n \in 1..Len(W)}
      BY <2>2
    <3>2. ASSUME NEW x \in UNION {{<<n, i>> : i \in ids[n]} : n \in 1..Len(W)}
          PROVE  x \in DOMAIN keys
      <4>1. PICK n \in 1..Len(W) : x \in {<<n, i>> : i \in ids[n]}
        OBVIOUS
      <4>2. \E i \in ids[n] : x = <<n, i>>
        BY <4>1
      <4> QED
        BY <2>2, <4>2
    <3> QED
      BY <3>1, <3>2, Zenon
  <2> QED
    BY <1>1, <2>3
<1>3. ASSUME NEW n \in 1..Len(parts)
      PROVE  /\ IsFiniteSet(ids[n])
             /\ parts[n][name] = Tally([i \in ids[n] |-> keys[<<n, i>>]])
  <2>1. n \in 1..Len(W) /\ ids[n] \subseteq DOMAIN W[n]
    <3>1. n \in 1..Len(W)
      <4> HIDE DEF ids, parts
      <4> QED
        BY <1>1, <1>3
    <3> QED
      BY <3>1
  <2>2. parts[n][name] = Tally(KeysOf(name, W[n]))
    <3>1. analyze(n, W[n])[name] = Tally(KeysOf(name, W[n]))
      BY AnalyzeCounts
    <3> QED
      BY <1>0, <2>1, <3>1
  <2>3. \A i \in ids[n] : keys[<<n, i>>] = CountedAs(name, W[n][i])
    <3> SUFFICES ASSUME NEW i \in ids[n] PROVE keys[<<n, i>>] = CountedAs(name, W[n][i])
      OBVIOUS
    <3>1. <<n, i>> \in DOMAIN Joined(W) /\ Joined(W)[<<n, i>>] = W[n][i]
          /\ Counts(name, W[n][i])
      BY <1>0, <2>1
    <3> QED
      BY <3>1 DEF KeysOf
  <2>4. KeysOf(name, W[n]) = [i \in ids[n] |-> CountedAs(name, W[n][i])]
    BY <2>1 DEF KeysOf
  <2>5. [i \in ids[n] |-> CountedAs(name, W[n][i])] = [i \in ids[n] |-> keys[<<n, i>>]]
    <3> HIDE DEF keys, ids
    <3> QED
      BY <2>3
  <2>6. IsFiniteSet(ids[n])
    BY <2>1, FS_Subset
  <2> QED
    BY <2>2, <2>4, <2>5, <2>6
<1> HIDE DEF keys, ids, parts
<1>4. CountsKeys(name, keys, ids, parts)
  BY <1>2, <1>3 DEF CountsKeys
<1>5. Sums!Folded(name, keys, 0, 0, EmptyBag, parts) = Tally(keys) /\ IsFiniteSet(DOMAIN keys)
  BY <1>1, <1>4, SumOfWaves
<1>6. aggregate(parts)[name] = Sums!Folded(name, keys, 0, 0, EmptyBag, parts)
  BY AggregateFolds
<1>7. analyze(1, Joined(W))[name] = Tally(keys)
  BY AnalyzeCounts DEF keys
<1> QED
  BY <1>5, <1>6, <1>7 DEF keys, parts

(***************************************************************************)
(* The logical cases.                                                      *)
(***************************************************************************)

\* What the aggregate makes of the cells that its analyses list.
SeenIn(analyses) ==
    UNION {{<<analyses[n].waveNo, analyses[n].cells[i]>> : i \in DOMAIN analyses[n].cells} :
              n \in DOMAIN analyses}
CasesOf(seen) == {<<s[1], s[2].cellSerialNo>> : s \in seen}
CellsOfCase(seen, case) ==
    {s[2] : s \in {t \in seen : <<t[1], t[2].cellSerialNo>> = case}}
Worst(cells) == CHOOSE l \in {s.label : s \in cells} :
                    \A s \in cells : priority[s.label] <= priority[l]
Expects(cells) == IF \E s \in cells : s.expectedDefect THEN "REJECT" ELSE "PASS"

\* The tables of the cases.
LEMMA AggregateCases ==
    ASSUME NEW analyses
    PROVE  LET seen == SeenIn(analyses)
               sum == aggregate(analyses)
           IN  /\ sum.logicalCases = CasesOf(seen)
               /\ sum.cellFinalLabels =
                     Tally([case \in CasesOf(seen) |-> Worst(CellsOfCase(seen, case))])
               /\ sum.cellExpectedActualMatrix =
                     Tally([case \in CasesOf(seen) |-> <<Expects(CellsOfCase(seen, case)),
                                                         Worst(CellsOfCase(seen, case))>>])
  BY DEF aggregate, SeenIn, CasesOf, CellsOfCase, Worst, Expects

\* An inspection as its analysis lists it.
CellOf(x) == [cellSerialNo |-> x.cell, modality |-> x.type,
              label |-> IF x.status = "FAILED" THEN "FAIL" ELSE x.final,
              expectedDefect |-> x.defective]

\* What one analysis says of each inspection.
LEMMA AnalyzeCells ==
    ASSUME NEW n, NEW I
    PROVE  /\ analyze(n, I).waveNo = n
           /\ DOMAIN analyze(n, I).cells = DOMAIN I
           /\ \A i \in DOMAIN I : analyze(n, I).cells[i] = CellOf(I[i])
  BY DEF analyze, CellOf

\* The inspections of one case.
Inspected(W, case) ==
    {W[x[1]][x[2]] : x \in {y \in AllOf(W) : <<y[1], W[y[1]][y[2]].cell>> = case}}

\* The cases and their cells are those of the inspections.
LEMMA SeenCases ==
    ASSUME NEW S, NEW W \in Seq(S)
    PROVE  LET seen == SeenIn(AnalysesOf(W))
           IN  /\ CasesOf(seen) = {<<x[1], W[x[1]][x[2]].cell>> : x \in AllOf(W)}
               /\ \A case : CellsOfCase(seen, case) = {CellOf(x) : x \in Inspected(W, case)}
               /\ \A case \in CasesOf(seen) : Inspected(W, case) # {}
<1> DEFINE seen == SeenIn(AnalysesOf(W))
           all == AllOf(W)
<1>1. /\ DOMAIN AnalysesOf(W) = 1..Len(W)
      /\ \A n \in 1..Len(W) : AnalysesOf(W)[n] = analyze(n, W[n])
      /\ \A x : x \in all <=> \E n \in 1..Len(W) : \E i \in DOMAIN W[n] : x = <<n, i>>
  BY JoinedWaves DEF AnalysesOf
<1>2. \A n \in 1..Len(W) : /\ AnalysesOf(W)[n].waveNo = n
                            /\ DOMAIN AnalysesOf(W)[n].cells = DOMAIN W[n]
                            /\ \A i \in DOMAIN W[n] : AnalysesOf(W)[n].cells[i] = CellOf(W[n][i])
  BY <1>1, AnalyzeCells
<1>3. seen = {<<x[1], CellOf(W[x[1]][x[2]])>> : x \in all}
  <2>1. ASSUME NEW s \in seen
        PROVE  s \in {<<x[1], CellOf(W[x[1]][x[2]])>> : x \in all}
    <3>1. PICK n \in 1..Len(W) : s \in {<<AnalysesOf(W)[n].waveNo, AnalysesOf(W)[n].cells[i]>> :
                                           i \in DOMAIN AnalysesOf(W)[n].cells}
      BY <1>1 DEF SeenIn
    <3>2. PICK i \in DOMAIN W[n] : s = <<n, CellOf(W[n][i])>>
      BY <1>2, <3>1
    <3>3. <<n, i>> \in all
      BY <1>1
    <3> QED
      BY <3>2, <3>3
  <2>2. ASSUME NEW x \in all
        PROVE  <<x[1], CellOf(W[x[1]][x[2]])>> \in seen
    <3>1. PICK n \in 1..Len(W) : \E i \in DOMAIN W[n] : x = <<n, i>>
      BY <1>1
    <3>2. PICK i \in DOMAIN W[n] : x = <<n, i>>
      BY <3>1
    <3>3. <<n, CellOf(W[n][i])>> \in {<<AnalysesOf(W)[n].waveNo, AnalysesOf(W)[n].cells[j]>> :
                                         j \in DOMAIN AnalysesOf(W)[n].cells}
      BY <1>2
    <3>4. <<n, CellOf(W[n][i])>> \in seen
      BY <1>1, <3>3 DEF SeenIn
    <3> QED
      BY <3>2, <3>4
  <2> HIDE DEF seen
  <2> QED
    BY <2>1, <2>2
<1>4. \A x : CellOf(x).cellSerialNo = x.cell
  BY DEF CellOf
<1> HIDE DEF seen, all
<1>5. CasesOf(seen) = {<<x[1], W[x[1]][x[2]].cell>> : x \in all}
  <2>1. ASSUME NEW c \in CasesOf(seen)
        PROVE  c \in {<<x[1], W[x[1]][x[2]].cell>> : x \in all}
    <3>1. PICK s \in seen : c = <<s[1], s[2].cellSerialNo>>
      BY DEF CasesOf
    <3>2. PICK x \in all : s = <<x[1], CellOf(W[x[1]][x[2]])>>
      BY <1>3
    <3> QED
      BY <1>4, <3>1, <3>2
  <2>2. ASSUME NEW x \in all
        PROVE  <<x[1], W[x[1]][x[2]].cell>> \in CasesOf(seen)
    <3>1. <<x[1], CellOf(W[x[1]][x[2]])>> \in seen
      BY <1>3
    <3> DEFINE s == <<x[1], CellOf(W[x[1]][x[2]])>>
    <3>2. s \in seen /\ <<s[1], s[2].cellSerialNo>> = <<x[1], W[x[1]][x[2]].cell>>
      BY <1>4, <3>1
    <3> HIDE DEF s
    <3> QED
      BY <3>2 DEF CasesOf
  <2> QED
    BY <2>1, <2>2
<1>6. ASSUME NEW case
      PROVE  CellsOfCase(seen, case) = {CellOf(x) : x \in Inspected(W, case)}
  <2>1. ASSUME NEW c \in CellsOfCase(seen, case)
        PROVE  c \in {CellOf(x) : x \in Inspected(W, case)}
    <3>1. PICK s \in seen : <<s[1], s[2].cellSerialNo>> = case /\ c = s[2]
      BY DEF CellsOfCase
    <3>2. PICK x \in all : s = <<x[1], CellOf(W[x[1]][x[2]])>>
      BY <1>3
    <3>3. <<x[1], W[x[1]][x[2]].cell>> = case
      BY <1>4, <3>1, <3>2
    <3>4. W[x[1]][x[2]] \in Inspected(W, case)
      BY <3>3 DEF Inspected, all
    <3> QED
      BY <3>1, <3>2, <3>4
  <2>2. ASSUME NEW y \in Inspected(W, case)
        PROVE  CellOf(y) \in CellsOfCase(seen, case)
    <3>1. PICK x \in all : y = W[x[1]][x[2]] /\ <<x[1], W[x[1]][x[2]].cell>> = case
      BY DEF Inspected, all
    <3>2. <<x[1], CellOf(y)>> \in seen
      BY <1>3, <3>1
    <3>3. <<x[1], CellOf(y).cellSerialNo>> = case
      BY <1>4, <3>1
    <3> DEFINE s == <<x[1], CellOf(y)>>
    <3>4. s \in {t \in seen : <<t[1], t[2].cellSerialNo>> = case} /\ s[2] = CellOf(y)
      BY <3>2, <3>3
    <3> HIDE DEF s
    <3> QED
      BY <3>4 DEF CellsOfCase
  <2> QED
    BY <2>1, <2>2
<1>7. \A case \in CasesOf(seen) : Inspected(W, case) # {}
  BY <1>5 DEF Inspected, all
<1> QED
  BY <1>5, <1>6, <1>7 DEF seen, all

\* The label of a case: what it must be to be one or the other.
LEMMA WorstLabel ==
    ASSUME NEW I, I # {},
           \A x \in I : x.status = "FAILED" <=> x.final \notin {"PASS", "REJECT"}
    PROVE  LET cells == {CellOf(x) : x \in I}
           IN  /\ Worst(cells) = "FAIL" <=> \E x \in I : x.status = "FAILED"
               /\ Worst(cells) = "PASS" <=> \A x \in I : x.final = "PASS"
               /\ Expects(cells) = "REJECT" <=> \E x \in I : x.defective
<1> DEFINE cells == {CellOf(x) : x \in I}
           labels == {s.label : s \in cells}
           IsWorst(l) == l \in labels /\ \A s \in cells : priority[s.label] <= priority[l]
<1>1. \A x : CellOf(x).label = (IF x.status = "FAILED" THEN "FAIL" ELSE x.final)
             /\ CellOf(x).expectedDefect = x.defective
  BY DEF CellOf
<1>2. \A l : l \in labels <=> \E x \in I : l = CellOf(x).label
  OBVIOUS
<1>3. labels # {} /\ labels \subseteq {"PASS", "REJECT", "FAIL"}
  BY <1>1, <1>2
<1>4. priority["PASS"] = 0 /\ priority["REJECT"] = 1 /\ priority["FAIL"] = 2
  BY DEF priority
<1>5. \A l : IsWorst(l) <=> l \in labels /\ \A m \in labels : priority[m] <= priority[l]
  OBVIOUS
<1> HIDE DEF labels, IsWorst
<1>6. \E l : IsWorst(l)
  BY <1>3, <1>4, <1>5
<1>7. IsWorst(Worst(cells))
  <2> HIDE DEF cells
  <2> QED
    BY <1>6 DEF Worst, IsWorst, labels
<1>8. /\ Worst(cells) = "FAIL" <=> "FAIL" \in labels
      /\ Worst(cells) = "PASS" <=> labels = {"PASS"}
  <2> DEFINE w == Worst(cells)
  <2>1. w \in labels /\ \A m \in labels : priority[m] <= priority[w]
    BY <1>5, <1>7
  <2> HIDE DEF w, cells
  <2>2. w = "FAIL" <=> "FAIL" \in labels
    BY <1>3, <1>4, <2>1
  <2>3. w = "PASS" <=> labels = {"PASS"}
    <3>1. w = "PASS" => labels \subseteq {"PASS"}
      BY <1>3, <1>4, <2>1
    <3> QED
      BY <1>3, <2>1, <3>1
  <2> QED
    BY <2>2, <2>3 DEF w
<1>9. "FAIL" \in labels <=> \E x \in I : x.status = "FAILED"
  BY <1>1, <1>2
<1>10. labels = {"PASS"} <=> \A x \in I : x.final = "PASS"
  BY <1>1, <1>2, <1>3
<1>11. Expects(cells) = "REJECT" <=> \E x \in I : x.defective
  BY <1>1 DEF Expects
<1> QED
  BY <1>8, <1>9, <1>10, <1>11

\* What the analyses say together is what one analysis of all inspections
\* would have said, and each case counts once, with the worst of its labels
\* (analyze-qa-wave.py:56-237, aggregate-qa-analyses.py:26-105).
THEOREM AnalysesAreOneAnalysis == Spec => []AnalysesAddUp
<1>1. ReturnedIs => AnalysesAddUp
  <2> SUFFICES ASSUME ReturnedIs, Returned("analyse") PROVE AnalysesAddUp
    BY DEF AnalysesAddUp
  <2> DEFINE W == task.waves
             all == AllOf(W)
             cases == {<<x[1], W[x[1]][x[2]].cell>> : x \in all}
             I(case) == Inspected(W, case)
             cells(case) == {CellOf(x) : x \in I(case)}
             Misses(case) == /\ \E i \in I(case) : i.defective
                             /\ \A i \in I(case) : i.final = "PASS"
             Failed(case) == \E i \in I(case) : i.status = "FAILED"
             over == KeysOf("defectCellConfusion", Joined(W))
             rest == KeysOf("defectCellNotEvaluated", Joined(W))
             labels == [case \in cases |-> Worst(cells(case))]
             matrix == [case \in cases |-> <<Expects(cells(case)), Worst(cells(case))>>]
  <2>1. task \in Tasks /\ task.tool = "analyse" /\ result = aggregate(AnalysesOf(W))
    BY DEF ReturnedIs, Returned, Analyses, AnalysesOf
  <2>2. /\ W \in Seq({W[w] : w \in DOMAIN W}) /\ DOMAIN W = 1..Len(W)
        /\ \A n \in 1..Len(W) : /\ IsFiniteSet(DOMAIN W[n])
                                /\ \A i \in DOMAIN W[n] : W[n][i].status = "FAILED"
                                      <=> W[n][i].final \notin {"PASS", "REJECT"}
    <3>1. W \in Seq({W[w] : w \in DOMAIN W})
      BY <2>1, AnalysesAssumption
    <3> QED
      BY <2>1, <3>1, AnalysesAssumption
  <2>3. \A name \in Counters :
           /\ result[name] = analyze(1, Joined(W))[name]
           /\ result[name] = Tally(KeysOf(name, Joined(W)))
           /\ IsFiniteSet(DOMAIN KeysOf(name, Joined(W)))
    BY <2>1, <2>2, MatricesAddUp
  <2>4. DOMAIN Joined(W) = all
        /\ \A x : x \in all <=> \E n \in 1..Len(W) : \E i \in DOMAIN W[n] : x = <<n, i>>
    BY <2>2, JoinedWaves
  <2>5. Size(result.defectCellConfusion) + Size(result.defectCellNotEvaluated)
           = Cardinality(all) /\ IsFiniteSet(all)
    <3>1. DOMAIN over \cup DOMAIN rest = all /\ DOMAIN over \cap DOMAIN rest = {}
      BY <2>4 DEF KeysOf, Counts
    <3>2. IsFiniteSet(DOMAIN over) /\ IsFiniteSet(DOMAIN rest)
          /\ result["defectCellConfusion"] = Tally(over)
          /\ result["defectCellNotEvaluated"] = Tally(rest)
      BY <2>3 DEF Counters
    <3> HIDE DEF over, rest, all
    <3>3. Size(Tally(over)) = Cardinality(DOMAIN over)
          /\ Size(Tally(rest)) = Cardinality(DOMAIN rest)
      BY <3>2, SizeOfTally
    <3>4. /\ IsFiniteSet(DOMAIN over \cup DOMAIN rest)
          /\ Cardinality(DOMAIN over \cup DOMAIN rest)
                = Cardinality(DOMAIN over) + Cardinality(DOMAIN rest)
      BY <3>1, <3>2, DisjointSize
    <3> QED
      BY <3>1, <3>2, <3>3, <3>4
  <2>6. IsFiniteSet(cases)
    <3> DEFINE f == [x \in all |-> <<x[1], W[x[1]][x[2]].cell>>]
    <3>1. f \in Surjection(all, cases)
      BY DEF Surjection
    <3> QED
      BY <2>5, <3>1, FS_Surjection
  <2>7. /\ result.logicalCases = cases
        /\ result.cellFinalLabels = Tally(labels)
        /\ result.cellExpectedActualMatrix = Tally(matrix)
    <3>1. /\ CasesOf(SeenIn(AnalysesOf(W))) = cases
          /\ \A case : CellsOfCase(SeenIn(AnalysesOf(W)), case) = cells(case)
      BY <2>2, SeenCases
    <3> HIDE DEF cases, cells, W
    <3> QED
      BY <2>1, <3>1, AggregateCases
  <2>8. ASSUME NEW case \in cases
        PROVE  /\ labels[case] = "FAIL" <=> Failed(case)
               /\ matrix[case] = <<"REJECT", "PASS">> <=> Misses(case)
    <3>1. I(case) # {}
      BY <2>4, <2>8 DEF Inspected
    <3>2. \A x \in I(case) : x.status = "FAILED" <=> x.final \notin {"PASS", "REJECT"}
      BY <2>2, <2>4 DEF Inspected
    <3>3. /\ Worst(cells(case)) = "FAIL" <=> Failed(case)
          /\ Worst(cells(case)) = "PASS" <=> \A x \in I(case) : x.final = "PASS"
          /\ Expects(cells(case)) = "REJECT" <=> \E x \in I(case) : x.defective
      <4> HIDE DEF I, W
      <4> QED
        BY <3>1, <3>2, WorstLabel
    <3>4. labels[case] = Worst(cells(case))
          /\ matrix[case] = <<Expects(cells(case)), Worst(cells(case))>>
      BY <2>8
    <3> HIDE DEF cells, I, labels, matrix
    <3> QED
      BY <3>3, <3>4
  <2>9. DOMAIN labels = cases /\ DOMAIN matrix = cases
    OBVIOUS
  <2>10. Size(Tally(matrix)) = Cardinality(cases)
    <3> HIDE DEF matrix, cases
    <3> QED
      BY <2>6, <2>9, SizeOfTally
  <2>11. Count(<<"REJECT", "PASS">>, Tally(matrix)) = Cardinality({case \in cases : Misses(case)})
    <3> HIDE DEF matrix, cases, Misses
    <3>1. Count(<<"REJECT", "PASS">>, Tally(matrix))
             = Cardinality({case \in DOMAIN matrix : matrix[case] = <<"REJECT", "PASS">>})
      BY <2>6, <2>9, CountOfTally
    <3>2. {case \in DOMAIN matrix : matrix[case] = <<"REJECT", "PASS">>}
             = {case \in cases : Misses(case)}
      BY <2>8, <2>9
    <3> QED
      BY <3>1, <3>2
  <2>12. Count("FAIL", Tally(labels)) = Cardinality({case \in cases : Failed(case)})
    <3> HIDE DEF labels, cases, Failed
    <3>1. Count("FAIL", Tally(labels))
             = Cardinality({case \in DOMAIN labels : labels[case] = "FAIL"})
      BY <2>6, <2>9, CountOfTally
    <3>2. {case \in DOMAIN labels : labels[case] = "FAIL"} = {case \in cases : Failed(case)}
      BY <2>8, <2>9
    <3> QED
      BY <3>1, <3>2
  <2>13. \A f \in Counters : result[f] = analyze(1, Joined(W))[f]
    BY <2>3
  <2> HIDE DEF labels, matrix, over, rest
  <2> QED
    BY <2>5, <2>7, <2>10, <2>11, <2>12, <2>13
    DEF AnalysesAddUp, Counters, AllOf, Joined, Inspected
<1> QED
  BY <1>1, CallsReturn, PTL

(***************************************************************************)
(* Source images of v1.7 that are used again.                              *)
(***************************************************************************)

\* Some pool of the image has been used up.
Exhausted(dataset, used, i) ==
    \E key \in PoolKeys : LET pool == ToSet(PoolRows(dataset, key))
                          IN  i \in pool /\ \A j \in pool : used[j] > 0

\* What every selection keeps.
PoolsAre(dataset, s) ==
    /\ s \in [cursor : [PoolKeys -> Nat], used : [DOMAIN dataset -> Nat],
              forbidden : SUBSET DOMAIN dataset, chosen : Seq(DOMAIN dataset),
              failed : BOOLEAN]
    /\ \A i \in s.forbidden : s.used[i] > 0
    /\ \A i \in DOMAIN dataset : s.used[i] > 1 => Exhausted(dataset, s.used, i)

\* After k visits of a pool of which more is wanted, the rows of the last k
\* have been used; after one round, all.
VisitedAre(pool, rows, k, s) ==
    /\ k <= Len(rows) =>
          /\ s.cursor[pool] >= k
          /\ \A m \in 1..k : s.used[rows[1 + ((s.cursor[pool] - m) % Len(rows))]] > 0
    /\ k >= Len(rows) => \A j \in 1..Len(rows) : s.used[rows[j]] > 0

TakeStep(pool, rows, wanted, dataset, r, reuse) ==
    IF Len(r.chosen) = wanted THEN r ELSE Visit(r, pool, rows, reuse)
TakeHolds(pool, rows, wanted, dataset, k, r) ==
    PoolsAre(dataset, r) /\ (Len(r.chosen) # wanted => VisitedAre(pool, rows, k, r))
Taking == INSTANCE Folding WITH Step <- TakeStep, Holds <- TakeHolds

\* The images are numbered from one.
IsDataset(dataset) == dataset \in Seq({dataset[i] : i \in DOMAIN dataset})

\* The rows of a pool are some of the images.
LEMMA RowsAreImages ==
    ASSUME NEW dataset, IsDataset(dataset), NEW key
    PROVE  PoolRows(dataset, key) \in Seq(DOMAIN dataset)
<1> DEFINE rows == {i \in DOMAIN dataset :
                       /\ \A f \in {"modality", "status", "quality", "axis"} :
                             dataset[i][f] = key[f]
                       /\ key.linked => dataset[i].linked
                       /\ key.annotated => key.modality = "CT" /\ dataset[i].porosity}
           order == [i \in rows |-> i]
<1>1. DOMAIN dataset = 1..Len(dataset) /\ Len(dataset) \in Nat
  BY DEF IsDataset
<1>2. IsFiniteSet(DOMAIN dataset)
  BY <1>1, FS_Interval
<1>3. rows \subseteq DOMAIN dataset
  OBVIOUS
<1>4. PoolRows(dataset, key) = sorted(rows, order)
  BY DEF PoolRows
<1> HIDE DEF rows
<1>5. IsFiniteSet(rows)
  BY <1>2, <1>3, FS_Subset
<1>6. order \in [rows -> Int] /\ \A x, y \in rows : order[x] = order[y] => x = y
  BY <1>1, <1>3
<1> HIDE DEF order
<1>7. sorted(rows, order) \in Seq(rows)
  BY <1>5, <1>6, Sorted
<1> QED
  BY <1>3, <1>4, <1>7

\* More uses exhaust a pool all the more.
LEMMA StaysExhausted ==
    ASSUME NEW dataset, IsDataset(dataset), NEW used \in [DOMAIN dataset -> Nat],
           NEW i, Exhausted(dataset, used, i), NEW more \in [DOMAIN dataset -> Nat],
           \A j \in DOMAIN dataset : more[j] >= used[j]
    PROVE  Exhausted(dataset, more, i)
<1>1. PICK key \in PoolKeys : /\ i \in ToSet(PoolRows(dataset, key))
                              /\ \A j \in ToSet(PoolRows(dataset, key)) : used[j] > 0
  BY DEF Exhausted
<1>2. ToSet(PoolRows(dataset, key)) \subseteq DOMAIN dataset
  BY RowsAreImages DEF ToSet
<1>3. \A j \in ToSet(PoolRows(dataset, key)) : more[j] > 0
  BY <1>1, <1>2
<1> QED
  BY <1>1, <1>3 DEF Exhausted

\* A visit uses fresh images in the first round, and in the second those of
\* a pool without any.
LEMMA VisitKeeps ==
    ASSUME NEW dataset, IsDataset(dataset), NEW pool \in PoolKeys, NEW rows,
           rows = PoolRows(dataset, pool), Len(rows) > 0, NEW k \in Nat, NEW s,
           PoolsAre(dataset, s), VisitedAre(pool, rows, k, s)
    PROVE  LET t == Visit(s, pool, rows, k + 1 > Len(rows))
           IN  PoolsAre(dataset, t) /\ VisitedAre(pool, rows, k + 1, t)
<1> DEFINE L == Len(rows)
           t == Visit(s, pool, rows, k + 1 > L)
           c == s.cursor[pool]
           n == c + 1
           image == rows[1 + (c % L)]
           taken == Usable(s, image, k + 1 > L)
<1>1. rows \in Seq(DOMAIN dataset) /\ L \in Nat /\ L > 0
  BY RowsAreImages
<1>2. c \in Nat
  BY DEF PoolsAre
<1>3. 1 + (c % L) \in 1..L /\ image \in DOMAIN dataset /\ image \in ToSet(rows)
  <2>1. 1 + (c % L) \in 1..L
    BY <1>1, <1>2, Remainder
  <2> QED
    BY <1>1, <2>1 DEF ToSet
<1>4. /\ t.cursor = [s.cursor EXCEPT ![pool] = n]
      /\ t.used = IF taken THEN [s.used EXCEPT ![image] = @ + 1] ELSE s.used
      /\ t.forbidden = IF taken THEN s.forbidden \cup {image} ELSE s.forbidden
      /\ t.chosen = IF taken THEN Append(s.chosen, image) ELSE s.chosen
      /\ t.failed = s.failed
      /\ t = [cursor |-> t.cursor, used |-> t.used, forbidden |-> t.forbidden,
              chosen |-> t.chosen, failed |-> t.failed]
  BY DEF Visit, PoolsAre
<1>5. taken <=> image \notin s.forbidden /\ (k + 1 > L \/ s.used[image] = 0)
  BY DEF Usable
<1> HIDE DEF t, taken, image
<1>6. t \in [cursor : [PoolKeys -> Nat], used : [DOMAIN dataset -> Nat],
             forbidden : SUBSET DOMAIN dataset, chosen : Seq(DOMAIN dataset),
             failed : BOOLEAN]
  <2>1. t.cursor \in [PoolKeys -> Nat]
    <3>1. s.cursor \in [PoolKeys -> Nat] /\ n \in Nat
      BY <1>2 DEF PoolsAre
    <3> HIDE DEF n
    <3> QED
      BY <1>4, <3>1
  <2>2. t.used \in [DOMAIN dataset -> Nat]
    BY <1>3, <1>4 DEF PoolsAre
  <2>3. t.forbidden \in SUBSET DOMAIN dataset
    BY <1>3, <1>4 DEF PoolsAre
  <2>4. t.chosen \in Seq(DOMAIN dataset)
    <3>1. s.chosen \in Seq(DOMAIN dataset)
      BY DEF PoolsAre
    <3>2. Append(s.chosen, image) \in Seq(DOMAIN dataset)
      BY <1>3, <3>1
    <3>3. t.chosen = s.chosen \/ t.chosen = Append(s.chosen, image)
      BY <1>4
    <3> QED
      BY <3>1, <3>2, <3>3
  <2>5. t.failed \in BOOLEAN
    BY <1>4 DEF PoolsAre
  <2> QED
    BY <1>4, <2>1, <2>2, <2>3, <2>4, <2>5
<1>7. \A j \in DOMAIN dataset : t.used[j] >= s.used[j]
  BY <1>3, <1>4 DEF PoolsAre
<1>8. t.used[image] > 0
  BY <1>3, <1>4, <1>5 DEF PoolsAre
<1>9. \A i \in t.forbidden : t.used[i] > 0
  BY <1>3, <1>4, <1>7, <1>8 DEF PoolsAre
<1>10. t.cursor[pool] = n /\ n \in Nat
  BY <1>2, <1>4 DEF PoolsAre
<1>11. VisitedAre(pool, rows, k + 1, t)
  <2>1. \A j \in 1..L : rows[j] \in DOMAIN dataset
    BY <1>1
  <2>2. CASE k + 1 <= L
    <3>1. c >= k /\ n >= k + 1
      BY <1>1, <1>2, <2>2 DEF VisitedAre
    <3>2. \A m \in 1..k : s.used[rows[1 + ((c - m) % L)]] > 0
      BY <1>1, <2>2 DEF VisitedAre
    <3>3. ASSUME NEW m \in 1..k + 1
          PROVE  t.used[rows[1 + ((n - m) % L)]] > 0
      <4>1. CASE m = 1
        <5>1. n - m = c
          BY <1>2, <4>1
        <5> QED
          BY <1>8, <5>1 DEF image
      <4>2. CASE m # 1
        <5> DEFINE a == n - m
        <5>1. m - 1 \in 1..k
          BY <4>2
        <5>2. c - (m - 1) = a /\ a \in Nat
          <6> HIDE DEF c
          <6> QED
            BY <1>2, <3>1
        <5> HIDE DEF a
        <5>3. s.used[rows[1 + (a % L)]] > 0
          BY <3>2, <5>1, <5>2
        <5>4. 1 + (a % L) \in 1..L
          BY <1>1, <5>2, Remainder
        <5>5. rows[1 + (a % L)] \in DOMAIN dataset
          BY <2>1, <5>4
        <5>6. \A j \in DOMAIN dataset : s.used[j] > 0 => t.used[j] > 0
          BY <1>6, <1>7 DEF PoolsAre
        <5>7. t.used[rows[1 + (a % L)]] > 0
          BY <5>3, <5>5, <5>6
        <5> QED
          BY <5>7 DEF a
      <4> QED
        BY <4>1, <4>2
    <3>4. ASSUME k + 1 >= L, NEW j \in 1..L
          PROVE  t.used[rows[j]] > 0
      <4> HIDE DEF L, n
      <4>1. k + 1 = L /\ n >= L /\ n \in Nat
        BY <1>1, <1>10, <2>2, <3>1, <3>4
      <4>2. PICK m \in 1..L : j = 1 + ((n - m) % L)
        BY <1>1, <4>1, RoundVisitsAll
      <4>3. m \in 1..k + 1
        BY <4>1
      <4>4. t.used[rows[1 + ((n - m) % L)]] > 0
        BY <3>3, <4>3
      <4> QED
        BY <4>2, <4>4
    <3>5. k + 1 <= Len(rows) => t.cursor[pool] >= k + 1
      BY <1>10, <3>1
    <3> QED
      BY <1>10, <3>3, <3>4, <3>5 DEF VisitedAre
  <2>3. CASE k >= L
    <3>1. \A j \in 1..L : s.used[rows[j]] > 0
      BY <1>1, <2>3 DEF VisitedAre
    <3>2. \A j \in 1..L : t.used[rows[j]] > 0
      BY <1>6, <1>7, <2>1, <3>1 DEF PoolsAre
    <3> QED
      BY <1>1, <2>3, <3>2 DEF VisitedAre
  <2> QED
    BY <1>1, <2>2, <2>3
<1>12. ASSUME NEW i \in DOMAIN dataset, t.used[i] > 1
       PROVE  Exhausted(dataset, t.used, i)
  <2>1. CASE s.used[i] > 1
    <3>1. Exhausted(dataset, s.used, i)
      BY <2>1 DEF PoolsAre
    <3>2. s.used \in [DOMAIN dataset -> Nat] /\ t.used \in [DOMAIN dataset -> Nat]
      BY <1>6 DEF PoolsAre
    <3> QED
      BY <1>7, <3>1, <3>2, StaysExhausted
  <2>2. CASE ~ (s.used[i] > 1)
    <3>1. i = image /\ taken /\ s.used[i] # 0
      BY <1>3, <1>4, <1>12, <2>2 DEF PoolsAre
    <3>2. k >= L
      BY <1>1, <1>5, <3>1
    <3>3. \A j \in 1..L : s.used[rows[j]] > 0 /\ rows[j] \in DOMAIN dataset
      BY <1>1, <3>2 DEF VisitedAre
    <3>4. \A j \in ToSet(rows) : s.used[j] > 0 /\ j \in DOMAIN dataset
      BY <1>1, <3>3 DEF ToSet
    <3>5. \A j \in ToSet(rows) : t.used[j] > 0
      BY <1>6, <1>7, <3>4 DEF PoolsAre
    <3> QED
      BY <1>3, <3>1, <3>5 DEF Exhausted
  <2> QED
    BY <2>1, <2>2
<1> QED
  BY <1>6, <1>9, <1>11, <1>12 DEF PoolsAre, t

\* One more failure of a selection changes no pool.
LEMMA FailingKeeps ==
    ASSUME NEW dataset, NEW s, PoolsAre(dataset, s), NEW failed \in BOOLEAN
    PROVE  PoolsAre(dataset, [s EXCEPT !.failed = failed])
  BY DEF PoolsAre

\* Images are taken.
LEMMA TakeKeeps ==
    ASSUME NEW dataset, IsDataset(dataset), NEW pool \in PoolKeys, NEW rows,
           rows = PoolRows(dataset, pool), Len(rows) > 0, NEW s, PoolsAre(dataset, s), NEW count
    PROVE  PoolsAre(dataset, Selector_take(s, pool, rows, count, Len(rows)))
<1> DEFINE L == Len(rows)
           wanted == Len(s.chosen) + count
           rounds == [visit \in 1..2 * L |-> visit > L]
           after == Taking!Folded(pool, rows, wanted, dataset, s, rounds)
<1>1. Selector_take(s, pool, rows, count, L)
        = [after EXCEPT !.failed = @ \/ Len(after.chosen) # wanted]
  BY Zenon DEF Selector_take, TakeStep, Taking!Folded, Taking!Iterates, Taking!Unfolds,
               Taking!Greatest, FoldLeft, MapThenFoldSet, Max
<1>2. rows \in Seq(DOMAIN dataset) /\ L \in Nat /\ L > 0
  BY RowsAreImages
<1>3. rounds \in Seq(BOOLEAN) /\ Len(rounds) = 2 * L
      /\ \A k \in 1..2 * L : rounds[k] = (k > L)
  BY <1>2
<1> HIDE DEF rounds, wanted
<1>4. TakeHolds(pool, rows, wanted, dataset, 0, s)
  <2>1. s.cursor[pool] >= 0 /\ ~ (0 >= Len(rows)) /\ 1..0 = {}
    BY <1>2 DEF PoolsAre
  <2> QED
    BY <2>1 DEF TakeHolds, VisitedAre
<1>5. ASSUME NEW k \in 1..Len(rounds), NEW r, TakeHolds(pool, rows, wanted, dataset, k - 1, r)
      PROVE  TakeHolds(pool, rows, wanted, dataset, k,
                       TakeStep(pool, rows, wanted, dataset, r, rounds[k]))
  <2>1. CASE Len(r.chosen) = wanted
    BY <1>5, <2>1 DEF TakeHolds, TakeStep
  <2>2. CASE Len(r.chosen) # wanted
    <3>1. PoolsAre(dataset, r) /\ VisitedAre(pool, rows, k - 1, r)
      BY <1>5, <2>2 DEF TakeHolds
    <3>2. k - 1 \in Nat /\ (k - 1) + 1 = k /\ rounds[k] = (k > L)
      BY <1>2, <1>3
    <3> DEFINE before == k - 1
               t == Visit(r, pool, rows, before + 1 > L)
    <3>3. before \in Nat /\ before + 1 = k
      BY <3>2
    <3>4. VisitedAre(pool, rows, before, r)
      BY <3>1
    <3> HIDE DEF before
    <3>5. PoolsAre(dataset, t) /\ VisitedAre(pool, rows, before + 1, t)
      BY <1>2, <3>1, <3>3, <3>4, VisitKeeps
    <3>6. t = Visit(r, pool, rows, rounds[k])
      BY <3>2, <3>3
    <3> HIDE DEF t
    <3> QED
      BY <2>2, <3>3, <3>5, <3>6 DEF TakeHolds, TakeStep
  <2> QED
    BY <2>1, <2>2
<1>6. TakeHolds(pool, rows, wanted, dataset, Len(rounds), after)
  BY <1>3, <1>4, <1>5, Taking!FoldKeeps, SMT
<1> HIDE DEF after
<1>7. PoolsAre(dataset, after)
  BY <1>6 DEF TakeHolds
<1>8. (after.failed \/ Len(after.chosen) # wanted) \in BOOLEAN
  OBVIOUS
<1>9. PoolsAre(dataset, [after EXCEPT !.failed = @ \/ Len(after.chosen) # wanted])
  BY <1>7, <1>8, FailingKeeps
<1> QED
  BY <1>1, <1>9

\* Images of a pool are selected.
LEMMA SelectKeeps ==
    ASSUME NEW dataset, IsDataset(dataset), NEW key \in PoolKeys, NEW s,
           PoolsAre(dataset, s), NEW count
    PROVE  PoolsAre(dataset, select(s, dataset, key, count))
<1> DEFINE rows == PoolRows(dataset, key)
<1>1. CASE rows = << >>
  <2>1. select(s, dataset, key, count) = [s EXCEPT !.failed = TRUE]
    BY <1>1 DEF select
  <2>2. PoolsAre(dataset, [s EXCEPT !.failed = TRUE])
    BY FailingKeeps, TRUE \in BOOLEAN
  <2> QED
    BY <2>1, <2>2
<1>2. CASE rows # << >>
  <2>1. rows \in Seq(DOMAIN dataset)
    BY RowsAreImages
  <2>2. Len(rows) > 0
    <3> HIDE DEF rows
    <3> QED
      BY <1>2, <2>1
  <2>3. select(s, dataset, key, count) = Selector_take(s, key, rows, count, Len(rows))
    BY <1>2 DEF select
  <2> QED
    BY <2>2, <2>3, TakeKeeps
<1> QED
  BY <1>1, <1>2

\* The axes that a plan may have.
PlanAxes == {AxisPlan[n].axis : n \in DOMAIN AxisPlan} \cup {""}

\* The images of one plan are chosen.
LEMMA PlanKeeps ==
    ASSUME NEW dataset, IsDataset(dataset), NEW modality \in ImageTypes,
           NEW status \in {"normal", "defective"}, NEW fails \in BOOLEAN,
           NEW plan, plan.axis \in PlanAxes, NEW s, PoolsAre(dataset, s)
    PROVE  PoolsAre(dataset, ChoosePlan(s, dataset, modality, status, fails, plan))
<1> DEFINE Key(quality, linked, annotated) ==
              [modality |-> modality, status |-> status, quality |-> quality,
               axis |-> plan.axis, linked |-> linked, annotated |-> annotated]
           porous == IF modality = "CT" /\ status = "defective" /\ plan.axis = AnnotatedAxis
                     THEN Porosity ELSE 0
           Take(r, key, count, always) ==
              IF r.failed \/ (count = 0 /\ ~ always) THEN r
              ELSE select(r, dataset, key, count)
           failing == Take(s, Key("FAIL", TRUE, FALSE), plan.fails, FALSE)
           annotated == Take(failing, Key("PASS", fails, TRUE), porous, FALSE)
           normal == Take(annotated, Key("PASS", fails, FALSE),
                          plan.total - plan.fails - porous, TRUE)
<1>1. \A quality \in {"PASS", "FAIL"}, linked \in BOOLEAN, porosity \in BOOLEAN :
         Key(quality, linked, porosity) \in PoolKeys
  BY DEF PoolKeys, PlanAxes
<1>2. ASSUME NEW r, PoolsAre(dataset, r), NEW key \in PoolKeys, NEW count, NEW always
      PROVE  PoolsAre(dataset, Take(r, key, count, always))
  BY <1>2, SelectKeeps
<1>3. ChoosePlan(s, dataset, modality, status, fails, plan) = normal
  BY DEF ChoosePlan
<1> HIDE DEF Key, Take, porous
<1>4. PoolsAre(dataset, failing)
  BY <1>1, <1>2
<1> HIDE DEF failing
<1>5. PoolsAre(dataset, annotated)
  BY <1>1, <1>2, <1>4
<1> HIDE DEF annotated
<1>6. PoolsAre(dataset, normal)
  BY <1>1, <1>2, <1>5
<1> QED
  BY <1>3, <1>6

PlanStep(modality, status, fails, dataset, r, plan) ==
    ChoosePlan(r, dataset, modality, status, fails, plan)
PlanHolds(modality, status, fails, dataset, k, r) == PoolsAre(dataset, r)
Choosing == INSTANCE Folding WITH Step <- PlanStep, Holds <- PlanHolds

\* The images of a case are chosen.
LEMMA InitialKeeps ==
    ASSUME NEW dataset, IsDataset(dataset), NEW modality \in ImageTypes,
           NEW status \in {"normal", "defective"}, NEW fails \in BOOLEAN,
           NEW s, PoolsAre(dataset, s)
    PROVE  PoolsAre(dataset, choose_initial(s, dataset, modality, status, fails))
<1> DEFINE plans == Plans(modality, fails)
           start == NextCase(s)
           chosen == Choosing!Folded(modality, status, fails, dataset, start, plans)
           expected == IF status = "defective" THEN Porosity ELSE 0
           failed == \/ chosen.failed
                     \/ Len(chosen.chosen) # WaveImages
                     \/ modality = "CT" /\ expected # Cardinality(
                            {i \in ToSet(chosen.chosen) : dataset[i].porosity})
<1>1. choose_initial(s, dataset, modality, status, fails) = [chosen EXCEPT !.failed = failed]
  BY Zenon DEF choose_initial, PlanStep, Choosing!Folded, Choosing!Iterates,
               Choosing!Unfolds, Choosing!Greatest, FoldLeft, MapThenFoldSet, Max
<1>2. PoolsAre(dataset, start)
  <2> DEFINE Records == [cursor : [PoolKeys -> Nat], used : [DOMAIN dataset -> Nat],
                         forbidden : SUBSET DOMAIN dataset, chosen : Seq(DOMAIN dataset),
                         failed : BOOLEAN]
  <2>1. start.used = s.used /\ start.forbidden = {} /\ start \in Records
    <3>1. s \in Records
      BY DEF PoolsAre
    <3>2. {} \in SUBSET DOMAIN dataset /\ << >> \in Seq(DOMAIN dataset)
      OBVIOUS
    <3>3. \A images \in SUBSET DOMAIN dataset, sequence \in Seq(DOMAIN dataset) :
             LET t == [s EXCEPT !.forbidden = images, !.chosen = sequence]
             IN  t \in Records /\ t.used = s.used /\ t.forbidden = images
      BY <3>1
    <3> HIDE DEF Records
    <3> QED
      BY <3>2, <3>3 DEF NextCase
  <2> HIDE DEF start
  <2>2. \A i \in DOMAIN dataset : start.used[i] > 1 => Exhausted(dataset, start.used, i)
    BY <2>1, Zenon DEF PoolsAre
  <2>3. \A i \in start.forbidden : start.used[i] > 0
    BY <2>1
  <2> QED
    BY <2>1, <2>2, <2>3 DEF PoolsAre
<1>3. (\E S : plans \in Seq(S)) /\ \A n \in 1..Len(plans) : plans[n].axis \in PlanAxes
  <2>1. CASE modality = "RGB"
    <3> DEFINE plan == [axis |-> "", total |-> WaveImages,
                        fails |-> IF fails THEN WaveFails ELSE 0]
    <3>1. plans = <<plan>>
      BY <2>1 DEF Plans
    <3>2. plan.axis = ""
      OBVIOUS
    <3> HIDE DEF plans, plan
    <3>3. <<plan>> \in Seq({plan}) /\ Len(<<plan>>) = 1 /\ <<plan>>[1] = plan
      OBVIOUS
    <3>4. \A n \in 1..Len(plans) : plans[n] = plan
      BY <3>1, <3>3
    <3>5. plans \in Seq({plan})
      BY <3>1, <3>3
    <3>6. plan.axis \in PlanAxes
      BY <3>2 DEF PlanAxes
    <3> QED
      BY <3>4, <3>5, <3>6
  <2>2. CASE modality # "RGB"
    <3> DEFINE Plan(n) == [AxisPlan[n] EXCEPT !.fails = IF fails THEN @ ELSE 0]
    <3>1. plans = [n \in DOMAIN AxisPlan |-> Plan(n)]
      BY <2>2 DEF Plans
    <3>2. DOMAIN AxisPlan = 1..Len(AxisPlan) /\ Len(AxisPlan) \in Nat
      <4>1. AxisPlan \in Seq([axis : STRING, total : Nat, fails : Nat])
        BY ManifestAssumption, Zenon
      <4> QED
        BY <4>1
    <3>3. ASSUME NEW n \in 1..Len(AxisPlan)
          PROVE  Plan(n).axis \in PlanAxes
      <4>1. AxisPlan[n] \in [axis : STRING, total : Nat, fails : Nat]
        <5>1. \A S : \A q \in Seq(S) : \A m \in 1..Len(q) : q[m] \in S
          OBVIOUS
        <5> QED
          BY <5>1, ManifestAssumption, Zenon
      <4>2. \A plan \in [axis : STRING, total : Nat, fails : Nat] : \A x :
               [plan EXCEPT !.fails = x].axis = plan.axis
        OBVIOUS
      <4>3. Plan(n).axis = AxisPlan[n].axis
        BY <4>1, <4>2, Zenon
      <4> QED
        BY <3>2, <4>3 DEF PlanAxes
    <3> HIDE DEF plans, Plan
    <3>4. plans \in Seq({Plan(n) : n \in DOMAIN AxisPlan}) /\ Len(plans) = Len(AxisPlan)
      BY <3>1, <3>2
    <3> QED
      BY <3>1, <3>2, <3>3, <3>4
  <2> QED
    BY <2>1, <2>2
<1> HIDE DEF plans, start
<1>4. PlanHolds(modality, status, fails, dataset, 0, start)
  BY <1>2 DEF PlanHolds
<1>5. ASSUME NEW k \in 1..Len(plans), NEW r,
             PlanHolds(modality, status, fails, dataset, k - 1, r)
      PROVE  PlanHolds(modality, status, fails, dataset, k,
                       PlanStep(modality, status, fails, dataset, r, plans[k]))
  <2>1. plans[k].axis \in PlanAxes
    BY <1>3
  <2> QED
    BY <1>5, <2>1, PlanKeeps DEF PlanHolds, PlanStep
<1>6. PlanHolds(modality, status, fails, dataset, Len(plans), chosen)
  BY <1>3, <1>4, <1>5, Choosing!FoldKeeps, SMT
<1> HIDE DEF chosen
<1>7. PoolsAre(dataset, chosen)
  BY <1>6 DEF PlanHolds
<1>8. failed \in BOOLEAN
  OBVIOUS
<1> HIDE DEF failed
<1>9. PoolsAre(dataset, [chosen EXCEPT !.failed = failed])
  BY <1>7, <1>8, FailingKeeps
<1> QED
  BY <1>1, <1>9

HalfStep(dataset, q, u, v, b, h) == BuildCase(b, dataset, h[1], h[2])
HalfHolds(dataset, q, u, v, k, b) ==
    /\ b = [pools |-> b.pools, rows |-> b.rows, cases |-> b.cases]
    /\ PoolsAre(dataset, b.pools)
Halves == INSTANCE Folding WITH Step <- HalfStep, Holds <- HalfHolds

\* A half of a case is built.
LEMMA HalfKeeps ==
    ASSUME NEW dataset, IsDataset(dataset), NEW k, NEW b, HalfHolds(dataset, 0, 0, 0, k, b),
           NEW case, NEW modality \in ImageTypes, NEW n
    PROVE  HalfHolds(dataset, 0, 0, 0, n, BuildCase(b, dataset, case, modality))
<1> DEFINE fails == case \in CaptureFailCases[modality]
           status == IF case \in DefectCases[modality] THEN "defective" ELSE "normal"
           s == choose_initial(b.pools, dataset, modality, status, fails)
           added == AddRows(b, dataset, case, fails, s)
<1>1. b = [pools |-> b.pools, rows |-> b.rows, cases |-> b.cases] /\ PoolsAre(dataset, b.pools)
  BY DEF HalfHolds
<1>2. BuildCase(b, dataset, case, modality) = IF b.pools.failed THEN b ELSE added
  BY DEF BuildCase
<1>3. fails \in BOOLEAN /\ status \in {"normal", "defective"}
  OBVIOUS
<1> HIDE DEF fails, status
<1>4. PoolsAre(dataset, s)
  BY <1>1, <1>3, InitialKeeps
<1> HIDE DEF s
<1>5. added = [b EXCEPT !.pools.failed = TRUE]
      \/ \E rows, cases : added = [b EXCEPT !.pools = s, !.cases = cases, !.rows = rows]
  BY DEF AddRows
<1> HIDE DEF added
<1>6. CASE added = [b EXCEPT !.pools.failed = TRUE]
  <2>1. PoolsAre(dataset, [b.pools EXCEPT !.failed = TRUE])
    BY <1>1, FailingKeeps, TRUE \in BOOLEAN
  <2>2. /\ added.pools = [b.pools EXCEPT !.failed = TRUE]
        /\ added = [pools |-> added.pools, rows |-> added.rows, cases |-> added.cases]
    BY <1>1, <1>6
  <2> QED
    BY <1>1, <1>2, <2>1, <2>2 DEF HalfHolds
<1>7. ASSUME NEW rows, NEW cases, added = [b EXCEPT !.pools = s, !.cases = cases, !.rows = rows]
      PROVE  HalfHolds(dataset, 0, 0, 0, n, BuildCase(b, dataset, case, modality))
  <2>1. /\ added.pools = s
        /\ added = [pools |-> added.pools, rows |-> added.rows, cases |-> added.cases]
    BY <1>1, <1>7
  <2> QED
    BY <1>1, <1>2, <1>4, <2>1 DEF HalfHolds
<1> QED
  BY <1>5, <1>6, <1>7

\* There are cases, and waves of some size.
LEMMA CasesAre == CASES \in Nat /\ CASES_PER_WAVE \in Nat \ {0} /\ CASES_PER_WAVE = CellCount
<1>1. CellCount \in Nat \ {0} /\ CASES_PER_WAVE = CellCount
  BY ManifestAssumption, PlanAssumption
<1>2. PICK waves \in 0..5 : CASES = waves * CASES_PER_WAVE
  BY ManifestAssumption
<1>3. waves \in {0, 1, 2, 3, 4, 5}
  OBVIOUS
<1> QED
  BY <1>1, <1>2, <1>3

\* The pools of a whole output.
LEMMA WavesKeep ==
    ASSUME NEW dataset, IsDataset(dataset), build_waves(dataset) # Refused
    PROVE  PoolsAre(dataset, build_waves(dataset).pools)
<1> DEFINE start == [pools |-> FreshPools(PoolKeys, DOMAIN dataset), rows |-> << >>,
                     cases |-> << >>]
           halves == CellTypes(CASES)
           built == Halves!Folded(dataset, 0, 0, 0, start, halves)
<1>1. build_waves(dataset) = AllDistinct(built)
  BY Zenon DEF build_waves, HalfStep, Halves!Folded, Halves!Iterates,
               Halves!Unfolds, Halves!Greatest, FoldLeft, MapThenFoldSet, Max
<1>2. HalfHolds(dataset, 0, 0, 0, 0, start)
  <2>1. PoolsAre(dataset, FreshPools(PoolKeys, DOMAIN dataset))
    BY DEF PoolsAre, FreshPools
  <2> QED
    BY <2>1 DEF HalfHolds
<1>3. halves \in Seq({halves[n] : n \in DOMAIN halves})
      /\ \A n \in 1..Len(halves) : halves[n][2] \in ImageTypes
  <2>1. DOMAIN halves = 1..2 * CASES /\ 2 * CASES \in Nat
    BY CasesAre DEF CellTypes
  <2>2. \A n \in 1..2 * CASES : halves[n][2] \in ImageTypes
    BY DEF ImageTypes, CellTypes
  <2> HIDE DEF halves
  <2>3. halves \in Seq({halves[n] : n \in DOMAIN halves}) /\ Len(halves) = 2 * CASES
    <3>1. halves = [n \in 1..2 * CASES |-> halves[n]]
      BY <2>1 DEF halves, CellTypes
    <3> QED
      BY <2>1, <3>1
  <2> QED
    BY <2>2, <2>3
<1> HIDE DEF halves, start
<1>4. ASSUME NEW k \in 1..Len(halves), NEW b, HalfHolds(dataset, 0, 0, 0, k - 1, b)
      PROVE  HalfHolds(dataset, 0, 0, 0, k, HalfStep(dataset, 0, 0, 0, b, halves[k]))
  <2>1. halves[k][2] \in ImageTypes
    BY <1>3
  <2> QED
    BY <1>4, <2>1, HalfKeeps DEF HalfStep
<1>5. HalfHolds(dataset, 0, 0, 0, Len(halves), built)
  BY <1>2, <1>3, <1>4, Halves!FoldKeeps, SMT
<1> HIDE DEF built
<1>6. build_waves(dataset) = built
  BY <1>1 DEF AllDistinct
<1> QED
  BY <1>5, <1>6 DEF HalfHolds

\* A source image of v1.7 is used again only where fresh ones had run out
\* (build-v17-runtime-manifests.py:87-115).
THEOREM ImagesReusedWhenExhausted == Spec => []ReusedWhenExhausted
<1>1. ReturnedIs => ReusedWhenExhausted
  <2> SUFFICES ASSUME ReturnedIs, Returned("waves") PROVE ReusedWhenExhausted
    BY DEF ReusedWhenExhausted
  <2>1. task \in Tasks /\ task.tool = "waves" /\ result = build_waves(task.dataset)
        /\ result # Refused
    BY DEF ReturnedIs, Returned
  <2>2. IsDataset(task.dataset)
    BY <2>1, WavesAssumption DEF IsDataset
  <2>3. PoolsAre(task.dataset, result.pools)
    BY <2>1, <2>2, WavesKeep
  <2>4. DOMAIN result.pools.used = DOMAIN task.dataset
        /\ \A i \in DOMAIN task.dataset :
              result.pools.used[i] > 1 => Exhausted(task.dataset, result.pools.used, i)
    BY <2>3 DEF PoolsAre
  <2> QED
    BY <2>4 DEF ReusedWhenExhausted, Exhausted
<1> QED
  BY <1>1, CallsReturn, PTL

(***************************************************************************)
(* Candidates of v1.8 that are taken in turn.                              *)
(***************************************************************************)

\* How often the n-th of L rows was taken when rows were taken t times in turn.
Uses(L, t, n) == (t \div L) + (IF n - 1 < t % L THEN 1 ELSE 0)

\* The quotient is unique, too.
LEMMA QuotientIs ==
    ASSUME NEW L \in Nat, L > 0, NEW q \in Nat, NEW d \in 0..L - 1, NEW a \in Nat,
           a = L * q + d
    PROVE  a \div L = q
  BY SMT

\* Who is as far in a round stays as far.
LEMMA SameRemainder ==
    ASSUME NEW L \in Nat, L > 0, NEW a \in Nat, NEW b \in Nat, NEW k \in Nat, a % L = b % L
    PROVE  (a + k) % L = (b + k) % L
<1> DEFINE d == (b + k) % L
           q == (b + k) \div L
           qa == a \div L
           qb == b \div L
           e == b % L
<1>1. /\ d \in 0..L - 1 /\ q \in Nat /\ b + k = L * q + d
      /\ qa \in Nat /\ qb \in Nat /\ e \in 0..L - 1
      /\ a = L * qa + e /\ b = L * qb + e
  BY Remainder
<1> HIDE DEF d, q, qa, qb, e
<1> DEFINE sum == a + k
           rounds == q + qa - qb
<1>2. sum = L * rounds + d /\ rounds \in Int /\ sum \in Nat
  BY <1>1
<1> HIDE DEF sum, rounds
<1>3. sum % L = d
  BY <1>1, <1>2, RemainderIs
<1> USE DEF sum
<1> QED
  BY <1>3 DEF d

\* Less than a round apart nobody is as far.
LEMMA OtherRemainder ==
    ASSUME NEW L \in Nat, L > 0, NEW a \in Nat, NEW k \in 1..L - 1
    PROVE  (a + k) % L # a % L
<1> SUFFICES ASSUME (a + k) % L = a % L PROVE FALSE
  OBVIOUS
<1> DEFINE d == a % L
           q == a \div L
           r == (a + k) \div L
<1>1. /\ d \in 0..L - 1 /\ q \in Nat /\ a = L * q + d
      /\ r \in Nat /\ a + k = L * r + d
  BY Remainder
<1> HIDE DEF d, q, r
<1>2. k = L * (r - q) /\ r - q \in Int
  BY <1>1
<1>3. CASE r - q <= 0
  BY <1>2, <1>3
<1>4. CASE r - q >= 1
  BY <1>2, <1>4
<1> QED
  BY <1>2, <1>3, <1>4

\* A round is over after as many as there are.
LEMMA WholeRound ==
    ASSUME NEW L \in Nat, L > 0, NEW a \in Nat
    PROVE  (a + 2 * L) % L = a % L
<1>1. /\ a % L \in 0..L - 1 /\ a \div L \in Nat /\ a = L * (a \div L) + (a % L)
  BY Remainder
<1> DEFINE d == a % L
           q == a \div L
<1>2. a + 2 * L = L * (q + 2) + d /\ q + 2 \in Int /\ a + 2 * L \in Nat /\ d \in 0..L - 1
  <2> HIDE DEF d, q
  <2> QED
    BY <1>1 DEF d, q
<1> HIDE DEF d, q
<1>3. (a + 2 * L) % L = d
  BY <1>2, RemainderIs
<1> QED
  BY <1>3 DEF d

\* What was taken in turn was taken evenly, and the next is one that was
\* taken least.
LEMMA UsesInTurn ==
    ASSUME NEW L \in Nat, L > 0, NEW t \in Nat
    PROVE  /\ \A n \in 1..L : Uses(L, t, n) \in Nat
           /\ \A m, n \in 1..L : Uses(L, t, m) <= Uses(L, t, n) + 1
           /\ 1 + (t % L) \in 1..L
           /\ \A n \in 1..L : Uses(L, t + 1, n)
                 = IF n = 1 + (t % L) THEN Uses(L, t, n) + 1 ELSE Uses(L, t, n)
           /\ t < L => Uses(L, t, 1 + (t % L)) = 0
           /\ t >= L => \A n \in 1..L : Uses(L, t, n) > 0
           /\ \A n \in 1..L : Uses(L, 0, n) = 0
<1> DEFINE q == t \div L
           d == t % L
<1>1. q \in Nat /\ d \in 0..L - 1 /\ t = L * q + d
  BY Remainder
<1>2. \A n : Uses(L, t, n) = q + (IF n - 1 < d THEN 1 ELSE 0)
  BY DEF Uses
<1>3. \A n \in 1..L : Uses(L, t + 1, n) = IF n = 1 + d THEN Uses(L, t, n) + 1 ELSE Uses(L, t, n)
  <2> HIDE DEF q, d
  <2>1. CASE d < L - 1
    <3>1. t + 1 = L * q + (d + 1) /\ d + 1 \in 0..L - 1 /\ t + 1 \in Nat
      BY <1>1, <2>1
    <3>2. (t + 1) % L = d + 1
      BY <1>1, <3>1, RemainderIs
    <3>3. (t + 1) \div L = q
      BY <1>1, <3>1, QuotientIs
    <3> QED
      BY <1>1, <1>2, <3>2, <3>3 DEF Uses
  <2>2. CASE d = L - 1
    <3> DEFINE next == t + 1
               more == q + 1
    <3>1. next = L * more + 0 /\ 0 \in 0..L - 1 /\ next \in Nat /\ more \in Nat /\ more \in Int
      BY <1>1, <2>2
    <3> HIDE DEF next, more
    <3>2. next % L = 0
      BY <3>1, RemainderIs
    <3>3. next \div L = more
      BY <3>1, QuotientIs
    <3> USE DEF next, more
    <3> QED
      BY <1>1, <1>2, <2>2, <3>2, <3>3 DEF Uses
  <2> QED
    BY <1>1, <2>1, <2>2
<1>4. t < L => q = 0
  <2> HIDE DEF q, d
  <2> QED
    BY <1>1
<1>5. t >= L => q >= 1
  <2> HIDE DEF q, d
  <2> QED
    BY <1>1
<1>6. \A n \in 1..L : Uses(L, 0, n) = 0
  <2>1. 0 = L * 0 + 0 /\ 0 \in 0..L - 1
    OBVIOUS
  <2>2. 0 % L = 0 /\ 0 \div L = 0
    BY <2>1, RemainderIs, QuotientIs
  <2> QED
    BY <2>2 DEF Uses
<1> HIDE DEF q
<1> QED
  BY <1>1, <1>2, <1>3, <1>4, <1>5, <1>6

\* States of pools P of images I.
Selections(P, I) == [cursor : [P -> Nat], used : [I -> Nat], forbidden : SUBSET I,
                     chosen : Seq(I), failed : BOOLEAN]

\* Of the rows of a pool, taken in turn t times before the case and then taken times.
InTurn(rows, t, taken, r) ==
    LET L == Len(rows)
    IN  \A n \in 1..L :
           /\ r.used[rows[n]] = Uses(L, t + taken, n)
           /\ rows[n] \in r.forbidden <=> \E m \in 0..taken - 1 : n = 1 + ((t + m) % L)

TurnStep(pool, rows, wanted, c, r, reuse) ==
    IF Len(r.chosen) = wanted THEN r ELSE Visit(r, pool, rows, reuse)

\* After k visits.  c: the state before, how often was taken before, and how
\* many are wanted.
TurnHolds(pool, rows, wanted, c, k, r) ==
    LET L == Len(rows)
        s == c.before
    IN  /\ r \in Selections(c.pools, c.images)
        /\ r.failed = s.failed
        /\ \A p \in c.pools \ {pool} : r.cursor[p] = s.cursor[p]
        /\ \A i \in c.images \ ToSet(rows) : r.used[i] = s.used[i]
        /\ r.forbidden \subseteq s.forbidden \cup ToSet(rows)
        /\ ToSet(r.chosen) \subseteq ToSet(s.chosen) \cup ToSet(rows)
        /\ \E taken \in 0..c.count :
              /\ Len(r.chosen) = Len(s.chosen) + taken
              /\ InTurn(rows, c.turn, taken, r)
              /\ taken = c.count => r.cursor[pool] % L = (c.turn + taken) % L
              /\ taken < c.count =>
                    /\ r.cursor[pool] = s.cursor[pool] + k
                    /\ k <= 2 * L /\ c.turn + taken < L => taken = k
                    /\ k >= 2 * L => k - 2 * L <= taken

InRound == INSTANCE Folding WITH Step <- TurnStep, Holds <- TurnHolds

\* The rows of a pool are different images.
IsPool(rows, I) == /\ rows \in Seq(I) /\ Len(rows) \in Nat
                   /\ \A m, n \in 1..Len(rows) : rows[m] = rows[n] => m = n

\* An image is taken for the case.
Takes(r, image, g) ==
    /\ g.used = [r.used EXCEPT ![image] = @ + 1]
    /\ g.forbidden = r.forbidden \cup {image}

\* It is the turn of an image.
IsDue(I, rows, t, taken, r, image) ==
    /\ t \in Nat /\ taken \in Nat /\ taken < Len(rows)
    /\ IsPool(rows, I) /\ InTurn(rows, t, taken, r) /\ r.used \in [I -> Nat]
    /\ image = rows[1 + ((t + taken) % Len(rows))]

\* A row under the cursor is usable exactly when it is its turn; then it is taken.
LEMMA InTurnTaken ==
    ASSUME NEW I, NEW rows, NEW t, NEW taken, NEW r, NEW image, NEW g,
           IsDue(I, rows, t, taken, r, image), Takes(r, image, g)
    PROVE  /\ image \notin r.forbidden
           /\ t + taken < Len(rows) => r.used[image] = 0
           /\ InTurn(rows, t, taken + 1, g)
<1> USE DEF Takes, IsDue
<1> DEFINE L == Len(rows)
           u == t + taken
           a == 1 + (u % L)
<1>1. /\ L \in Nat /\ L > 0 /\ u \in Nat /\ a \in 1..L /\ image = rows[a]
      /\ u < L => Uses(L, u, a) = 0
      /\ \A n \in 1..L : Uses(L, u + 1, n) = IF n = a THEN Uses(L, u, n) + 1 ELSE Uses(L, u, n)
  <2>1. L \in Nat /\ L > 0 /\ u \in Nat /\ image = rows[a]
    BY DEF IsPool
  <2> HIDE DEF u
  <2> QED
    BY <2>1, UsesInTurn
<1>2. \A n \in 1..L : rows[n] \in I /\ (rows[n] = image <=> n = a)
  <2>1. \A n \in 1..L : rows[n] \in I
    BY DEF IsPool
  <2> QED
    BY <1>1, <2>1 DEF IsPool
<1>3. \A m \in 0..taken - 1 : 1 + ((t + m) % L) # a
  <2> TAKE m \in 0..taken - 1
  <2> DEFINE b == t + m
             k == taken - m
  <2>1. L \in Nat /\ L > 0 /\ taken < L
    BY <1>1
  <2> HIDE DEF L
  <2>2. b \in Nat /\ k \in 1..L - 1 /\ u = b + k
    BY <2>1
  <2> HIDE DEF b, k, u
  <2>3. u % L # b % L /\ b % L \in 0..L - 1 /\ u % L \in 0..L - 1
    BY <1>1, <2>1, <2>2, OtherRemainder, Remainder
  <2>4. 1 + (b % L) # a
    BY <2>3
  <2> QED
    BY <2>4 DEF b
<1>4. \A n \in 1..L :
         /\ r.used[rows[n]] = Uses(L, u, n)
         /\ rows[n] \in r.forbidden <=> \E m \in 0..taken - 1 : n = 1 + ((t + m) % L)
  BY DEF InTurn
<1>5. image \notin r.forbidden
  BY <1>1, <1>3, <1>4
<1>6. u < L => r.used[image] = 0
  BY <1>1, <1>4
<1>7. ASSUME NEW n \in 1..L
      PROVE  /\ g.used[rows[n]] = Uses(L, t + (taken + 1), n)
             /\ rows[n] \in g.forbidden <=> \E m \in 0..(taken + 1) - 1 : n = 1 + ((t + m) % L)
  <2>1. t + (taken + 1) = u + 1
    OBVIOUS
  <2>2. g.used[rows[n]] = IF n = a THEN r.used[rows[n]] + 1 ELSE r.used[rows[n]]
    BY <1>2
  <2>3. g.used[rows[n]] = Uses(L, u + 1, n)
    BY <1>1, <1>4, <2>2
  <2>4. rows[n] \in g.forbidden <=> (rows[n] \in r.forbidden \/ n = a)
    BY <1>2
  <2>5. 0..(taken + 1) - 1 = (0..taken - 1) \cup {taken}
    OBVIOUS
  <2>6. rows[n] \in g.forbidden <=> \E m \in 0..(taken + 1) - 1 : n = 1 + ((t + m) % L)
    BY <1>4, <2>4, <2>5
  <2> QED
    BY <2>1, <2>3, <2>6
<1> QED
  BY <1>5, <1>6, <1>7 DEF InTurn

\* The rows have been taken in turn before, and one pool's worth is wanted at most.
IsTurn(c, pool, rows) ==
    LET L == Len(rows)
    IN  /\ c.before \in Selections(c.pools, c.images) /\ pool \in c.pools
        /\ IsPool(rows, c.images) /\ c.turn \in Nat /\ c.count \in 1..L
        /\ c.before.cursor[pool] % L = c.turn % L

\* In a round with fresh rows the cursor is at the next one; in one without,
\* every row has been used; and in the last it has not passed the next one.
LEMMA VisitInTurn ==
    ASSUME NEW c, NEW pool, NEW rows, IsTurn(c, pool, rows),
           NEW wanted, wanted = Len(c.before.chosen) + c.count,
           NEW k \in Nat, NEW r, TurnHolds(pool, rows, wanted, c, k, r), Len(r.chosen) # wanted
    PROVE  TurnHolds(pool, rows, wanted, c, k + 1, Visit(r, pool, rows, k + 1 > 2 * Len(rows)))
<1> DEFINE L == Len(rows)
           s == c.before
           t == c.turn
           count == c.count
           I == c.images
           P == c.pools
           reuse == k + 1 > 2 * L
           g == Visit(r, pool, rows, reuse)
           at == r.cursor[pool]
           image == rows[1 + (at % L)]
           usable == Usable(r, image, reuse)
<1>1. /\ L \in Nat /\ L > 0 /\ rows \in Seq(I) /\ t \in Nat /\ count \in 1..L
      /\ pool \in P /\ s \in Selections(P, I)
      /\ s.cursor[pool] % L = t % L /\ s.cursor[pool] \in Nat
  <2>1. /\ s \in Selections(P, I) /\ pool \in P /\ IsPool(rows, I)
        /\ t \in Nat /\ count \in 1..L /\ s.cursor[pool] % L = t % L
    BY Zenon DEF IsTurn
  <2> HIDE DEF s, t, count, P, I
  <2>2. L \in Nat /\ rows \in Seq(I)
    BY <2>1, Zenon DEF IsPool
  <2>3. s.cursor[pool] \in Nat
    BY <2>1 DEF Selections
  <2>4. L > 0
    <3> HIDE DEF L
    <3> QED
      BY <2>1, <2>2
  <2> QED
    BY <2>1, <2>2, <2>3, <2>4, Zenon
<1>2. r \in Selections(P, I) /\ at \in Nat /\ r.used \in [I -> Nat]
      /\ r.chosen \in Seq(I)
  BY <1>1 DEF TurnHolds, Selections
<1>3. PICK taken \in 0..count :
        /\ Len(r.chosen) = Len(s.chosen) + taken
        /\ InTurn(rows, t, taken, r)
        /\ taken = count => at % L = (t + taken) % L
        /\ taken < count =>
              /\ at = s.cursor[pool] + k
              /\ k <= 2 * L /\ t + taken < L => taken = k
              /\ k >= 2 * L => k - 2 * L <= taken
  BY DEF TurnHolds
<1> HIDE DEF L
<1>4. taken < count /\ taken \in Nat /\ taken < L
  <2>1. taken # count
    BY <1>3
  <2> QED
    BY <1>1, <2>1
<1> DEFINE from == s.cursor[pool]
<1> HIDE DEF s, t, at, count, I, P
<1>14. /\ L \in Nat /\ L > 0 /\ t \in Nat /\ from \in Nat /\ from % L = t % L
       /\ at \in Nat /\ taken \in Nat /\ taken < L /\ taken < count /\ count \in Nat
  BY <1>1, <1>2, <1>4
<1>15. at = from + k
  BY <1>3, <1>4
<1> HIDE DEF from
<1>16. \A x, y, z \in Nat : x % L = y % L => (x + z) % L = (y + z) % L
  BY <1>14, SameRemainder, Zenon
<1>5. 1 + (at % L) \in 1..L /\ image \in I /\ image \in ToSet(rows)
  <2>1. 1 + (at % L) \in 1..L
    BY <1>1, <1>2, Remainder
  <2> QED
    BY <1>1, <2>1 DEF ToSet, L
<1>6. /\ g.cursor = [r.cursor EXCEPT ![pool] = at + 1]
      /\ g.used = IF usable THEN [r.used EXCEPT ![image] = @ + 1] ELSE r.used
      /\ g.forbidden = IF usable THEN r.forbidden \cup {image} ELSE r.forbidden
      /\ g.chosen = IF usable THEN Append(r.chosen, image) ELSE r.chosen
      /\ g.failed = r.failed
      /\ g = [cursor |-> g.cursor, used |-> g.used, forbidden |-> g.forbidden,
              chosen |-> g.chosen, failed |-> g.failed]
  BY <1>2 DEF Visit, Selections, at, L
<1>7. usable <=> image \notin r.forbidden /\ (reuse \/ r.used[image] = 0)
  BY DEF Usable
<1> HIDE DEF g, usable, image, reuse
<1>8. g \in Selections(P, I)
  <2>1. r.cursor \in [P -> Nat] /\ r.forbidden \in SUBSET I /\ r.failed \in BOOLEAN
    BY <1>2 DEF Selections
  <2>2. g.cursor \in [P -> Nat]
    <3>1. at + 1 \in Nat
      BY <1>2
    <3> QED
      BY <1>6, <2>1, <3>1
  <2>3. g.used \in [I -> Nat] /\ g.forbidden \in SUBSET I
    <3>1. [r.used EXCEPT ![image] = @ + 1] \in [I -> Nat]
      BY <1>2, <1>5
    <3>2. r.forbidden \cup {image} \in SUBSET I
      BY <1>5, <2>1
    <3> QED
      BY <1>2, <1>6, <2>1, <3>1, <3>2
  <2>4. g.chosen \in Seq(I)
    <3> DEFINE chosen == r.chosen
    <3>1. chosen \in Seq(I) /\ image \in I
      BY <1>2, <1>5
    <3> HIDE DEF chosen
    <3>2. Append(chosen, image) \in Seq(I)
      BY <3>1
    <3> USE DEF chosen
    <3>3. g.chosen = r.chosen \/ g.chosen = Append(r.chosen, image)
      BY <1>6
    <3> QED
      BY <3>1, <3>2, <3>3
  <2> QED
    BY <1>6, <2>1, <2>2, <2>3, <2>4 DEF Selections
<1>9. /\ g.failed = s.failed
      /\ \A p \in P \ {pool} : g.cursor[p] = s.cursor[p]
      /\ \A i \in I \ ToSet(rows) : g.used[i] = s.used[i]
      /\ g.forbidden \subseteq s.forbidden \cup ToSet(rows)
      /\ ToSet(g.chosen) \subseteq ToSet(s.chosen) \cup ToSet(rows)
  <2>1. /\ r.failed = s.failed
        /\ \A p \in P \ {pool} : r.cursor[p] = s.cursor[p]
        /\ \A i \in I \ ToSet(rows) : r.used[i] = s.used[i]
        /\ r.forbidden \subseteq s.forbidden \cup ToSet(rows)
        /\ ToSet(r.chosen) \subseteq ToSet(s.chosen) \cup ToSet(rows)
    BY DEF TurnHolds, s, I, P
  <2>2. \A p \in P \ {pool} : g.cursor[p] = r.cursor[p]
    <3>1. r.cursor \in [P -> Nat]
      BY <1>2 DEF Selections
    <3> QED
      BY <1>6, <3>1
  <2>3. \A i \in I \ ToSet(rows) : g.used[i] = r.used[i]
    BY <1>2, <1>5, <1>6
  <2>4. g.forbidden \subseteq r.forbidden \cup ToSet(rows)
    BY <1>5, <1>6
  <2>5. ToSet(g.chosen) \subseteq ToSet(r.chosen) \cup {image}
    <3>1. \A n \in DOMAIN Append(r.chosen, image) :
             \/ n \in DOMAIN r.chosen /\ Append(r.chosen, image)[n] = r.chosen[n]
             \/ Append(r.chosen, image)[n] = image
      BY <1>2
    <3>2. g.chosen = r.chosen \/ g.chosen = Append(r.chosen, image)
      BY <1>6
    <3> QED
      BY <3>1, <3>2 DEF ToSet
  <2> QED
    BY <1>5, <1>6, <2>1, <2>2, <2>3, <2>4, <2>5
<1>10. g.cursor[pool] = at + 1
  <2>1. r.cursor \in [P -> Nat]
    BY <1>2 DEF Selections
  <2> QED
    BY <1>1, <1>6, <2>1
<1> DEFINE Later(more) ==
              /\ Len(g.chosen) = Len(s.chosen) + more
              /\ InTurn(rows, t, more, g)
              /\ more = count => g.cursor[pool] % L = (t + more) % L
              /\ more < count =>
                    /\ g.cursor[pool] = s.cursor[pool] + (k + 1)
                    /\ k + 1 <= 2 * L /\ t + more < L => more = k + 1
                    /\ k + 1 >= 2 * L => k + 1 - 2 * L <= more
\* The next row in turn is under the cursor, and taken.
<1>11. ASSUME at % L = (t + taken) % L, k < 2 * L => t + taken < L /\ taken = k,
              k >= 2 * L => k - 2 * L = taken
       PROVE  Later(taken + 1)
  <2>1. image = rows[1 + ((t + taken) % L)]
    BY <1>11 DEF image
  <2>2. /\ image \notin r.forbidden
        /\ t + taken < L => r.used[image] = 0
        /\ Takes(r, image, g) => InTurn(rows, t, taken + 1, g)
    <3>1. IsPool(rows, I)
      BY DEF IsTurn, I
    <3>2. image = rows[1 + ((t + taken) % Len(rows))] /\ taken < Len(rows)
      BY <1>4, <2>1 DEF L
    <3>3. IsDue(I, rows, t, taken, r, image)
      BY <1>1, <1>2, <1>3, <1>4, <3>1, <3>2 DEF IsDue
    <3>4. \A h : Takes(r, image, h) =>
             /\ image \notin r.forbidden
             /\ t + taken < Len(rows) => r.used[image] = 0
             /\ InTurn(rows, t, taken + 1, h)
      BY <3>3, InTurnTaken, Zenon
    <3> DEFINE h == [used |-> [r.used EXCEPT ![image] = @ + 1],
                     forbidden |-> r.forbidden \cup {image}]
    <3>5. Takes(r, image, h)
      BY DEF Takes
    <3> HIDE DEF h
    <3>6. image \notin r.forbidden /\ (t + taken < Len(rows) => r.used[image] = 0)
      BY <3>4, <3>5, Zenon
    <3>7. Takes(r, image, g) => InTurn(rows, t, taken + 1, g)
      BY <3>4, Zenon
    <3> QED
      BY <3>6, <3>7 DEF L
  <2>3. usable
    BY <1>1, <1>7, <1>11, <2>2 DEF reuse
  <2>4. Len(g.chosen) = Len(s.chosen) + (taken + 1)
    <3> DEFINE now == Len(g.chosen)
               before == Len(r.chosen)
               first == Len(s.chosen)
    <3>1. now = before + 1
      BY <1>2, <1>6, <2>3
    <3>2. first \in Nat /\ before = first + taken
      BY <1>1, <1>3 DEF Selections
    <3> HIDE DEF now, before, first
    <3>3. now = first + (taken + 1)
      BY <1>14, <3>1, <3>2
    <3> QED
      BY <3>3 DEF now, first
  <2>5. InTurn(rows, t, taken + 1, g)
    BY <1>6, <2>2, <2>3 DEF Takes
  <2>6. g.cursor[pool] % L = (t + (taken + 1)) % L
    <3> DEFINE b == t + taken
    <3>1. b \in Nat /\ at % L = b % L
      BY <1>1, <1>4, <1>11
    <3> HIDE DEF b
    <3>2. (at + 1) % L = (b + 1) % L
      BY <1>14, <1>16, <3>1, 1 \in Nat, Zenon
    <3>3. t + (taken + 1) = b + 1
      BY <1>1, <1>4 DEF b
    <3> QED
      BY <1>10, <3>2, <3>3
  <2>7. /\ g.cursor[pool] = s.cursor[pool] + (k + 1)
        /\ k + 1 <= 2 * L /\ t + (taken + 1) < L => taken + 1 = k + 1
        /\ k + 1 >= 2 * L => k + 1 - 2 * L <= taken + 1
    <3>1. g.cursor[pool] = s.cursor[pool] + (k + 1)
      <4>1. g.cursor[pool] = from + (k + 1)
        BY <1>10, <1>14, <1>15
      <4> QED
        BY <4>1 DEF from
    <3>2. k + 1 <= 2 * L => taken + 1 = k + 1
      BY <1>14, <1>11
    <3>3. k + 1 >= 2 * L => k + 1 - 2 * L <= taken + 1
      BY <1>14, <1>11
    <3> QED
      BY <3>1, <3>2, <3>3
  <2> QED
    BY <2>4, <2>5, <2>6, <2>7
\* Another row is under the cursor, and left.
<1>12. ASSUME ~ usable, k < 2 * L => t + taken >= L, k >= 2 * L => k - 2 * L < taken
       PROVE  Later(taken)
  <2>1. InTurn(rows, t, taken, g) /\ Len(g.chosen) = Len(s.chosen) + taken
    BY <1>3, <1>6, <1>12 DEF InTurn
  <2>2. g.cursor[pool] = s.cursor[pool] + (k + 1)
    <3>1. g.cursor[pool] = from + (k + 1)
      BY <1>10, <1>14, <1>15
    <3> QED
      BY <3>1 DEF from
  <2>3. k + 1 <= 2 * L => ~ (t + taken < L)
    BY <1>14, <1>12
  <2>4. k + 1 >= 2 * L => k + 1 - 2 * L <= taken
    BY <1>14, <1>12
  <2>5. taken # count
    BY <1>14
  <2> QED
    BY <2>1, <2>2, <2>3, <2>4, <2>5
<1>13. \E more \in 0..count : Later(more)
  <2>1. CASE k < 2 * L /\ t + taken < L
    <3>1. taken = k
      BY <1>3, <1>14, <2>1
    <3>2. at % L = (t + taken) % L
      <4> HIDE DEF Later
      <4>1. from \in Nat /\ t \in Nat /\ from % L = t % L
        BY <1>14, Zenon
      <4>2. (from + k) % L = (t + k) % L
        BY <1>16, <4>1, Zenon
      <4> QED
        BY <1>15, <3>1, <4>2, Zenon
    <3>3. ~ (k >= 2 * L)
      BY <1>14, <2>1
    <3>4. Later(taken + 1)
      BY <2>1, <3>1, <3>2, <3>3, <1>11
    <3> HIDE DEF Later
    <3> QED
      BY <1>14, <3>4
  <2>2. CASE k < 2 * L /\ t + taken >= L
    <3> DEFINE u == t + taken
    <3>1. u \in Nat /\ u >= L
      BY <1>1, <1>4, <2>2
    <3> HIDE DEF u
    <3>2. \A n \in 1..L : Uses(L, u, n) > 0
      BY <1>1, <3>1, UsesInTurn
    <3>3. r.used[image] > 0
      BY <1>3, <1>5, <3>2 DEF InTurn, u, image, L
    <3>4. ~ usable
      BY <1>1, <1>7, <2>2, <3>3 DEF reuse
    <3>5. Later(taken)
      BY <1>1, <2>2, <3>4, <1>12
    <3> HIDE DEF Later
    <3> QED
      BY <1>1, <1>4, <3>5
  <2>3. CASE k >= 2 * L
    <3> DEFINE m == k - 2 * L
    <3>1. m \in Nat /\ m <= taken /\ k = m + 2 * L
      BY <1>3, <1>14, <2>3
    <3> HIDE DEF m
    <3>2. at % L = (t + m) % L
      <4>1. m \in Nat /\ from \in Nat /\ t \in Nat /\ from % L = t % L
        BY <1>14, <3>1
      <4>2. (from + m) % L = (t + m) % L
        BY <4>1, <1>16
      <4> DEFINE b == from + m
      <4>3. b \in Nat /\ at = b + 2 * L
        BY <1>14, <1>15, <3>1
      <4>4. b % L = (t + m) % L
        BY <4>2
      <4> HIDE DEF b
      <4>5. (b + 2 * L) % L = b % L
        BY <1>14, <4>3, WholeRound
      <4> QED
        BY <4>3, <4>4, <4>5
    <3>3. CASE m = taken
      <4>1. at % L = (t + taken) % L /\ ~ (k < 2 * L) /\ k - 2 * L = taken
        BY <1>14, <2>3, <3>1, <3>2, <3>3
      <4>2. Later(taken + 1)
        BY <4>1, <1>11
      <4> HIDE DEF Later
      <4> QED
        BY <1>14, <4>2
    <3>4. CASE m < taken
      <4>1. m \in 0..taken - 1 /\ 1 + (at % L) = 1 + ((t + m) % L)
        BY <1>4, <3>1, <3>2, <3>4
      <4>2. image \in r.forbidden
        BY <1>3, <1>5, <4>1 DEF InTurn, image, L
      <4>3. ~ usable
        BY <1>7, <4>2
      <4>4. Later(taken)
        BY <1>1, <2>3, <3>1, <3>4, <4>3, <1>12
      <4> HIDE DEF Later
      <4> QED
        BY <1>1, <1>4, <4>4
    <3> QED
      BY <1>4, <3>1, <3>3, <3>4
  <2> QED
    BY <1>1, <1>4, <2>1, <2>2, <2>3
<1> QED
  BY <1>8, <1>9, <1>13 DEF TurnHolds, g, reuse, L, s, t, count, I, P

\* The rows of a pool were taken in turn, t times in all.
Turns(rows, used, cursor, t) ==
    LET L == Len(rows)
    IN  /\ cursor % L = t % L
        /\ \A n \in 1..L : used[rows[n]] = Uses(L, t, n)

\* A case for which nothing was taken from the pool.
IsFirst(c, pool, rows) ==
    /\ IsTurn(c, pool, rows) /\ c.before.forbidden \cap ToSet(rows) = {}
    /\ \A n \in 1..Len(rows) : c.before.used[rows[n]] = Uses(Len(rows), c.turn, n)

\* What is wanted of a pool for one case is taken in turn.
LEMMA RoundInTurn ==
    ASSUME NEW c, NEW pool, NEW rows, NEW g, IsFirst(c, pool, rows),
           g = Selector_take(c.before, pool, rows, c.count, 2 * Len(rows))
    PROVE  /\ g \in Selections(c.pools, c.images)
           /\ ~ g.failed => Turns(rows, g.used, g.cursor[pool], c.turn + c.count)
           /\ \A p \in c.pools \ {pool} : g.cursor[p] = c.before.cursor[p]
           /\ \A i \in c.images \ ToSet(rows) : g.used[i] = c.before.used[i]
           /\ g.forbidden \subseteq c.before.forbidden \cup ToSet(rows)
           /\ ToSet(g.chosen) \subseteq ToSet(c.before.chosen) \cup ToSet(rows)
<1> USE DEF IsFirst
<1> DEFINE L == Len(rows)
           s == c.before
           wanted == Len(s.chosen) + c.count
           rounds == [visit \in 1..2 * (2 * L) |-> visit > 2 * L]
           after == InRound!Folded(pool, rows, wanted, c, s, rounds)
           Holding(k, r) == TurnHolds(pool, rows, wanted, c, k, r)
<1>1. g = [after EXCEPT !.failed = @ \/ Len(after.chosen) # wanted]
  BY Zenon DEF Selector_take, TurnStep, InRound!Folded, InRound!Iterates, InRound!Unfolds,
               InRound!Greatest, FoldLeft, MapThenFoldSet, Max
<1>2. /\ L \in Nat /\ L > 0 /\ c.turn \in Nat /\ c.count \in 1..L
      /\ s \in Selections(c.pools, c.images) /\ s.cursor[pool] % L = c.turn % L
      /\ s.cursor[pool] \in Nat
  BY DEF IsTurn, IsPool, Selections
<1>3. rounds \in Seq(BOOLEAN) /\ Len(rounds) = 4 * L /\ Len(rounds) \in Nat
      /\ \A k \in 1..Len(rounds) : rounds[k] = (k > 2 * L)
  <2> HIDE DEF L
  <2> QED
    BY <1>2
<1> HIDE DEF rounds, after
<1>4. Holding(0, s)
  <2>1. InTurn(rows, c.turn, 0, s)
    <3>1. \A n \in 1..L : rows[n] \notin s.forbidden
      BY <1>2 DEF ToSet, IsTurn, IsPool
    <3>2. 0..0 - 1 = {} /\ c.turn + 0 = c.turn
      BY <1>2
    <3> QED
      BY <3>1, <3>2 DEF InTurn
  <2>2. 0 \in 0..c.count /\ 0 # c.count
    BY <1>2
  <2>3. Len(s.chosen) = Len(s.chosen) + 0 /\ s.cursor[pool] = s.cursor[pool] + 0
        /\ ~ (0 >= 2 * L)
    <3>1. Len(s.chosen) \in Nat
      BY <1>2 DEF Selections
    <3> QED
      BY <1>2, <3>1
  <2>4. \E taken \in 0..c.count :
          /\ Len(s.chosen) = Len(s.chosen) + taken
          /\ InTurn(rows, c.turn, taken, s)
          /\ taken = c.count => s.cursor[pool] % L = (c.turn + taken) % L
          /\ taken < c.count =>
                /\ s.cursor[pool] = s.cursor[pool] + 0
                /\ 0 <= 2 * L /\ c.turn + taken < L => taken = 0
                /\ 0 >= 2 * L => 0 - 2 * L <= taken
    BY <2>1, <2>2, <2>3
  <2> QED
    BY <1>2, <2>4 DEF TurnHolds
<1>5. ASSUME NEW k \in 1..Len(rounds), NEW r, Holding(k - 1, r)
      PROVE  Holding(k, TurnStep(pool, rows, wanted, c, r, rounds[k]))
  <2>1. CASE Len(r.chosen) = wanted
    <3>1. TurnStep(pool, rows, wanted, c, r, rounds[k]) = r
      BY <2>1 DEF TurnStep
    <3>2. PICK taken \in 0..c.count :
             /\ Len(r.chosen) = Len(s.chosen) + taken
             /\ InTurn(rows, c.turn, taken, r)
             /\ taken = c.count => r.cursor[pool] % L = (c.turn + taken) % L
      BY <1>5 DEF TurnHolds
    <3>3. taken = c.count
      <4> DEFINE length == Len(s.chosen)
                 count == c.count
      <4>1. length \in Nat /\ count \in Nat /\ length + taken = length + count
        BY <1>2, <2>1, <3>2 DEF Selections
      <4> HIDE DEF length, count
      <4>2. taken = count
        BY <4>1
      <4> QED
        BY <4>2 DEF count
    <3>4. c.count \in 0..c.count /\ ~ (c.count < c.count)
      BY <1>2
    <3>5. Holding(k, r)
      BY <1>5, <3>2, <3>3, <3>4 DEF TurnHolds
    <3> QED
      BY <3>1, <3>5
  <2>2. CASE Len(r.chosen) # wanted
    <3> DEFINE before == k - 1
    <3>1. before \in Nat /\ before + 1 = k /\ rounds[k] = (before + 1 > 2 * L)
      BY <1>3
    <3>2. TurnStep(pool, rows, wanted, c, r, rounds[k]) = Visit(r, pool, rows, rounds[k])
      BY <2>2 DEF TurnStep
    <3>3. TurnHolds(pool, rows, wanted, c, before, r)
      BY <1>5
    <3> HIDE DEF before
    <3>4. wanted = Len(c.before.chosen) + c.count
      OBVIOUS
    <3> HIDE DEF wanted
    <3>5. TurnHolds(pool, rows, wanted, c, before + 1,
                    Visit(r, pool, rows, before + 1 > 2 * Len(rows)))
      BY <2>2, <3>1, <3>3, <3>4, VisitInTurn, Zenon
    <3> QED
      BY <3>1, <3>2, <3>5
  <2> QED
    BY <2>1, <2>2
<1>6. Holding(Len(rounds), after)
  <2>1. TurnHolds(pool, rows, wanted, c, 0, s)
    BY <1>4
  <2>2. \A k \in 1..Len(rounds) : \A r : TurnHolds(pool, rows, wanted, c, k - 1, r) =>
            TurnHolds(pool, rows, wanted, c, k, TurnStep(pool, rows, wanted, c, r, rounds[k]))
    BY <1>5
  <2> HIDE DEF wanted
  <2> QED
    BY <1>3, <2>1, <2>2, InRound!FoldKeeps, SMT DEF after
<1>7. after \in Selections(c.pools, c.images)
  BY <1>6 DEF TurnHolds
<1>8. /\ g.cursor = after.cursor /\ g.used = after.used /\ g.forbidden = after.forbidden
      /\ g.chosen = after.chosen /\ g.failed = (after.failed \/ Len(after.chosen) # wanted)
      /\ g = [cursor |-> g.cursor, used |-> g.used, forbidden |-> g.forbidden,
              chosen |-> g.chosen, failed |-> g.failed]
  BY <1>1, <1>7 DEF Selections
<1>9. g \in Selections(c.pools, c.images)
  <2>1. g.failed \in BOOLEAN
    BY <1>8
  <2> QED
    BY <1>7, <1>8, <2>1 DEF Selections
<1>10. ASSUME ~ g.failed
       PROVE  Turns(rows, g.used, g.cursor[pool], c.turn + c.count)
  <2>1. Len(after.chosen) = wanted
    BY <1>8, <1>10
  <2>2. PICK taken \in 0..c.count :
           /\ Len(after.chosen) = Len(s.chosen) + taken
           /\ InTurn(rows, c.turn, taken, after)
           /\ taken = c.count => after.cursor[pool] % L = (c.turn + taken) % L
    BY <1>6 DEF TurnHolds
  <2>3. taken = c.count
    <3> DEFINE length == Len(s.chosen)
               count == c.count
    <3>1. length \in Nat /\ count \in Nat /\ length + taken = length + count
      BY <1>2, <2>1, <2>2 DEF Selections
    <3> HIDE DEF length, count
    <3>2. taken = count
      BY <3>1
    <3> QED
      BY <3>2 DEF count
  <2> QED
    BY <1>8, <2>2, <2>3 DEF Turns, InTurn
<1> QED
  BY <1>6, <1>8, <1>9, <1>10 DEF TurnHolds

\* Every pool of P is taken in turn; R gives its rows.
Turning(P, R, I, s) ==
    /\ s \in Selections(P, I)
    /\ \A p \in P : \E t \in Nat : Turns(R[p], s.used, s.cursor[p], t)

\* Pools of different images.
AreApart(P, R, I) ==
    /\ \A p \in P : IsPool(R[p], I)
    /\ \A p, q \in P : p # q => ToSet(R[p]) \cap ToSet(R[q]) = {}

\* A pool from which nothing was taken for the case serves it.
LEMMA PoolTakes ==
    ASSUME NEW P, NEW R, NEW I, AreApart(P, R, I), NEW s, Turning(P, R, I, s),
           NEW pool \in P, NEW count \in Nat, count > 0,
           s.forbidden \cap ToSet(R[pool]) = {},
           NEW g, g = Pool_take(s, pool, R[pool], count)
    PROVE  /\ g \in Selections(P, I)
           /\ ~ g.failed =>
                 /\ Turning(P, R, I, g)
                 /\ g.forbidden \subseteq s.forbidden \cup ToSet(R[pool])
                 /\ ToSet(g.chosen) \subseteq ToSet(s.chosen) \cup ToSet(R[pool])
<1> DEFINE rows == R[pool]
           L == Len(rows)
<1>1. s \in Selections(P, I) /\ IsPool(rows, I)
  BY DEF Turning, AreApart
<1>12. CASE s.failed \/ L < count
  <2>1. g = [s EXCEPT !.failed = TRUE]
    BY <1>12 DEF Pool_take
  <2> HIDE DEF rows
  <2>2. g \in Selections(P, I) /\ g.failed
    BY <1>1, <2>1 DEF Selections
  <2> QED
    BY <2>2
<1> SUFFICES ASSUME ~ (s.failed \/ L < count)
             PROVE  /\ g \in Selections(P, I)
                    /\ ~ g.failed =>
                          /\ Turning(P, R, I, g)
                          /\ g.forbidden \subseteq s.forbidden \cup ToSet(rows)
                          /\ ToSet(g.chosen) \subseteq ToSet(s.chosen) \cup ToSet(rows)
  BY <1>12
<1>2. ~ s.failed /\ ~ (L < count) /\ g = Selector_take(s, pool, rows, count, 2 * L)
  BY DEF Pool_take
<1>3. PICK t \in Nat : Turns(rows, s.used, s.cursor[pool], t)
  BY DEF Turning
<1> DEFINE c == [before |-> s, turn |-> t, count |-> count, pools |-> P, images |-> I]
<1>4. /\ c.before = s /\ c.turn = t /\ c.count = count /\ c.pools = P /\ c.images = I
  OBVIOUS
<1> HIDE DEF c
<1>5. count \in 1..L
  BY <1>1, <1>2 DEF IsPool
<1>6. IsTurn(c, pool, rows)
  BY <1>1, <1>3, <1>4, <1>5 DEF IsTurn, Turns
<1>7. \A n \in 1..Len(rows) : c.before.used[rows[n]] = Uses(Len(rows), c.turn, n)
  BY <1>3, <1>4 DEF Turns
<1> HIDE DEF L
<1>8. /\ c.before.forbidden \cap ToSet(rows) = {}
      /\ g = Selector_take(c.before, pool, rows, c.count, 2 * Len(rows))
  BY <1>2, <1>4 DEF L
<1>11. IsFirst(c, pool, rows)
  BY <1>6, <1>7, <1>8 DEF IsFirst
<1> HIDE DEF rows
<1>9. /\ g \in Selections(P, I)
      /\ ~ g.failed => Turns(rows, g.used, g.cursor[pool], t + count)
      /\ \A p \in P \ {pool} : g.cursor[p] = s.cursor[p]
      /\ \A i \in I \ ToSet(rows) : g.used[i] = s.used[i]
      /\ g.forbidden \subseteq s.forbidden \cup ToSet(rows)
      /\ ToSet(g.chosen) \subseteq ToSet(s.chosen) \cup ToSet(rows)
  <2>1. /\ g \in Selections(c.pools, c.images)
        /\ ~ g.failed => Turns(rows, g.used, g.cursor[pool], c.turn + c.count)
        /\ \A p \in c.pools \ {pool} : g.cursor[p] = c.before.cursor[p]
        /\ \A i \in c.images \ ToSet(rows) : g.used[i] = c.before.used[i]
        /\ g.forbidden \subseteq c.before.forbidden \cup ToSet(rows)
        /\ ToSet(g.chosen) \subseteq ToSet(c.before.chosen) \cup ToSet(rows)
    BY <1>8, <1>11, RoundInTurn
  <2> QED
    BY <1>4, <2>1
<1>10. ASSUME ~ g.failed, NEW p \in P
       PROVE  \E u \in Nat : Turns(R[p], g.used, g.cursor[p], u)
  <2>1. CASE p = pool
    <3>1. t + count \in Nat
      OBVIOUS
    <3> QED
      BY <1>10, <1>9, <2>1, <3>1 DEF rows
  <2>2. CASE p # pool
    <3>1. PICK u \in Nat : Turns(R[p], s.used, s.cursor[p], u)
      BY DEF Turning
    <3>2. IsPool(R[p], I) /\ ToSet(R[p]) \cap ToSet(rows) = {}
      BY <2>2 DEF AreApart, rows
    <3>3. \A n \in 1..Len(R[p]) : R[p][n] \in I /\ R[p][n] \notin ToSet(rows)
      <4>1. \A n \in 1..Len(R[p]) : R[p][n] \in I /\ R[p][n] \in ToSet(R[p])
        BY <3>2 DEF IsPool, ToSet
      <4> QED
        BY <3>2, <4>1
    <3>4. g.cursor[p] = s.cursor[p] /\ \A n \in 1..Len(R[p]) : g.used[R[p][n]] = s.used[R[p][n]]
      BY <1>9, <2>2, <3>3
    <3>5. Turns(R[p], g.used, g.cursor[p], u)
      BY <3>1, <3>4 DEF Turns
    <3> QED
      BY <3>5
  <2> QED
    BY <2>1, <2>2
<1> QED
  BY <1>9, <1>10 DEF Turning, rows

\* What was taken in turn was taken evenly.
LEMMA TurningIsEven ==
    ASSUME NEW P, NEW R, NEW I, AreApart(P, R, I), NEW s, Turning(P, R, I, s), NEW pool \in P,
           NEW i \in ToSet(R[pool]), NEW j \in ToSet(R[pool])
    PROVE  s.used[i] <= s.used[j] + 1
<1> DEFINE rows == R[pool]
           L == Len(rows)
<1>1. PICK t \in Nat : Turns(rows, s.used, s.cursor[pool], t)
  BY DEF Turning
<1>2. IsPool(rows, I)
  BY DEF AreApart
<1> HIDE DEF rows
<1>3. L \in Nat /\ rows \in Seq(I)
  BY <1>2 DEF IsPool
<1>4. PICK m \in 1..L, n \in 1..L : rows[m] = i /\ rows[n] = j
  BY <1>3 DEF ToSet, rows
<1>5. L > 0
  BY <1>3, <1>4
<1>6. s.used[i] = Uses(L, t, m) /\ s.used[j] = Uses(L, t, n)
  BY <1>1, <1>4 DEF Turns
<1> HIDE DEF L
<1>7. \A a, b \in 1..L : Uses(L, t, a) <= Uses(L, t, b) + 1
  BY <1>3, <1>5, UsesInTurn, Zenon
<1> QED
  BY <1>4, <1>6, <1>7

\* The pools are fresh, and in turn.
LEMMA FreshTurning ==
    ASSUME NEW P, NEW R, NEW I, AreApart(P, R, I)
    PROVE  Turning(P, R, I, FreshPools(P, I))
<1> DEFINE s == FreshPools(P, I)
<1>1. s \in Selections(P, I)
  <2>1. << >> \in Seq(I)
    OBVIOUS
  <2> QED
    BY <2>1 DEF FreshPools, Selections
<1>2. ASSUME NEW p \in P
      PROVE  Turns(R[p], s.used, s.cursor[p], 0)
  <2>1. IsPool(R[p], I)
    BY DEF AreApart
  <2>2. s.cursor[p] = 0
    BY DEF FreshPools
  <2>3. \A n \in 1..Len(R[p]) : s.used[R[p][n]] = 0
    BY <2>1 DEF FreshPools, IsPool
  <2>4. ASSUME NEW n \in 1..Len(R[p])
        PROVE  Uses(Len(R[p]), 0, n) = 0
    <3>1. Len(R[p]) \in Nat /\ Len(R[p]) > 0
      BY <2>1 DEF IsPool
    <3> QED
      BY <3>1, UsesInTurn
  <2> QED
    BY <2>2, <2>3, <2>4 DEF Turns
<1> QED
  BY <1>1, <1>2 DEF Turning

(***************************************************************************)
(* The rows and the pools of v1.8.                                         *)
(***************************************************************************)

\* What a function gives for finitely many is finitely many.
LEMMA ImageIsFinite ==
    ASSUME NEW S, IsFiniteSet(S), NEW f
    PROVE  IsFiniteSet({f[x] : x \in S})
<1> DEFINE T == {f[x] : x \in S}
           g == [x \in S |-> f[x]]
<1>1. g \in Surjection(S, T)
  BY DEF Surjection
<1> HIDE DEF g, T
<1>2. IsFiniteSet(T)
  BY <1>1, FS_Surjection
<1> QED
  BY <1>2 DEF T

\* A list has finitely many members.
LEMMA FewMembers ==
    ASSUME NEW list, IsSequence(list)
    PROVE  IsFiniteSet(ToSet(list))
<1>1. DOMAIN list = 1..Len(list) /\ Len(list) \in Nat
  BY DEF IsSequence
<1>2. IsFiniteSet(DOMAIN list)
  BY <1>1, FS_Interval
<1> QED
  BY <1>2, ImageIsFinite DEF ToSet

\* What is picked from a list.
LEMMA PickedAre ==
    ASSUME NEW list, IsSequence(list), NEW places, places \subseteq DOMAIN list
    PROVE  /\ IsSequence(Picked(list, places))
           /\ ToSet(Picked(list, places)) = {list[n] : n \in places}
<1> DEFINE order == ascending(places)
           picked == [k \in DOMAIN order |-> list[order[k]]]
<1>1. IsFiniteSet(places) /\ places \subseteq Int
  <2>1. DOMAIN list = 1..Len(list) /\ Len(list) \in Nat
    BY DEF IsSequence
  <2>2. IsFiniteSet(1..Len(list)) /\ DOMAIN list \subseteq Int
    BY <2>1, FS_Interval
  <2> QED
    BY <2>1, <2>2, FS_Subset
<1>2. /\ Len(order) \in Nat /\ DOMAIN order = 1..Len(order)
      /\ \A n \in 1..Len(order) : order[n] \in places
      /\ \A x \in places : \E n \in 1..Len(order) : order[n] = x
  BY <1>1, Ascending
<1>3. Picked(list, places) = picked
  BY DEF Picked
<1> HIDE DEF order
<1>4. IsSequence(picked)
  BY <1>2 DEF IsSequence
<1>5. ToSet(picked) = {list[n] : n \in places}
  BY <1>2 DEF ToSet
<1> QED
  BY <1>3, <1>4, <1>5

\* The rows of a cell, and of a type or another.
LEMMA PartsAre ==
    ASSUME NEW rows, IsSequence(rows), NEW cell, NEW type
    PROVE  /\ IsSequence(Case(rows, cell)) /\ IsSequence(Only(rows, type))
           /\ IsSequence(Other(rows, type))
           /\ ToSet(Case(rows, cell)) = {r \in ToSet(rows) : r.cell = cell}
           /\ ToSet(Only(rows, type)) = {r \in ToSet(rows) : r.type = type}
           /\ ToSet(Other(rows, type)) = {r \in ToSet(rows) : r.type # type}
<1> DEFINE case == {n \in DOMAIN rows : rows[n].cell = cell}
           only == {n \in DOMAIN rows : rows[n].type = type}
           other == {n \in DOMAIN rows : rows[n].type # type}
<1>1. case \subseteq DOMAIN rows /\ only \subseteq DOMAIN rows /\ other \subseteq DOMAIN rows
  OBVIOUS
<1>2. /\ {rows[n] : n \in case} = {r \in ToSet(rows) : r.cell = cell}
      /\ {rows[n] : n \in only} = {r \in ToSet(rows) : r.type = type}
      /\ {rows[n] : n \in other} = {r \in ToSet(rows) : r.type # type}
  BY DEF ToSet
<1>3. /\ Case(rows, cell) = Picked(rows, case) /\ Only(rows, type) = Picked(rows, only)
      /\ Other(rows, type) = Picked(rows, other)
  BY DEF Case, Only, Other
<1> HIDE DEF case, only, other
<1> QED
  BY <1>1, <1>2, <1>3, PickedAre

\* The first row of some.
LEMMA FirstOfRows ==
    ASSUME NEW rows, IsSequence(rows), Len(rows) = WaveImages
    PROVE  rows[1] \in ToSet(rows)
<1>1. 1 \in DOMAIN rows
  BY CalibrationAssumption DEF IsSequence
<1> QED
  BY <1>1 DEF ToSet

\* The cells of rows, in order.
LEMMA CellsAre ==
    ASSUME NEW rows, IsSequence(rows), \A r \in ToSet(rows) : r.cell \in Int
    PROVE  \E S : CellsOf(rows) \in Seq(S)
<1> DEFINE cells == {r.cell : r \in ToSet(rows)}
           cell == [r \in ToSet(rows) |-> r.cell]
<1>1. cells = {cell[r] : r \in ToSet(rows)}
  OBVIOUS
<1>2. cells \subseteq Int
  OBVIOUS
<1> HIDE DEF cell
<1>3. IsFiniteSet(cells)
  BY <1>1, FewMembers, ImageIsFinite
<1>4. CellsOf(rows) = ascending(cells)
  BY DEF CellsOf
<1> HIDE DEF cells
<1>5. ascending(cells) \in Seq(cells)
  BY <1>2, <1>3, Ascending
<1> QED
  BY <1>4, <1>5

RowFields == {"wave", "cell", "type", "set", "object", "quality", "status", "axis"}

\* Rows of manifests.
AreRows(rows) ==
    /\ IsSequence(rows)
    /\ \A r \in ToSet(rows) :
          /\ DOMAIN r = RowFields /\ r.cell \in Int /\ r.object.source \in Int
          /\ r.type \in ImageTypes /\ r.status \in {"normal", "defective"}
          /\ r.object = [set |-> r.set, type |-> r.type, source |-> r.object.source]
    /\ \A r, q \in ToSet(rows) :
          r.type = q.type /\ r.set = q.set /\ r.object.source = q.object.source
              => r.object = q.object

\* Sources of a type, from rows of it.
AreSources(sources, rows, type) ==
    /\ IsFiniteSet(DOMAIN sources)
    /\ \A o \in DOMAIN sources :
          /\ sources[o] \in ToSet(rows) /\ sources[o].object = o
          /\ sources[o].type = type /\ sources[o].set = "INITIAL"

\* What load_sources gives is that.
LEMMA LoadedSources ==
    ASSUME NEW rows, AreRows(rows), NEW type, load_sources(rows, type) # Refused
    PROVE  AreSources(load_sources(rows, type), rows, type)
<1> DEFINE initial == {r \in ToSet(rows) : r.type = type /\ r.set = "INITIAL"}
           objects == {r.object : r \in initial}
           sources == [o \in objects |-> CHOOSE r \in initial : r.object = o]
<1>1. load_sources(rows, type) = sources
  BY DEF load_sources
<1>2. \A o \in objects : sources[o] \in initial /\ sources[o].object = o
  OBVIOUS
<1>3. IsFiniteSet(objects)
  <2>1. IsFiniteSet(initial)
    BY FewMembers, FS_Subset DEF AreRows
  <2> DEFINE object == [r \in initial |-> r.object]
  <2>2. objects = {object[r] : r \in initial}
    OBVIOUS
  <2> HIDE DEF initial, object
  <2> QED
    BY <2>1, <2>2, ImageIsFinite
<1> QED
  BY <1>1, <1>2, <1>3 DEF AreSources

\* Some of the sources, listed, are a pool of just these.
LEMMA ListedAre ==
    ASSUME NEW rows, AreRows(rows), NEW sources, NEW type, AreSources(sources, rows, type),
           NEW objects, objects \subseteq DOMAIN sources
    PROVE  IsPool(Listed(objects), DOMAIN sources) /\ ToSet(Listed(objects)) = objects
<1> DEFINE key == [o \in objects |-> o.source]
           list == sorted(objects, key)
           size == Cardinality(objects)
<1>1. IsFiniteSet(objects)
  BY FS_Subset DEF AreSources
<1>2. key \in [objects -> Int] /\ \A x, y \in objects : key[x] = key[y] => x = y
  <2>1. \A x \in objects : /\ sources[x] \in ToSet(rows) /\ sources[x].object = x
                           /\ sources[x].type = type /\ sources[x].set = "INITIAL"
    BY DEF AreSources
  <2>2. \A x \in objects : x.source \in Int
    BY <2>1 DEF AreRows
  <2>3. \A x, y \in objects : x.source = y.source => x = y
    <3> SUFFICES ASSUME NEW x \in objects, NEW y \in objects, x.source = y.source
                 PROVE  x = y
      OBVIOUS
    <3> DEFINE r == sources[x]
               q == sources[y]
    <3>1. /\ r \in ToSet(rows) /\ q \in ToSet(rows) /\ r.type = q.type /\ r.set = q.set
          /\ r.object = x /\ q.object = y
      BY <2>1
    <3> HIDE DEF r, q
    <3> QED
      BY <3>1 DEF AreRows
  <2> QED
    BY <2>2, <2>3
<1>3. Listed(objects) = list
  BY DEF Listed
<1> HIDE DEF key
<1>4. /\ list \in [1..size -> objects] /\ list \in Seq(objects) /\ Len(list) = size /\ size \in Nat
      /\ \A m, n \in 1..size : list[m] = list[n] => m = n
      /\ \A x \in objects : \E n \in 1..size : list[n] = x
  BY <1>1, <1>2, Sorted
<1> HIDE DEF list, size
<1>5. list \in Seq(DOMAIN sources)
  BY <1>4
<1>6. ToSet(list) = objects
  BY <1>4 DEF ToSet
<1> QED
  BY <1>3, <1>4, <1>5, <1>6 DEF IsPool

(***************************************************************************)
(* The cases of v1.8.                                                      *)
(***************************************************************************)

\* All that was seen of the image of a row, and something was, is as it
\* should be for the status.
Judged(observations, r) ==
    /\ Seen(observations, r.object) # {}
    /\ \A o \in Seen(observations, r.object) :
          o.product = IF r.status = "normal" THEN "PASS" ELSE "REJECT"

\* The product of the case is what it was.
HasItsStatus(wave, r) ==
    \E q \in ToSet(wave) : <<q.cell, q.type, q.status>> = <<r.cell, r.type, r.status>>

\* A row of the first tool, and one of the second; what is not an initial
\* capture the second tool refuses in the end.
RgbRow(wave, observations, r) ==
    /\ DOMAIN r = RowFields /\ HasItsStatus(wave, r)
    /\ r.type = "RGB" => Judged(observations, r)
    /\ r.type # "RGB" => r \in ToSet(wave)

CtRow(wave, observations, r) ==
    /\ HasItsStatus(wave, r)
    /\ r.type = "RGB" => Judged(observations, r)
    /\ r.type = "CT" /\ r.set = "INITIAL" /\ r.status = "normal" => Judged(observations, r)
    /\ r.type = "CT" /\ r.status = "defective" => r \in ToSet(wave)

RgbClasses == {"NORMAL_DUAL_PASS", "DEFECT_DUAL_REJECT"}
RgbRows(sources, observations) == [c \in RgbClasses |-> RgbPool(sources, observations, c)]
CtRows(sources, observations) ==
    [axis \in DOMAIN AxisCounts |-> CtPool(sources, observations, axis)]

\* The pools of both tools have no image in common.
LEMMA PoolsAreApart ==
    ASSUME NEW rows, AreRows(rows), NEW sources, NEW type, AreSources(sources, rows, type),
           NEW observations
    PROVE  /\ AreApart(RgbClasses, RgbRows(sources, observations), DOMAIN sources)
           /\ AreApart(DOMAIN AxisCounts, CtRows(sources, observations), DOMAIN sources)
<1> DEFINE Rgb(c) == {o \in DOMAIN sources :
                         candidate_class(sources[o], Seen(observations, o)) = c}
           Ct(axis) == {o \in DOMAIN sources :
                           /\ sources[o].axis = axis
                           /\ IsNormalProductPass(sources[o], Seen(observations, o))}
<1>1. \A objects \in SUBSET DOMAIN sources :
         IsPool(Listed(objects), DOMAIN sources) /\ ToSet(Listed(objects)) = objects
  BY ListedAre
<1>2. \A c : Rgb(c) \in SUBSET DOMAIN sources /\ RgbPool(sources, observations, c) = Listed(Rgb(c))
  BY DEF RgbPool
<1>3. \A axis : /\ Ct(axis) \in SUBSET DOMAIN sources
                /\ CtPool(sources, observations, axis) = Listed(Ct(axis))
  BY DEF CtPool
<1>4. \A c, d : c # d => Rgb(c) \cap Rgb(d) = {}
  OBVIOUS
<1>5. \A c, d : c # d => Ct(c) \cap Ct(d) = {}
  OBVIOUS
<1> HIDE DEF Rgb, Ct
<1>6. AreApart(RgbClasses, RgbRows(sources, observations), DOMAIN sources)
  BY <1>1, <1>2, <1>4 DEF AreApart, RgbRows
<1>7. AreApart(DOMAIN AxisCounts, CtRows(sources, observations), DOMAIN sources)
  BY <1>1, <1>3, <1>5 DEF AreApart, CtRows
<1> QED
  BY <1>6, <1>7

\* What is in a pool was seen to be judged right.
LEMMA PoolsAreJudged ==
    ASSUME NEW rows, AreRows(rows), NEW sources, NEW type, AreSources(sources, rows, type),
           NEW observations
    PROVE  /\ \A o \in ToSet(RgbPool(sources, observations, "NORMAL_DUAL_PASS")) :
                 /\ o \in DOMAIN sources /\ Seen(observations, o) # {}
                 /\ \A x \in Seen(observations, o) : x.product = "PASS"
           /\ \A o \in ToSet(RgbPool(sources, observations, "DEFECT_DUAL_REJECT")) :
                 /\ o \in DOMAIN sources /\ Seen(observations, o) # {}
                 /\ \A x \in Seen(observations, o) : x.product = "REJECT"
           /\ \A axis : \A o \in ToSet(CtPool(sources, observations, axis)) :
                 /\ o \in DOMAIN sources /\ Seen(observations, o) # {}
                 /\ \A x \in Seen(observations, o) : x.product = "PASS"
<1> DEFINE Rgb(c) == {o \in DOMAIN sources :
                         candidate_class(sources[o], Seen(observations, o)) = c}
           Ct(axis) == {o \in DOMAIN sources :
                           /\ sources[o].axis = axis
                           /\ IsNormalProductPass(sources[o], Seen(observations, o))}
<1>1. \A objects \in SUBSET DOMAIN sources : ToSet(Listed(objects)) = objects
  BY ListedAre
<1>2. \A c : Rgb(c) \in SUBSET DOMAIN sources /\ RgbPool(sources, observations, c) = Listed(Rgb(c))
  BY DEF RgbPool
<1>3. \A axis : /\ Ct(axis) \in SUBSET DOMAIN sources
                /\ CtPool(sources, observations, axis) = Listed(Ct(axis))
  BY DEF CtPool
<1>4. ASSUME NEW source, NEW seen, candidate_class(source, seen) = "NORMAL_DUAL_PASS"
      PROVE  seen # {} /\ \A x \in seen : x.product = "PASS"
  <2>1. {x.product : x \in seen} = {"PASS"}
    BY <1>4 DEF candidate_class
  <2> QED
    BY <2>1
<1>5. ASSUME NEW source, NEW seen, candidate_class(source, seen) = "DEFECT_DUAL_REJECT"
      PROVE  seen # {} /\ \A x \in seen : x.product = "REJECT"
  <2>1. {x.product : x \in seen} = {"REJECT"}
    BY <1>5 DEF candidate_class
  <2> QED
    BY <2>1
<1>6. ASSUME NEW source, NEW seen, IsNormalProductPass(source, seen)
      PROVE  seen # {} /\ \A x \in seen : x.product = "PASS"
  BY <1>6 DEF IsNormalProductPass
<1>7. \A c : ToSet(RgbPool(sources, observations, c)) = Rgb(c)
  <2> HIDE DEF Rgb
  <2> QED
    BY <1>1, <1>2
<1>8. \A axis : ToSet(CtPool(sources, observations, axis)) = Ct(axis)
  <2> HIDE DEF Ct
  <2> QED
    BY <1>1, <1>3
<1> QED
  BY <1>4, <1>5, <1>6, <1>7, <1>8

\* A new case begins.
LEMMA NextTurning ==
    ASSUME NEW P, NEW R, NEW I, NEW s, Turning(P, R, I, s)
    PROVE  Turning(P, R, I, NextCase(s)) /\ NextCase(s).forbidden = {} /\ NextCase(s).chosen = << >>
<1> DEFINE g == NextCase(s)
<1>1. s \in Selections(P, I)
  BY DEF Turning
<1>2. << >> \in Seq(I) /\ {} \in SUBSET I
  OBVIOUS
<1>3. /\ g.cursor = s.cursor /\ g.used = s.used /\ g.forbidden = {} /\ g.chosen = << >>
      /\ g \in Selections(P, I)
  BY <1>1, <1>2 DEF NextCase, Selections
<1> QED
  BY <1>3 DEF Turning

\* What failed stays a state of pools.
LEMMA FailedSelections ==
    ASSUME NEW P, NEW I, NEW b, b = [pools |-> b.pools, rows |-> b.rows],
           b.pools \in Selections(P, I), NEW c, c = [b EXCEPT !.pools.failed = TRUE]
    PROVE  /\ c.pools \in Selections(P, I) /\ c.pools.failed
           /\ c = [pools |-> c.pools, rows |-> c.rows]
<1>1. [b.pools EXCEPT !.failed = TRUE] \in Selections(P, I)
      /\ [b.pools EXCEPT !.failed = TRUE].failed
  BY DEF Selections
<1> QED
  BY <1>1

\* Rows that follow each other.
LEMMA RowsFollow ==
    ASSUME NEW first, IsSequence(first), NEW more, IsSequence(more)
    PROVE  /\ IsSequence(first \o more)
           /\ \A r \in ToSet(first \o more) : r \in ToSet(first) \/ r \in ToSet(more)
BY RowsJoined DEF ToSet

\* The chosen images as rows of the case.
LEMMA CalibratedAre ==
    ASSUME NEW rows, AreRows(rows), NEW sources, NEW type, AreSources(sources, rows, type),
           NEW s, s.chosen \in Seq(DOMAIN sources), NEW cell, NEW status
    PROVE  LET added == CalibratedRows(s, sources, cell, status)
           IN  /\ IsSequence(added)
               /\ \A r \in ToSet(added) :
                     /\ DOMAIN r = RowFields /\ r.object \in ToSet(s.chosen)
                     /\ r.cell = cell /\ r.type = type /\ r.status = status
                     /\ r.set = "INITIAL"
<1> DEFINE added == CalibratedRows(s, sources, cell, status)
           chosen == s.chosen
<1>1. chosen \in Seq(DOMAIN sources)
  OBVIOUS
<1>2. added = [n \in DOMAIN chosen |-> Calibrated(sources, chosen[n], cell, status)]
  BY DEF CalibratedRows
<1>3. ASSUME NEW o \in DOMAIN sources
      PROVE  LET r == Calibrated(sources, o, cell, status)
             IN  /\ DOMAIN r = RowFields /\ r.object = o /\ r.cell = cell /\ r.type = type
                 /\ r.status = status /\ r.set = "INITIAL"
  <2> DEFINE source == sources[o]
  <2>1. source \in ToSet(rows) /\ source.object = o /\ source.type = type
    BY DEF AreSources
  <2>2. DOMAIN source = RowFields
    BY <2>1 DEF AreRows
  <2>3. Calibrated(sources, o, cell, status)
          = [source EXCEPT !.wave = 1, !.cell = cell, !.set = "INITIAL",
                           !.quality = "PASS", !.status = status]
    BY DEF Calibrated
  <2> HIDE DEF source
  <2> QED
    BY <2>1, <2>2, <2>3 DEF RowFields
<1> HIDE DEF added, chosen
<1>4. \A n \in DOMAIN chosen : chosen[n] \in DOMAIN sources /\ chosen[n] \in ToSet(chosen)
  BY <1>1 DEF ToSet
<1>5. DOMAIN added = DOMAIN chosen /\ IsSequence(added)
  BY <1>1, <1>2 DEF IsSequence
<1>6. \A r \in ToSet(added) : \E n \in DOMAIN chosen :
         r = Calibrated(sources, chosen[n], cell, status)
  BY <1>2, <1>5 DEF ToSet
<1> QED
  BY <1>3, <1>4, <1>5, <1>6 DEF added, chosen

RgbStep(sources, observations, wave, v, b, cell) == RgbCase(b, sources, observations, wave, cell)

\* After some cases of the first tool.
RgbHolds(sources, observations, wave, v, k, b) ==
    /\ b = [pools |-> b.pools, rows |-> b.rows]
    /\ b.pools \in Selections(RgbClasses, DOMAIN sources)
    /\ ~ b.pools.failed =>
          /\ Turning(RgbClasses, RgbRows(sources, observations), DOMAIN sources, b.pools)
          /\ IsSequence(b.rows)
          /\ \A r \in ToSet(b.rows) : RgbRow(wave, observations, r)

RgbCases == INSTANCE Folding WITH Step <- RgbStep, Holds <- RgbHolds

\* Sources of a type from the rows that the wave is of.
IsDemo(rows, wave, sources, type) ==
    /\ AreRows(rows) /\ AreSources(sources, rows, type)
    /\ IsSequence(wave) /\ \A r \in ToSet(wave) : r \in ToSet(rows)

\* A case is filled with images of its class.
LEMMA RgbCaseKeeps ==
    ASSUME NEW rows, NEW wave, NEW sources, IsDemo(rows, wave, sources, "RGB"),
           NEW observations, NEW k, NEW b, RgbHolds(sources, observations, wave, 0, k, b),
           NEW n, NEW cell
    PROVE  RgbHolds(sources, observations, wave, 0, n,
                    RgbCase(b, sources, observations, wave, cell))
<1> DEFINE case == Case(wave, cell)
           rgb == Only(case, "RGB")
           status == rgb[1].status
           class == IF status = "normal" THEN "NORMAL_DUAL_PASS" ELSE "DEFECT_DUAL_REJECT"
           R == RgbRows(sources, observations)
           I == DOMAIN sources
           s == Pool_take(NextCase(b.pools), class, RgbPool(sources, observations, class),
                          WaveImages)
           valid == /\ Len(rgb) = WaveImages
                    /\ \A r \in ToSet(rgb) : r.set = "INITIAL" /\ r.status = status
           kept == Other(case, "RGB")
           added == CalibratedRows(s, sources, cell, status)
           after == RgbCase(b, sources, observations, wave, cell)
<1>1. /\ b = [pools |-> b.pools, rows |-> b.rows]
      /\ b.pools \in Selections(RgbClasses, I)
  BY DEF RgbHolds, I
<1>2. after = IF b.pools.failed \/ ~ valid THEN [b EXCEPT !.pools.failed = TRUE]
              ELSE Built(s, b.rows \o kept \o added)
  BY DEF RgbCase
<1>3. class \in RgbClasses /\ (class = "NORMAL_DUAL_PASS" <=> status = "normal")
  BY DEF RgbClasses
<1> HIDE DEF after, class, s, kept, added, R, I
<1>4. CASE b.pools.failed \/ ~ valid
  <2>1. after = [b EXCEPT !.pools.failed = TRUE]
    BY <1>2, <1>4
  <2> QED
    BY <1>1, <2>1, FailedSelections DEF RgbHolds, after, I
<1>5. CASE ~ b.pools.failed /\ valid
  <2>1. after = [pools |-> s, rows |-> b.rows \o kept \o added]
    BY <1>2, <1>5 DEF Built
  <2>2. /\ Turning(RgbClasses, R, I, b.pools) /\ IsSequence(b.rows)
        /\ \A r \in ToSet(b.rows) : RgbRow(wave, observations, r)
    BY <1>5 DEF RgbHolds, R, I
  <2>3. /\ Turning(RgbClasses, R, I, NextCase(b.pools))
        /\ NextCase(b.pools).forbidden = {} /\ NextCase(b.pools).chosen = << >>
    <3>1. \A t : Turning(RgbClasses, R, I, t) =>
             /\ Turning(RgbClasses, R, I, NextCase(t))
             /\ NextCase(t).forbidden = {} /\ NextCase(t).chosen = << >>
      BY NextTurning
    <3>2. Turning(RgbClasses, R, I, b.pools)
      BY <2>2
    <3> QED
      BY <3>1, <3>2
  <2>4. AreApart(RgbClasses, R, I) /\ R[class] = RgbPool(sources, observations, class)
    BY <1>3, PoolsAreApart DEF IsDemo, RgbRows, R, I
  <2> DEFINE start == NextCase(b.pools)
  <2>5. WaveImages \in Nat /\ WaveImages > 0
    BY CalibrationAssumption
  <2>6. s = Pool_take(start, class, R[class], WaveImages)
    BY <2>4 DEF s
  <2>7. start.forbidden \cap ToSet(R[class]) = {}
    BY <2>3
  <2> HIDE DEF start
  <2>8. /\ s \in Selections(RgbClasses, I)
        /\ ~ s.failed =>
              /\ Turning(RgbClasses, R, I, s)
              /\ ToSet(s.chosen) \subseteq ToSet(start.chosen) \cup ToSet(R[class])
    BY <1>3, <2>3, <2>4, <2>5, <2>6, <2>7, PoolTakes DEF start
  <2>9. CASE s.failed
    BY <2>1, <2>8, <2>9 DEF RgbHolds, after, I
  <2>10. CASE ~ s.failed
    <3>1. ToSet(s.chosen) \subseteq ToSet(RgbPool(sources, observations, class))
      BY <2>3, <2>4, <2>8, <2>10 DEF start, ToSet
    <3>2. s.chosen \in Seq(DOMAIN sources)
      BY <2>8 DEF Selections, I
    <3>3. /\ IsSequence(case) /\ IsSequence(rgb) /\ IsSequence(kept)
          /\ ToSet(case) = {r \in ToSet(wave) : r.cell = cell}
          /\ ToSet(rgb) = {r \in ToSet(case) : r.type = "RGB"}
          /\ ToSet(kept) = {r \in ToSet(case) : r.type # "RGB"}
      <4>1. IsSequence(wave)
        BY DEF IsDemo
      <4>2. IsSequence(case) /\ ToSet(case) = {r \in ToSet(wave) : r.cell = cell}
        BY <4>1, PartsAre
      <4> HIDE DEF case
      <4> QED
        BY <4>2, PartsAre DEF kept
    <3>4. /\ rgb[1] \in ToSet(wave) /\ rgb[1].cell = cell /\ rgb[1].type = "RGB"
      <4>1. rgb[1] \in ToSet(rgb)
        BY <1>5, <3>3, FirstOfRows
      <4> QED
        BY <3>3, <4>1
    <3>5. /\ IsSequence(added)
          /\ \A r \in ToSet(added) :
                /\ DOMAIN r = RowFields /\ r.object \in ToSet(s.chosen)
                /\ r.cell = cell /\ r.type = "RGB" /\ r.status = status
      BY <3>2, CalibratedAre DEF IsDemo, added
    <3>6. ASSUME NEW r \in ToSet(added)
          PROVE  RgbRow(wave, observations, r)
      <4>1. Judged(observations, r)
        <5>1. r.object \in ToSet(RgbPool(sources, observations, class)) /\ r.status = status
          BY <3>1, <3>5
        <5>2. \/ class = "NORMAL_DUAL_PASS" /\ status = "normal"
              \/ class = "DEFECT_DUAL_REJECT" /\ status # "normal"
          BY <1>3 DEF RgbClasses
        <5> HIDE DEF status
        <5> QED
          BY <5>1, <5>2, PoolsAreJudged DEF Judged, IsDemo
      <4>2. HasItsStatus(wave, r)
        BY <3>4, <3>5 DEF HasItsStatus
      <4> QED
        BY <3>5, <4>1, <4>2 DEF RgbRow
    <3>7. ASSUME NEW r \in ToSet(kept)
          PROVE  RgbRow(wave, observations, r)
      <4>1. r \in ToSet(wave) /\ r.type # "RGB"
        BY <3>3
      <4> QED
        BY <4>1 DEF RgbRow, HasItsStatus, IsDemo, AreRows
    <3>8. /\ IsSequence(b.rows \o kept \o added)
          /\ \A r \in ToSet(b.rows \o kept \o added) :
                r \in ToSet(b.rows) \/ r \in ToSet(kept) \/ r \in ToSet(added)
      <4>1. /\ IsSequence(b.rows \o kept)
            /\ \A r \in ToSet(b.rows \o kept) : r \in ToSet(b.rows) \/ r \in ToSet(kept)
        BY <2>2, <3>3, RowsFollow
      <4> DEFINE first == b.rows \o kept
      <4> HIDE DEF first
      <4>2. /\ IsSequence(first \o added)
            /\ \A r \in ToSet(first \o added) : r \in ToSet(first) \/ r \in ToSet(added)
        BY <3>5, <4>1, RowsFollow DEF first
      <4> QED
        BY <4>1, <4>2 DEF first
    <3> DEFINE all == b.rows \o kept \o added
    <3>9. IsSequence(all) /\ \A r \in ToSet(all) : RgbRow(wave, observations, r)
      BY <2>2, <3>6, <3>7, <3>8
    <3>10. after = [pools |-> s, rows |-> all]
      BY <2>1
    <3> HIDE DEF all
    <3>11. after.pools = s /\ after.rows = all /\ after = [pools |-> after.pools, rows |-> after.rows]
      BY <3>10
    <3> QED
      BY <2>8, <2>10, <3>9, <3>11 DEF RgbHolds, R, I, after
  <2> QED
    BY <2>9, <2>10
<1> QED
  BY <1>4, <1>5

\* Before the first case.
LEMMA RgbStarts ==
    ASSUME NEW rows, NEW wave, NEW sources, IsDemo(rows, wave, sources, "RGB"),
           NEW observations,
           NEW start, start = Built(FreshPools({"NORMAL_DUAL_PASS", "DEFECT_DUAL_REJECT"},
                                               DOMAIN sources), << >>)
    PROVE  RgbHolds(sources, observations, wave, 0, 0, start)
<1> DEFINE s == FreshPools(RgbClasses, DOMAIN sources)
           R == RgbRows(sources, observations)
<1>1. AreApart(RgbClasses, R, DOMAIN sources)
  BY PoolsAreApart DEF IsDemo
<1>2. start = [pools |-> s, rows |-> << >>]
  BY DEF Built, RgbClasses
<1> HIDE DEF s, R
<1>3. Turning(RgbClasses, R, DOMAIN sources, s)
  BY <1>1, FreshTurning DEF s
<1>4. s \in Selections(RgbClasses, DOMAIN sources)
  BY <1>3 DEF Turning
<1>5. IsSequence(<< >>) /\ ToSet(<< >>) = {}
  BY DEF IsSequence, ToSet
<1>6. start.pools = s /\ start.rows = << >> /\ start = [pools |-> start.pools, rows |-> start.rows]
  BY <1>2
<1> QED
  BY <1>3, <1>4, <1>5, <1>6 DEF RgbHolds, R

\* The wave of the first tool.
LEMMA RgbWave ==
    ASSUME NEW rows, NEW wave, NEW sources, IsDemo(rows, wave, sources, "RGB"),
           NEW observations
    PROVE  RgbHolds(sources, observations, wave, 0, Len(CellsOf(wave)),
                    build_wave_one(wave, sources, observations))
<1> DEFINE cells == CellsOf(wave)
           start == Built(FreshPools({"NORMAL_DUAL_PASS", "DEFECT_DUAL_REJECT"}, DOMAIN sources),
                          << >>)
           built == RgbCases!Folded(sources, observations, wave, 0, start, cells)
<1>1. build_wave_one(wave, sources, observations) = built
  BY Zenon DEF build_wave_one, RgbStep, RgbCases!Folded, RgbCases!Iterates,
               RgbCases!Unfolds, RgbCases!Greatest, FoldLeft, MapThenFoldSet, Max
<1>2. RgbHolds(sources, observations, wave, 0, 0, start)
  BY RgbStarts
<1>3. \E S : cells \in Seq(S)
  <2>1. IsSequence(wave) /\ \A r \in ToSet(wave) : r.cell \in Int
    BY DEF IsDemo, AreRows
  <2> QED
    BY <2>1, CellsAre
<1> HIDE DEF start, cells
<1>4. ASSUME NEW k \in 1..Len(cells), NEW b,
             RgbHolds(sources, observations, wave, 0, k - 1, b)
      PROVE  RgbHolds(sources, observations, wave, 0, k,
                      RgbStep(sources, observations, wave, 0, b, cells[k]))
  <2> DEFINE before == k - 1
             cell == cells[k]
  <2>1. RgbHolds(sources, observations, wave, 0, before, b)
    BY <1>4
  <2> HIDE DEF before, cell
  <2>2. RgbHolds(sources, observations, wave, 0, k,
                 RgbCase(b, sources, observations, wave, cell))
    BY <2>1, RgbCaseKeeps
  <2> QED
    BY <2>2 DEF RgbStep, cell
<1>5. RgbHolds(sources, observations, wave, 0, Len(cells), built)
  BY <1>2, <1>3, <1>4, RgbCases!FoldKeeps, SMT
<1> QED
  BY <1>1, <1>5 DEF cells

AxisStep(sources, observations, u, v, r, axis) ==
    Pool_take(r, axis, CtPool(sources, observations, axis), AxisCounts[axis])

\* After k of the axes nothing was taken from the pools of the others.
AxisHolds(sources, observations, axes, v, k, r) ==
    /\ r \in Selections(DOMAIN AxisCounts, DOMAIN sources)
    /\ ~ r.failed =>
          /\ Turning(DOMAIN AxisCounts, CtRows(sources, observations), DOMAIN sources, r)
          /\ \A n \in k + 1..Len(axes) :
                r.forbidden \cap ToSet(CtPool(sources, observations, axes[n])) = {}
          /\ \A o \in ToSet(r.chosen) : \E axis \in DOMAIN AxisCounts :
                o \in ToSet(CtPool(sources, observations, axis))

EachAxis == INSTANCE Folding WITH Step <- AxisStep, Holds <- AxisHolds

\* The axes come once each.
LEMMA AxesAre ==
    /\ Axes \in Seq(DOMAIN AxisCounts)
    /\ Len(Axes) \in Nat
    /\ \A n \in 1..Len(Axes) : Axes[n] \in DOMAIN AxisCounts
    /\ \A m, n \in 1..Len(Axes) : Axes[m] = Axes[n] => m = n
<1> DEFINE S == DOMAIN AxisCounts
           size == Cardinality(S)
<1>1. IsFiniteSet(S)
  BY CalibrationAssumption
<1> HIDE DEF S
<1>2. size \in Nat
  BY <1>1, FS_CardinalityType
<1>3. \E f \in [1..size -> S] : IsInjective(f)
  <2>1. PICK m \in Nat : ExistsBijection(1..m, S)
    BY <1>1, FS_NatBijection
  <2>2. m = size
    BY <1>1, <2>1, FS_CountingElements
  <2>3. PICK f \in Bijection(1..size, S) : TRUE
    BY <2>1, <2>2 DEF ExistsBijection
  <2> QED
    BY <2>3 DEF Bijection, Injection
<1>4. Axes \in [1..size -> S] /\ IsInjective(Axes)
  BY <1>3 DEF Axes, SetToSeq, S
<1> HIDE DEF size
<1>5. Axes \in Seq(S) /\ Len(Axes) = size /\ DOMAIN Axes = 1..size
  BY <1>2, <1>4
<1> QED
  BY <1>2, <1>4, <1>5 DEF IsInjective, S

\* The pool of an axis is taken from.
LEMMA AxisKeeps ==
    ASSUME NEW rows, NEW sources, AreRows(rows), AreSources(sources, rows, "CT"),
           NEW observations, NEW k \in 1..Len(Axes), NEW r,
           AxisHolds(sources, observations, Axes, 0, k - 1, r)
    PROVE  AxisHolds(sources, observations, Axes, 0, k,
                     AxisStep(sources, observations, Axes, 0, r, Axes[k]))
<1> DEFINE P == DOMAIN AxisCounts
           R == CtRows(sources, observations)
           I == DOMAIN sources
           axis == Axes[k]
           count == AxisCounts[axis]
           g == Pool_take(r, axis, CtPool(sources, observations, axis), count)
<1>1. axis \in P /\ Len(Axes) \in Nat
  BY AxesAre
<1>2. AreApart(P, R, I) /\ \A p \in P : R[p] = CtPool(sources, observations, p)
  BY PoolsAreApart DEF CtRows
<1>3. count \in Nat /\ count > 0
  BY <1>1, CalibrationAssumption
<1>4. /\ r \in Selections(P, I)
      /\ ~ r.failed =>
            /\ Turning(P, R, I, r)
            /\ \A n \in k..Len(Axes) : r.forbidden \cap ToSet(R[Axes[n]]) = {}
            /\ \A o \in ToSet(r.chosen) : \E p \in P : o \in ToSet(R[p])
  <2>1. (k - 1) + 1 = k /\ \A n \in k..Len(Axes) : Axes[n] \in P
    BY AxesAre
  <2> QED
    BY <1>2, <2>1 DEF AxisHolds
<1> HIDE DEF P, R, I, axis, count
<1>5. g = Pool_take(r, axis, R[axis], count)
  BY <1>1, <1>2
<1>6. AxisStep(sources, observations, Axes, 0, r, Axes[k]) = g
  BY DEF AxisStep, axis, count
<1> HIDE DEF g
<1>7. CASE r.failed
  <2>1. g = [r EXCEPT !.failed = TRUE]
    BY <1>5, <1>7 DEF Pool_take
  <2>2. g \in Selections(P, I) /\ g.failed
    BY <1>4, <2>1 DEF Selections
  <2> QED
    BY <1>6, <2>2 DEF AxisHolds, P, I
<1>8. CASE ~ r.failed
  <2>1. r.forbidden \cap ToSet(R[axis]) = {}
    <3>1. k \in k..Len(Axes)
      BY <1>1
    <3> QED
      BY <1>4, <1>8, <3>1 DEF axis
  <2>2. /\ g \in Selections(P, I)
        /\ ~ g.failed =>
              /\ Turning(P, R, I, g)
              /\ g.forbidden \subseteq r.forbidden \cup ToSet(R[axis])
              /\ ToSet(g.chosen) \subseteq ToSet(r.chosen) \cup ToSet(R[axis])
    BY <1>1, <1>2, <1>3, <1>4, <1>5, <1>8, <2>1, PoolTakes
  <2>3. ASSUME ~ g.failed, NEW n \in k + 1..Len(Axes)
        PROVE  g.forbidden \cap ToSet(R[Axes[n]]) = {}
    <3>1. n \in k..Len(Axes) /\ n \in 1..Len(Axes) /\ n # k
      BY <1>1
    <3>2. Axes[n] # axis /\ Axes[n] \in P
      BY <3>1, AxesAre DEF axis, P
    <3>3. ToSet(R[Axes[n]]) \cap ToSet(R[axis]) = {}
      BY <1>1, <1>2, <3>2 DEF AreApart
    <3>4. r.forbidden \cap ToSet(R[Axes[n]]) = {}
      BY <1>4, <1>8, <3>1
    <3> QED
      BY <2>2, <2>3, <3>3, <3>4
  <2>4. ASSUME ~ g.failed, NEW o \in ToSet(g.chosen)
        PROVE  \E p \in P : o \in ToSet(R[p])
    BY <1>1, <1>4, <1>8, <2>2, <2>4
  <2>5. \A n \in k + 1..Len(Axes) : R[Axes[n]] = CtPool(sources, observations, Axes[n])
    BY <1>2, AxesAre DEF P
  <2> QED
    BY <1>2, <1>6, <2>2, <2>3, <2>4, <2>5 DEF AxisHolds, P, R, I
<1> QED
  BY <1>7, <1>8

\* The axes of a case.
AxesTaken(sources, observations, start) ==
    FoldLeft(LAMBDA r, axis : Pool_take(r, axis, CtPool(sources, observations, axis),
                                        AxisCounts[axis]),
             start, Axes)

\* A case is served by the pools of all axes.
LEMMA AllAxes ==
    ASSUME NEW rows, NEW sources, AreRows(rows), AreSources(sources, rows, "CT"),
           NEW observations, NEW s,
           Turning(DOMAIN AxisCounts, CtRows(sources, observations), DOMAIN sources, s),
           NEW g, g = AxesTaken(sources, observations, NextCase(s))
    PROVE  /\ g \in Selections(DOMAIN AxisCounts, DOMAIN sources)
           /\ ~ g.failed =>
                 /\ Turning(DOMAIN AxisCounts, CtRows(sources, observations), DOMAIN sources, g)
                 /\ \A o \in ToSet(g.chosen) : \E axis \in DOMAIN AxisCounts :
                       o \in ToSet(CtPool(sources, observations, axis))
<1> DEFINE start == NextCase(s)
           taken == EachAxis!Folded(sources, observations, Axes, 0, start, Axes)
           P == DOMAIN AxisCounts
           R == CtRows(sources, observations)
           I == DOMAIN sources
<1>1. g = taken
  BY Zenon DEF AxesTaken, AxisStep, EachAxis!Folded, EachAxis!Iterates,
               EachAxis!Unfolds, EachAxis!Greatest, FoldLeft, MapThenFoldSet, Max
<1>2. /\ Turning(P, R, I, start) /\ start.forbidden = {} /\ start.chosen = << >>
  <2>1. \A t : Turning(P, R, I, t) =>
           /\ Turning(P, R, I, NextCase(t))
           /\ NextCase(t).forbidden = {} /\ NextCase(t).chosen = << >>
    BY NextTurning
  <2>2. Turning(P, R, I, s)
    OBVIOUS
  <2> QED
    BY <2>1, <2>2
<1> HIDE DEF start, taken
<1>3. AxisHolds(sources, observations, Axes, 0, 0, start)
  <2>1. start \in Selections(P, I)
    BY <1>2 DEF Turning
  <2>2. ToSet(start.chosen) = {}
    BY <1>2 DEF ToSet
  <2> QED
    BY <1>2, <2>1, <2>2 DEF AxisHolds
<1>4. \A k \in 1..Len(Axes) : \A r : AxisHolds(sources, observations, Axes, 0, k - 1, r) =>
         AxisHolds(sources, observations, Axes, 0, k,
                   AxisStep(sources, observations, Axes, 0, r, Axes[k]))
  BY AxisKeeps
<1>5. Axes \in Seq(P)
  BY AxesAre
<1> HIDE DEF P, R, I
<1>6. AxisHolds(sources, observations, Axes, 0, Len(Axes), taken)
  BY <1>3, <1>4, <1>5, EachAxis!FoldKeeps, SMT DEF taken
<1> QED
  BY <1>1, <1>6 DEF AxisHolds

CtStep(sources, observations, wave, v, b, cell) == CtCase(b, sources, observations, wave, cell)

\* After some cases of the second tool, on the rows of the first.
CtHolds(sources, observations, wave, original, k, b) ==
    /\ b = [pools |-> b.pools, rows |-> b.rows]
    /\ b.pools \in Selections(DOMAIN AxisCounts, DOMAIN sources)
    /\ ~ b.pools.failed =>
          /\ Turning(DOMAIN AxisCounts, CtRows(sources, observations), DOMAIN sources, b.pools)
          /\ IsSequence(b.rows)
          /\ \A r \in ToSet(b.rows) : CtRow(original, observations, r)

CtCases == INSTANCE Folding WITH Step <- CtStep, Holds <- CtHolds

\* The rows of one group.
LEMMA GroupIs ==
    ASSUME NEW rows, IsSequence(rows), NEW cell, NEW type, NEW set
    PROVE  /\ IsSequence(GroupOf(rows, cell, type, set))
           /\ ToSet(GroupOf(rows, cell, type, set))
                = {r \in ToSet(rows) : r.cell = cell /\ r.type = type /\ r.set = set}
<1> DEFINE group == {n \in DOMAIN rows : /\ rows[n].cell = cell
                                         /\ rows[n].type = type /\ rows[n].set = set}
<1>1. group \subseteq DOMAIN rows
  OBVIOUS
<1>2. {rows[n] : n \in group}
        = {r \in ToSet(rows) : r.cell = cell /\ r.type = type /\ r.set = set}
  BY DEF ToSet
<1>3. GroupOf(rows, cell, type, set) = Picked(rows, group)
  BY DEF GroupOf, GroupPlaces
<1> HIDE DEF group
<1> QED
  BY <1>1, <1>2, <1>3, PickedAre

\* Rows of the first tool, and what they were made from.
AreRgbRows(rows, original, observations, wave) ==
    /\ AreRows(rows) /\ \A r \in ToSet(original) : r \in ToSet(rows)
    /\ IsSequence(wave) /\ \A r \in ToSet(wave) : RgbRow(original, observations, r)

\* The rows that stay for a case are right, unless they are of a second
\* capture.
LEMMA KeptAreRight ==
    ASSUME NEW rows, NEW original, NEW observations, NEW wave,
           AreRgbRows(rows, original, observations, wave), NEW r \in ToSet(wave)
    PROVE  /\ r.type # "CT" => CtRow(original, observations, r)
           /\ r.type = "CT" /\ (r.set = "INITIAL" => r.status = "defective")
                 => CtRow(original, observations, r)
<1>1. RgbRow(original, observations, r)
  BY DEF AreRgbRows
<1>2. r.type \in {"CT", "RGB"} /\ "CT" # "RGB" /\ "normal" # "defective"
  <2>1. CASE r.type = "RGB"
    BY <2>1
  <2>2. CASE r.type # "RGB"
    <3>1. r \in ToSet(rows)
      BY <1>1, <2>2 DEF RgbRow, AreRgbRows
    <3> QED
      BY <3>1 DEF AreRgbRows, AreRows, ImageTypes
  <2> QED
    BY <2>1, <2>2
<1> QED
  BY <1>1, <1>2 DEF RgbRow, CtRow

\* The CT of a normal product is filled with images of its axes, that of a
\* defective one stays.
LEMMA CtCaseKeeps ==
    ASSUME NEW rows, NEW original, NEW observations, NEW wave,
           AreRgbRows(rows, original, observations, wave),
           NEW sources, AreSources(sources, rows, "CT"),
           NEW k, NEW b, CtHolds(sources, observations, wave, original, k, b),
           NEW n, NEW cell
    PROVE  CtHolds(sources, observations, wave, original, n,
                   CtCase(b, sources, observations, wave, cell))
<1> DEFINE case == Case(wave, cell)
           ct == GroupOf(case, cell, "CT", "INITIAL")
           status == ct[1].status
           P == DOMAIN AxisCounts
           R == CtRows(sources, observations)
           I == DOMAIN sources
           s == AxesTaken(sources, observations, NextCase(b.pools))
           valid == Len(ct) = WaveImages /\ \A r \in ToSet(ct) : r.status = status
           rgbKept == Other(case, "CT")
           ctKept == Other(case, "RGB")
           added == CalibratedRows(s, sources, cell, "normal")
           after == CtCase(b, sources, observations, wave, cell)
<1>1. /\ b = [pools |-> b.pools, rows |-> b.rows]
      /\ b.pools \in Selections(P, I)
  BY DEF CtHolds
<1>2. after = IF b.pools.failed \/ ~ valid THEN [b EXCEPT !.pools.failed = TRUE]
              ELSE IF status = "defective" THEN [b EXCEPT !.rows = @ \o ctKept \o rgbKept]
              ELSE Built(s, b.rows \o added \o rgbKept)
  BY DEF CtCase, AxesTaken
<1> HIDE DEF after, s, added, P, R, I
<1>3. /\ IsSequence(case) /\ IsSequence(ct) /\ IsSequence(rgbKept) /\ IsSequence(ctKept)
      /\ \A r \in ToSet(case) : r \in ToSet(wave) /\ r.cell = cell
      /\ ToSet(ct) = {r \in ToSet(case) : r.cell = cell /\ r.type = "CT" /\ r.set = "INITIAL"}
      /\ \A r \in ToSet(rgbKept) : r \in ToSet(case) /\ r.type # "CT"
      /\ \A r \in ToSet(ctKept) : r \in ToSet(case) /\ r.type # "RGB"
  <2>1. IsSequence(wave)
    BY DEF AreRgbRows
  <2>2. IsSequence(case) /\ ToSet(case) = {r \in ToSet(wave) : r.cell = cell}
    BY <2>1, PartsAre
  <2> HIDE DEF case
  <2>3. /\ IsSequence(rgbKept) /\ IsSequence(ctKept)
        /\ ToSet(rgbKept) = {r \in ToSet(case) : r.type # "CT"}
        /\ ToSet(ctKept) = {r \in ToSet(case) : r.type # "RGB"}
    <3>1. \A type : /\ IsSequence(Other(case, type))
                    /\ ToSet(Other(case, type)) = {r \in ToSet(case) : r.type # type}
      BY <2>2, PartsAre, Zenon
    <3> QED
      BY <3>1, Zenon
  <2>4. /\ IsSequence(ct)
        /\ ToSet(ct) = {r \in ToSet(case) : r.cell = cell /\ r.type = "CT" /\ r.set = "INITIAL"}
    BY <2>2, GroupIs
  <2> QED
    BY <2>2, <2>3, <2>4
<1>4. \A r \in ToSet(rgbKept) : CtRow(original, observations, r)
  <2>1. \A r \in ToSet(rgbKept) : r \in ToSet(wave) /\ r.type # "CT"
    BY <1>3
  <2> HIDE DEF rgbKept
  <2> QED
    BY <2>1, KeptAreRight
<1> HIDE DEF rgbKept
<1>5. CASE b.pools.failed \/ ~ valid
  <2>1. after = [b EXCEPT !.pools.failed = TRUE]
    BY <1>2, <1>5
  <2>2. after.pools \in Selections(P, I) /\ after.pools.failed
        /\ after = [pools |-> after.pools, rows |-> after.rows]
    BY <1>1, <2>1, FailedSelections
  <2> QED
    BY <2>2 DEF CtHolds, after, P, I
<1> SUFFICES ASSUME ~ b.pools.failed, valid
             PROVE  CtHolds(sources, observations, wave, original, n, after)
  BY <1>5 DEF after
<1>6. /\ Turning(P, R, I, b.pools) /\ IsSequence(b.rows)
      /\ \A r \in ToSet(b.rows) : CtRow(original, observations, r)
  BY DEF CtHolds, P, R, I
<1>7. ct[1] \in ToSet(ct) /\ ct[1] \in ToSet(wave) /\ ct[1].cell = cell /\ ct[1].type = "CT"
  <2>1. ct[1] \in ToSet(ct)
    BY <1>3, FirstOfRows
  <2> QED
    BY <1>3, <2>1
<1>8. CASE status = "defective"
  <2> DEFINE all == b.rows \o ctKept \o rgbKept
  <2>1. after = [b EXCEPT !.rows = all]
    BY <1>2, <1>8
  <2>2. ASSUME NEW r \in ToSet(ctKept)
        PROVE  CtRow(original, observations, r)
    <3>1. r \in ToSet(wave) /\ r \in ToSet(case) /\ r.cell = cell /\ r.type # "RGB"
      BY <1>3
    <3>2. r.type = "CT" /\ r.set = "INITIAL" => r.status = "defective"
      BY <1>3, <1>8, <3>1
    <3> HIDE DEF ctKept, valid, status, ct
    <3> QED
      BY <3>1, <3>2, KeptAreRight
  <2> HIDE DEF ctKept, valid, status, ct, case
  <2>3. IsSequence(ctKept) /\ IsSequence(rgbKept)
    BY <1>3
  <2>4. IsSequence(all) /\ \A r \in ToSet(all) : CtRow(original, observations, r)
    <3> DEFINE first == b.rows \o ctKept
    <3>1. IsSequence(first) /\ \A r \in ToSet(first) : r \in ToSet(b.rows) \/ r \in ToSet(ctKept)
      BY <1>6, <2>3, RowsFollow
    <3> HIDE DEF first
    <3>2. /\ IsSequence(first \o rgbKept)
          /\ \A r \in ToSet(first \o rgbKept) : r \in ToSet(first) \/ r \in ToSet(rgbKept)
      BY <2>3, <3>1, RowsFollow
    <3> QED
      BY <1>4, <1>6, <2>2, <3>1, <3>2 DEF first
  <2> HIDE DEF all
  <2>5. after.pools = b.pools /\ after.rows = all /\ after = [pools |-> after.pools, rows |-> after.rows]
    BY <1>1, <2>1
  <2> QED
    BY <1>1, <1>6, <2>4, <2>5 DEF CtHolds, P, R, I
<1>9. CASE status # "defective"
  <2> DEFINE all == b.rows \o added \o rgbKept
  <2>1. after = [pools |-> s, rows |-> all]
    BY <1>2, <1>9 DEF Built
  <2>2. /\ s \in Selections(P, I)
        /\ ~ s.failed =>
              /\ Turning(P, R, I, s)
              /\ \A o \in ToSet(s.chosen) : \E axis \in P :
                    o \in ToSet(CtPool(sources, observations, axis))
    <3> DEFINE pools == b.pools
    <3>1. AreRows(rows) /\ AreSources(sources, rows, "CT")
      BY DEF AreRgbRows
    <3>2. Turning(DOMAIN AxisCounts, CtRows(sources, observations), DOMAIN sources, pools)
      BY <1>6 DEF P, R, I
    <3>3. s = AxesTaken(sources, observations, NextCase(pools))
      BY DEF s
    <3> HIDE DEF pools
    <3> QED
      BY <3>1, <3>2, <3>3, AllAxes DEF P, R, I
  <2>3. status = "normal"
    <3>1. ct[1].type # "RGB"
      BY <1>7
    <3>2. ct[1] \in ToSet(original)
      BY <1>7, <3>1 DEF AreRgbRows, RgbRow
    <3>3. ct[1] \in ToSet(rows)
      BY <3>2 DEF AreRgbRows
    <3> HIDE DEF ct
    <3>4. ct[1].status \in {"normal", "defective"}
      BY <3>3 DEF AreRgbRows, AreRows
    <3> QED
      BY <1>9, <3>4
  <2>4. ASSUME ~ s.failed, NEW r \in ToSet(added)
        PROVE  CtRow(original, observations, r)
    <3>1. s.chosen \in Seq(DOMAIN sources)
      BY <2>2 DEF Selections, I
    <3>2. /\ r.object \in ToSet(s.chosen)
          /\ r.cell = cell /\ r.type = "CT" /\ r.status = "normal"
      BY <2>4, <3>1, CalibratedAre DEF added, AreRgbRows
    <3>3. Judged(observations, r)
      <4>1. PICK axis \in P : r.object \in ToSet(CtPool(sources, observations, axis))
        BY <2>2, <2>4, <3>2
      <4> QED
        BY <3>2, <4>1, PoolsAreJudged DEF Judged, AreRgbRows
    <3>4. HasItsStatus(original, r)
      <4>1. HasItsStatus(original, ct[1])
        BY <1>7 DEF AreRgbRows, RgbRow
      <4>2. ct[1].cell = r.cell /\ ct[1].type = r.type /\ ct[1].status = r.status
        BY <1>7, <2>3, <3>2
      <4> HIDE DEF ct
      <4> QED
        BY <4>1, <4>2 DEF HasItsStatus
    <3> QED
      BY <3>2, <3>3, <3>4 DEF CtRow
  <2> HIDE DEF ctKept, valid, status, ct, case
  <2>5. ASSUME ~ s.failed
        PROVE  IsSequence(all) /\ \A r \in ToSet(all) : CtRow(original, observations, r)
    <3> DEFINE first == b.rows \o added
    <3>1. IsSequence(added)
      <4>1. s.chosen \in Seq(DOMAIN sources)
        BY <2>2 DEF Selections, I
      <4> QED
        BY <4>1, CalibratedAre DEF added, AreRgbRows
    <3>2. IsSequence(first) /\ \A r \in ToSet(first) : r \in ToSet(b.rows) \/ r \in ToSet(added)
      BY <1>6, <3>1, RowsFollow
    <3> HIDE DEF first
    <3>3. /\ IsSequence(first \o rgbKept)
          /\ \A r \in ToSet(first \o rgbKept) : r \in ToSet(first) \/ r \in ToSet(rgbKept)
      BY <1>3, <3>2, RowsFollow
    <3> QED
      BY <1>4, <1>6, <2>4, <2>5, <3>2, <3>3 DEF first
  <2> HIDE DEF all
  <2>6. after.pools = s /\ after.rows = all /\ after = [pools |-> after.pools, rows |-> after.rows]
    BY <2>1
  <2> QED
    BY <2>2, <2>5, <2>6 DEF CtHolds, P, R, I
<1> QED
  BY <1>8, <1>9

\* Before the first case.
LEMMA CtStarts ==
    ASSUME NEW rows, NEW original, NEW observations, NEW wave,
           AreRgbRows(rows, original, observations, wave),
           NEW sources, AreSources(sources, rows, "CT"),
           NEW start, start = Built(FreshPools(DOMAIN AxisCounts, DOMAIN sources), << >>)
    PROVE  CtHolds(sources, observations, wave, original, 0, start)
<1> DEFINE P == DOMAIN AxisCounts
           s == FreshPools(P, DOMAIN sources)
           R == CtRows(sources, observations)
<1>1. AreApart(P, R, DOMAIN sources)
  BY PoolsAreApart DEF AreRgbRows
<1>2. start = [pools |-> s, rows |-> << >>]
  BY DEF Built
<1> HIDE DEF s, R, P
<1>3. Turning(P, R, DOMAIN sources, s)
  BY <1>1, FreshTurning DEF s
<1>4. s \in Selections(P, DOMAIN sources)
  BY <1>3 DEF Turning
<1>5. IsSequence(<< >>) /\ ToSet(<< >>) = {}
  BY DEF IsSequence, ToSet
<1>6. start.pools = s /\ start.rows = << >> /\ start = [pools |-> start.pools, rows |-> start.rows]
  BY <1>2
<1> QED
  BY <1>3, <1>4, <1>5, <1>6 DEF CtHolds, P, R

\* The wave of the second tool, before its last look.
LEMMA CtWave ==
    ASSUME NEW rows, NEW original, NEW observations, NEW wave,
           AreRgbRows(rows, original, observations, wave), \A r \in ToSet(wave) : r.cell \in Int,
           NEW sources, AreSources(sources, rows, "CT"),
           NEW b, b = build_wave(wave, sources, observations), ~ b.pools.failed
    PROVE  /\ CtHolds(sources, observations, wave, original, Len(CellsOf(wave)), b)
           /\ \A r \in ToSet(b.rows) : r.type = "CT" => r.set = "INITIAL"
<1> DEFINE cells == CellsOf(wave)
           start == Built(FreshPools(DOMAIN AxisCounts, DOMAIN sources), << >>)
           built == CtCases!Folded(sources, observations, wave, original, start, cells)
           Images(c, axis) == Cardinality({n \in DOMAIN built.rows :
               built.rows[n].cell = c /\ built.rows[n].type = "CT" /\ built.rows[n].axis = axis})
           refused == \/ built.pools.failed
                      \/ \E r \in ToSet(built.rows) : r.type = "CT" /\ r.set # "INITIAL"
                      \/ \E c \in ToSet(CellsOf(wave)) :
                            Len(Only(Case(built.rows, c), "CT")) # WaveImages
                      \/ \E c \in ToSet(CellsOf(wave)), axis \in DOMAIN AxisCounts :
                            Images(c, axis) # AxisCounts[axis]
<1>1. build_wave(wave, sources, observations)
        = IF refused THEN [built EXCEPT !.pools.failed = TRUE] ELSE built
  BY Zenon DEF build_wave, CtStep, CtCases!Folded, CtCases!Iterates,
               CtCases!Unfolds, CtCases!Greatest, FoldLeft, MapThenFoldSet, Max
<1>2. CtHolds(sources, observations, wave, original, 0, start)
  BY CtStarts
<1>3. \E S : cells \in Seq(S)
  <2>1. IsSequence(wave)
    BY DEF AreRgbRows
  <2> QED
    BY <2>1, CellsAre
<1> HIDE DEF start, cells
<1>4. ASSUME NEW k \in 1..Len(cells), NEW r,
             CtHolds(sources, observations, wave, original, k - 1, r)
      PROVE  CtHolds(sources, observations, wave, original, k,
                     CtStep(sources, observations, wave, original, r, cells[k]))
  <2> DEFINE before == k - 1
             cell == cells[k]
  <2>1. CtHolds(sources, observations, wave, original, before, r)
    BY <1>4
  <2> HIDE DEF before, cell
  <2>2. CtHolds(sources, observations, wave, original, k,
                CtCase(r, sources, observations, wave, cell))
    BY <2>1, CtCaseKeeps
  <2> QED
    BY <2>2 DEF CtStep, cell
<1>5. CtHolds(sources, observations, wave, original, Len(cells), built)
  BY <1>2, <1>3, <1>4, CtCases!FoldKeeps, SMT
<1> HIDE DEF built
<1>6. ~ refused
  <2>1. /\ built = [pools |-> built.pools, rows |-> built.rows]
        /\ built.pools \in Selections(DOMAIN AxisCounts, DOMAIN sources)
    BY <1>5 DEF CtHolds
  <2>2. [built EXCEPT !.pools.failed = TRUE].pools.failed
    BY <2>1, FailedSelections
  <2> HIDE DEF refused
  <2> QED
    BY <1>1, <2>2
<1>7. b = built
  BY <1>1, <1>6
<1>8. \A r \in ToSet(built.rows) : r.type = "CT" => r.set = "INITIAL"
  BY <1>6
<1> QED
  BY <1>5, <1>7, <1>8 DEF cells

\* Manifests of a call are rows.
LEMMA ManifestsAreRows ==
    ASSUME NEW t \in Tasks, t.tool = "demo"
    PROVE  AreRows(t.rows)
<1> DEFINE rows == t.rows
<1>1. rows \in Seq({rows[n] : n \in DOMAIN rows})
  BY DemosAssumption
<1>2. /\ \A n \in DOMAIN rows :
            /\ DOMAIN rows[n] = RowFields
            /\ rows[n].cell \in Int /\ rows[n].object.source \in Int
            /\ rows[n].type \in ImageTypes
            /\ rows[n].status \in {"normal", "defective"}
            /\ rows[n].object = [set |-> rows[n].set, type |-> rows[n].type,
                                 source |-> rows[n].object.source]
  BY DemosAssumption DEF RowFields
<1>5. \A m, n \in DOMAIN rows :
         /\ rows[m].type = rows[n].type /\ rows[m].set = rows[n].set
         /\ rows[m].object.source = rows[n].object.source
         => rows[m].object = rows[n].object
  <2> HIDE DEF rows
  <2> SUFFICES ASSUME NEW m \in DOMAIN rows, NEW n \in DOMAIN rows,
                      rows[m].type = rows[n].type, rows[m].set = rows[n].set,
                      rows[m].object.source = rows[n].object.source
               PROVE  rows[m].object = rows[n].object
    BY Zenon
  <2>1. /\ rows[m].object = [set |-> rows[m].set, type |-> rows[m].type,
                             source |-> rows[m].object.source]
        /\ rows[n].object = [set |-> rows[n].set, type |-> rows[n].type,
                             source |-> rows[n].object.source]
    BY <1>2, Zenon
  <2> QED
    BY <2>1, Zenon
<1> HIDE DEF rows
<1>3. IsSequence(rows)
  BY <1>1 DEF IsSequence
<1>4. AreRows(rows)
  <2>1. \A r \in ToSet(rows) : \E n \in DOMAIN rows : r = rows[n]
    BY DEF ToSet
  <2>2. \A r \in ToSet(rows) :
           /\ DOMAIN r = RowFields /\ r.cell \in Int /\ r.object.source \in Int
           /\ r.type \in ImageTypes /\ r.status \in {"normal", "defective"}
           /\ r.object = [set |-> r.set, type |-> r.type, source |-> r.object.source]
    BY <1>2, <2>1, Zenon
  <2>3. \A r, q \in ToSet(rows) :
           r.type = q.type /\ r.set = q.set /\ r.object.source = q.object.source
               => r.object = q.object
    BY <1>5, <2>1, Zenon
  <2> QED
    BY <1>3, <2>2, <2>3, Zenon DEF AreRows
<1> QED
  BY <1>4 DEF rows

\* Every case shows what was judged right, and pools are used evenly.
LEMMA CalibratedIsJudged ==
    ASSUME NEW rows, AreRows(rows), NEW results, Calibrate(rows, results) # Refused
    PROVE  LET b == Calibrate(rows, results)
               observations == load_observations(results)
               wave == {r \in ToSet(rows) : r.wave = 1}
               rgbSources == load_sources(rows, "RGB")
               ctSources == load_sources(rows, "CT")
           IN  /\ \A r \in ToSet(b.ct.rows) :
                     /\ \E q \in wave : <<q.cell, q.type, q.status>> = <<r.cell, r.type, r.status>>
                     /\ r.type = "RGB" \/ r.status = "normal" => Judged(observations, r)
                     /\ r.type = "CT" /\ r.status = "defective" => r \in wave
               /\ \A class \in RgbClasses :
                     \A o, p \in ToSet(RgbPool(rgbSources, observations, class)) :
                        b.rgb.pools.used[o] <= b.rgb.pools.used[p] + 1
               /\ \A axis \in DOMAIN AxisCounts :
                     \A o, p \in ToSet(CtPool(ctSources, observations, axis)) :
                        b.ct.pools.used[o] <= b.ct.pools.used[p] + 1
<1> DEFINE observations == load_observations(results)
           places == {n \in DOMAIN rows : rows[n].wave = 1}
           wave == Picked(rows, places)
           rgbSources == load_sources(rows, "RGB")
           ctSources == load_sources(rows, "CT")
           rgb == build_wave_one(wave, rgbSources, observations)
           ct == build_wave(rgb.rows, ctSources, observations)
<1>1. /\ Calibrate(rows, results) = [rgb |-> rgb, ct |-> ct]
      /\ rgbSources # Refused /\ ctSources # Refused
      /\ ~ rgb.pools.failed /\ ~ ct.pools.failed
  BY DEF Calibrate, FirstWave
<1>2. IsSequence(wave) /\ ToSet(wave) = {r \in ToSet(rows) : r.wave = 1}
  <2>1. IsSequence(rows) /\ places \subseteq DOMAIN rows
    BY DEF AreRows
  <2>2. {rows[n] : n \in places} = {r \in ToSet(rows) : r.wave = 1}
    BY DEF ToSet
  <2> HIDE DEF places
  <2> QED
    BY <2>1, <2>2, PickedAre
<1> HIDE DEF wave
<1>3. AreSources(rgbSources, rows, "RGB") /\ AreSources(ctSources, rows, "CT")
  BY <1>1, LoadedSources
<1> HIDE DEF observations, rgbSources, ctSources
<1>4. IsDemo(rows, wave, rgbSources, "RGB")
  BY <1>2, <1>3 DEF IsDemo
<1>5. RgbHolds(rgbSources, observations, wave, 0, Len(CellsOf(wave)), rgb)
  BY <1>4, RgbWave
<1> HIDE DEF rgb
<1>6. /\ Turning(RgbClasses, RgbRows(rgbSources, observations), DOMAIN rgbSources, rgb.pools)
      /\ IsSequence(rgb.rows) /\ \A r \in ToSet(rgb.rows) : RgbRow(wave, observations, r)
  BY <1>1, <1>5 DEF RgbHolds
<1>7. AreRgbRows(rows, wave, observations, rgb.rows) /\ \A r \in ToSet(rgb.rows) : r.cell \in Int
  <2>1. \A r \in ToSet(wave) : r \in ToSet(rows) /\ r.cell \in Int
    BY <1>2 DEF AreRows
  <2>2. \A r \in ToSet(rgb.rows) : r.cell \in Int
    BY <1>6, <2>1 DEF RgbRow, HasItsStatus
  <2> QED
    BY <1>6, <2>1, <2>2 DEF AreRgbRows
<1>8. /\ CtHolds(ctSources, observations, rgb.rows, wave, Len(CellsOf(rgb.rows)), ct)
      /\ \A r \in ToSet(ct.rows) : r.type = "CT" => r.set = "INITIAL"
  BY <1>1, <1>3, <1>7, CtWave
<1> HIDE DEF ct
<1>9. /\ Turning(DOMAIN AxisCounts, CtRows(ctSources, observations), DOMAIN ctSources, ct.pools)
      /\ \A r \in ToSet(ct.rows) : CtRow(wave, observations, r)
  BY <1>1, <1>8 DEF CtHolds
<1>10. ASSUME NEW r \in ToSet(ct.rows)
       PROVE  /\ \E q \in ToSet(wave) : <<q.cell, q.type, q.status>> = <<r.cell, r.type, r.status>>
              /\ r.type = "RGB" \/ r.status = "normal" => Judged(observations, r)
              /\ r.type = "CT" /\ r.status = "defective" => r \in ToSet(wave)
  <2>1. CtRow(wave, observations, r) /\ (r.type = "CT" => r.set = "INITIAL")
    BY <1>8, <1>9
  <2>2. r.type = "RGB" \/ r.type = "CT"
    <3>1. PICK q \in ToSet(wave) : q.type = r.type
      BY <2>1 DEF CtRow, HasItsStatus
    <3>2. q \in ToSet(rows)
      BY <1>2, <3>1
    <3> QED
      BY <3>1, <3>2 DEF AreRows, ImageTypes
  <2> QED
    BY <2>1, <2>2 DEF CtRow, HasItsStatus
<1>11. ASSUME NEW class \in RgbClasses,
              NEW o \in ToSet(RgbPool(rgbSources, observations, class)),
              NEW p \in ToSet(RgbPool(rgbSources, observations, class))
       PROVE  rgb.pools.used[o] <= rgb.pools.used[p] + 1
  <2> DEFINE R == RgbRows(rgbSources, observations)
             pools == rgb.pools
  <2>1. AreApart(RgbClasses, R, DOMAIN rgbSources) /\ R[class] = RgbPool(rgbSources, observations, class)
    BY <1>3, PoolsAreApart DEF RgbRows
  <2>2. Turning(RgbClasses, R, DOMAIN rgbSources, pools)
    BY <1>6
  <2>3. o \in ToSet(R[class]) /\ p \in ToSet(R[class])
    BY <2>1
  <2> HIDE DEF R, pools
  <2>4. pools.used[o] <= pools.used[p] + 1
    BY <2>1, <2>2, <2>3, TurningIsEven
  <2> QED
    BY <2>4 DEF pools
<1>12. ASSUME NEW axis \in DOMAIN AxisCounts,
              NEW o \in ToSet(CtPool(ctSources, observations, axis)),
              NEW p \in ToSet(CtPool(ctSources, observations, axis))
       PROVE  ct.pools.used[o] <= ct.pools.used[p] + 1
  <2> DEFINE P == DOMAIN AxisCounts
             R == CtRows(ctSources, observations)
             pools == ct.pools
  <2>1. AreApart(P, R, DOMAIN ctSources) /\ R[axis] = CtPool(ctSources, observations, axis)
    BY <1>3, PoolsAreApart DEF CtRows
  <2>2. Turning(P, R, DOMAIN ctSources, pools)
    BY <1>9
  <2>3. o \in ToSet(R[axis]) /\ p \in ToSet(R[axis]) /\ axis \in P
    BY <2>1
  <2> HIDE DEF P, R, pools
  <2>4. pools.used[o] <= pools.used[p] + 1
    BY <2>1, <2>2, <2>3, TurningIsEven
  <2> QED
    BY <2>4 DEF pools
<1> QED
  BY <1>1, <1>2, <1>10, <1>11, <1>12 DEF observations, rgbSources, ctSources

\* In a demonstration wave the RGB images, and the CT images of normal
\* products, are such as the model was seen to judge right, no candidate
\* taken two times more than another; the CT images of defective products
\* are only kept as they were; every case has its product status (both
\* build-v18 scripts).
THEOREM DemosAreCalibrated == Spec => []DemoIsCalibrated
<1>1. ReturnedIs => DemoIsCalibrated
  <2> SUFFICES ASSUME ReturnedIs, Returned("demo") PROVE DemoIsCalibrated
    BY DEF DemoIsCalibrated
  <2>1. /\ task \in Tasks /\ task.tool = "demo"
        /\ result = Calibrate(task.rows, task.results) /\ result # Refused
    BY DEF ReturnedIs, Returned
  <2>2. AreRows(task.rows)
    BY <2>1, ManifestsAreRows
  <2> DEFINE rows == task.rows
             results == task.results
  <2>3. AreRows(rows) /\ Calibrate(rows, results) # Refused /\ result = Calibrate(rows, results)
    BY <2>1, <2>2
  <2> HIDE DEF rows, results
  <2> DEFINE observations == load_observations(results)
             wave == {r \in ToSet(rows) : r.wave = 1}
             rgbSources == load_sources(rows, "RGB")
             ctSources == load_sources(rows, "CT")
  <2>4. /\ \A r \in ToSet(result.ct.rows) :
              /\ \E q \in wave : <<q.cell, q.type, q.status>> = <<r.cell, r.type, r.status>>
              /\ r.type = "RGB" \/ r.status = "normal" => Judged(observations, r)
              /\ r.type = "CT" /\ r.status = "defective" => r \in wave
        /\ \A class \in RgbClasses :
              \A o, p \in ToSet(RgbPool(rgbSources, observations, class)) :
                 result.rgb.pools.used[o] <= result.rgb.pools.used[p] + 1
        /\ \A axis \in DOMAIN AxisCounts :
              \A o, p \in ToSet(CtPool(ctSources, observations, axis)) :
                 result.ct.pools.used[o] <= result.ct.pools.used[p] + 1
    BY <2>3, CalibratedIsJudged
  <2> QED
    BY <2>4 DEF DemoIsCalibrated, Judged, RgbClasses, rows, results
<1> QED
  BY <1>1, CallsReturn, PTL
=============================================================================
